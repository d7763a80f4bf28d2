------------------------- MODULE InMemoryQueueProofs -------------------------
(***************************************************************************)
(* For any number of workers, messages, batch size and buffer size: the    *)
(* main thread's bookkeeping of jobs is exact, no result comes late, and   *)
(* queue() returns only when everything is stored.                         *)
(*                                                                         *)
(* Everything between a job's transform and its listener is one sequence,  *)
(* Line(j): the transform appends to it, the listener takes its head, and  *)
(* the worker's own steps only move the borders of its three parts.        *)
(***************************************************************************)
EXTENDS InMemoryQueue, FiniteSetTheorems, SequenceTheorems, TLAPS

\* The ids in a line are different and older than the next one.
Fresh ==
    \A j \in Jobs :
        /\ \A i \in DOMAIN Line(j) : Line(j)[i].jobId < issued[j]
        /\ \A i, k \in DOMAIN Line(j) :
                Line(j)[i].jobId = Line(j)[k].jobId => i = k

\* A worker has a batch in hand while it executes and none while it waits.
HandOK ==
    \A j \in Jobs :
        /\ pc[j] = "exec" => Len(hand[j]) = 1 /\ attempt[j] <= MaxRetries
        /\ pc[j] \in {"new", "init", "wait"} => hand[j] = <<>>
        /\ main = "idle" => hand[j] = <<>>

\* Closing goes from the source to the insert worker.
ClosedInOrder ==
    /\ \A w \in Workers :
        /\ outClosed[w] => inputClosed[w] /\ jobIds[w] = {}
        /\ inputClosed[w] /\ main # "terminated" => pulled.processed = N
    /\ inputClosed[Inserter] => GathererDone /\ gathered = <<>>
    /\ main = "returned" => inputClosed[Inserter] /\ jobIds[Inserter] = {}

\* Where a message that was assigned can be.
Somewhere(m) ==
    \/ m \in Stored
    \/ \E j \in Jobs : \E item \in Range(Line(j)) : m \in item.batch
    \/ \E w \in Workers : \E b \in Range(out[w]) : m \in b
    \/ \E b \in Range(gathered) : m \in b

Kept == main # "terminated" => \A m \in 1 .. pulled.processed : Somewhere(m)

\* The insert worker reports what it has written.
Reported == \A item \in Range(port[Inserter]) : item.batch \subseteq Stored

IInv ==
    TypeOK /\ Tracked /\ Fresh /\ HandOK /\ ClosedInOrder /\ Kept /\ Reported
-----------------------------------------------------------------------------
(* Sequences *)

LEMMA AppendFacts ==
    ASSUME NEW S, NEW s \in Seq(S), NEW e \in S
    PROVE  /\ Append(s, e) \in Seq(S)
           /\ Range(Append(s, e)) = Range(s) \cup {e}
           /\ DOMAIN Append(s, e) = DOMAIN s \cup {Len(s) + 1}
           /\ \A i \in DOMAIN s : Append(s, e)[i] = s[i]
           /\ Append(s, e)[Len(s) + 1] = e
<1>1. Append(s, e) \in Seq(S)
  OBVIOUS
<1>2. /\ DOMAIN s = 1 .. Len(s)
      /\ DOMAIN Append(s, e) = 1 .. Len(s) + 1
      /\ Len(s) \in Nat
  OBVIOUS
<1>3. \A i \in DOMAIN s : Append(s, e)[i] = s[i]
  OBVIOUS
<1>4. Append(s, e)[Len(s) + 1] = e
  OBVIOUS
<1>5. DOMAIN Append(s, e) = DOMAIN s \cup {Len(s) + 1}
  BY <1>2
<1>6. Range(Append(s, e)) = Range(s) \cup {e}
  BY <1>3, <1>4, <1>5 DEF Range
<1>. QED
  BY <1>1, <1>3, <1>4, <1>5, <1>6

LEMMA TailFacts ==
    ASSUME NEW S, NEW s \in Seq(S), s # <<>>
    PROVE  /\ Head(s) \in S
           /\ Head(s) = s[1]
           /\ 1 \in DOMAIN s
           /\ Tail(s) \in Seq(S)
           /\ \A i \in DOMAIN Tail(s) : i + 1 \in DOMAIN s /\ Tail(s)[i] = s[i + 1]
           /\ Range(s) = {Head(s)} \cup Range(Tail(s))
<1>1. /\ Len(s) \in Nat \ {0}
      /\ DOMAIN s = 1 .. Len(s)
      /\ Head(s) = s[1]
      /\ Head(s) \in S
  BY EmptySeq
<1>2. /\ Tail(s) \in Seq(S)
      /\ Len(Tail(s)) = Len(s) - 1
      /\ \A i \in 1 .. Len(Tail(s)) : Tail(s)[i] = s[i + 1]
  BY HeadTailProperties
<1>3. DOMAIN Tail(s) = 1 .. Len(s) - 1
  BY <1>2
<1>4. \A i \in DOMAIN Tail(s) : i + 1 \in DOMAIN s /\ Tail(s)[i] = s[i + 1]
  BY <1>1, <1>2, <1>3
<1>5. \A k \in DOMAIN s : k = 1 \/ k - 1 \in DOMAIN Tail(s)
  BY <1>1, <1>3
<1>6. \A k \in DOMAIN s : k = 1 \/ (k - 1 \in DOMAIN Tail(s) /\ s[k] = Tail(s)[k - 1])
  <2> SUFFICES ASSUME NEW k \in DOMAIN s, k # 1
               PROVE  k - 1 \in DOMAIN Tail(s) /\ s[k] = Tail(s)[k - 1]
    OBVIOUS
  <2>1. k - 1 \in DOMAIN Tail(s)
    BY <1>5
  <2>2. Tail(s)[k - 1] = s[(k - 1) + 1] /\ (k - 1) + 1 = k
    BY <2>1, <1>1, <1>4
  <2>. QED
    BY <2>1, <2>2
<1>7. Range(s) = {Head(s)} \cup Range(Tail(s))
  <2>1. Range(s) \subseteq {Head(s)} \cup Range(Tail(s))
    BY <1>1, <1>6 DEF Range
  <2>2. {Head(s)} \cup Range(Tail(s)) \subseteq Range(s)
    BY <1>1, <1>4 DEF Range
  <2>. QED
    BY <2>1, <2>2
<1>. QED
  BY <1>1, <1>2, <1>4, <1>7

LEMMA HeadAndTail ==
    ASSUME NEW S, NEW s \in Seq(S), s # <<>>
    PROVE  s = <<Head(s)>> \o Tail(s)
<1>. DEFINE one == <<Head(s)>>
            t == Tail(s)
<1>1. Len(s) \in Nat \ {0} /\ Head(s) \in S /\ Head(s) = s[1]
  BY EmptySeq
<1>2. t \in Seq(S) /\ Len(t) = Len(s) - 1
      /\ \A k \in 1 .. Len(t) : t[k] = s[k + 1]
  BY HeadTailProperties
<1>3. one \in Seq(S) /\ Len(one) = 1 /\ one[1] = s[1]
  BY <1>1
<1>. HIDE DEF one, t
<1>4. /\ one \o t \in Seq(S)
      /\ Len(one \o t) = Len(one) + Len(t)
      /\ \A k \in DOMAIN one : (one \o t)[k] = one[k]
      /\ \A k \in DOMAIN t : (one \o t)[Len(one) + k] = t[k]
  <2>1. one \in Seq(S) /\ t \in Seq(S)
    BY <1>2, <1>3
  <2>. QED
    BY <2>1
<1>5. \A k \in 1 .. Len(s) : s[k] = (one \o t)[k]
  <2> SUFFICES ASSUME NEW k \in 1 .. Len(s) PROVE s[k] = (one \o t)[k]
    OBVIOUS
  <2>1. CASE k = 1
    BY <2>1, <1>1, <1>3, <1>4
  <2>2. CASE k # 1
    <3>1. k - 1 \in DOMAIN t /\ k - 1 \in 1 .. Len(t) /\ (k - 1) + 1 = k
          /\ Len(one) + (k - 1) = k
      BY <2>2, <1>1, <1>2, <1>3
    <3>. QED
      BY <3>1, <1>2, <1>4
  <2>. QED
    BY <2>1, <2>2
<1>6. s = one \o t
  <2>1. Len(s) = Len(one \o t)
    BY <1>1, <1>2, <1>3, <1>4
  <2>. QED
    BY <2>1, <1>4, <1>5, SeqEqual
<1>. QED
  BY <1>6 DEF one, t

\* Three sequences in a row.
Joined(p, h, i) == (p \o h) \o i

\* A sequence with one more element.
Longer(s, e) == Append(s, e)

\* The worker takes the head of its input...
LEMMA TakeLine ==
    ASSUME NEW S, NEW p \in Seq(S), NEW i \in Seq(S), i # <<>>
    PROVE  Joined(p, <<>>, i) = Joined(p, <<Head(i)>>, Tail(i))
<1>. DEFINE one == <<Head(i)>>
            t == Tail(i)
<1>1. one \in Seq(S) /\ t \in Seq(S)
  BY HeadTailProperties
<1>2. i = one \o t
  BY HeadAndTail
<1>3. p \o <<>> = p
  BY ConcatEmptySeq
<1>4. (p \o one) \o t = p \o (one \o t)
  BY <1>1, ConcatAssociative
<1>. QED
  BY <1>2, <1>3, <1>4 DEF Joined

\* ... posts what it had in hand...
LEMMA SucceedLine ==
    ASSUME NEW S, NEW p \in Seq(S), NEW h \in Seq(S), NEW i \in Seq(S), Len(h) = 1
    PROVE  /\ Head(h) \in S
           /\ Joined(p, h, i) = Joined(Append(p, Head(h)), <<>>, i)
<1>1. h # <<>> /\ Head(h) \in S /\ h[1] = Head(h)
  <2>1. h # <<>>
    <3> SUFFICES ASSUME h = <<>> PROVE FALSE
      OBVIOUS
    <3>1. Len(<<>>) = 0
      BY EmptySeq
    <3>. QED
      BY <3>1
  <2>. QED
    BY <2>1, TailFacts
<1>2. h = <<Head(h)>>
  BY <1>1
<1>3. Append(p, Head(h)) = p \o <<Head(h)>>
  BY <1>1
<1>4. Append(p, Head(h)) \in Seq(S)
  BY <1>1
<1>5. Append(p, Head(h)) \o <<>> = Append(p, Head(h))
  BY <1>4, ConcatEmptySeq
<1>. QED
  BY <1>1, <1>2, <1>3, <1>5 DEF Joined

\* ... the transform appends to the line...
LEMMA TransformLine ==
    ASSUME NEW S, NEW p \in Seq(S), NEW h \in Seq(S), NEW i \in Seq(S), NEW e \in S
    PROVE  Joined(p, h, Longer(i, e)) = Longer(Joined(p, h, i), e)
<1>. DEFINE one == <<e>>
            ph == p \o h
<1>1. one \in Seq(S) /\ ph \in Seq(S) /\ ph \o i \in Seq(S)
  OBVIOUS
<1>2. Append(i, e) = i \o one /\ Append(ph \o i, e) = (ph \o i) \o one
  BY <1>1
<1>3. (ph \o i) \o one = ph \o (i \o one)
  BY <1>1, ConcatAssociative
<1>. QED
  BY <1>2, <1>3 DEF Joined, Longer

\* ... and the listener removes its head.
LEMMA ListenLine ==
    ASSUME NEW S, NEW p \in Seq(S), NEW h \in Seq(S), NEW i \in Seq(S), p # <<>>
    PROVE  /\ Joined(p, h, i) # <<>>
           /\ Head(Joined(p, h, i)) = Head(p)
           /\ Tail(Joined(p, h, i)) = Joined(Tail(p), h, i)
<1>. DEFINE rest == h \o i
            one == <<Head(p)>>
<1>1. /\ Head(p) \in S /\ Tail(p) \in Seq(S)
      /\ one \in Seq(S) /\ rest \in Seq(S)
  BY HeadTailProperties
<1>2. p = one \o Tail(p)
  BY HeadAndTail
<1>3. (p \o h) \o i = p \o rest
  BY ConcatAssociative
<1>4. (Tail(p) \o h) \o i = Tail(p) \o rest
  BY <1>1, ConcatAssociative
<1>5. p \o rest = one \o (Tail(p) \o rest)
  BY <1>1, <1>2, ConcatAssociative
<1>. DEFINE tail == Tail(p) \o rest
<1>6. tail \in Seq(S)
  BY <1>1
<1>. HIDE DEF rest
<1>7. one \o tail # <<>> /\ Head(one \o tail) = Head(p) /\ Tail(one \o tail) = tail
  <2> HIDE DEF tail
  <2>. QED
    BY <1>1, <1>6
<1>. QED
  BY <1>3, <1>4, <1>5, <1>7 DEF Joined
-----------------------------------------------------------------------------
(* Lines *)

LEMMA LineType ==
    ASSUME TypeOK, NEW j \in Jobs
    PROVE  /\ port[j] \in Seq(WorkItems) /\ hand[j] \in Seq(WorkItems)
           /\ input[j] \in Seq(WorkItems) /\ Line(j) \in Seq(WorkItems)
<1>1. /\ port[j] \in Seq(WorkItems) /\ hand[j] \in Seq(WorkItems)
      /\ input[j] \in Seq(WorkItems)
  BY DEF TypeOK
<1>. QED
  BY <1>1 DEF Line

\* Steps that keep the lines and the bookkeeping.
Quiet ==
    /\ \A j \in Jobs : Line(j)' = Line(j)
    /\ UNCHANGED <<issued, jobIds>>

LEMMA QuietKeeps ==
    ASSUME Tracked, Fresh, Quiet
    PROVE  Tracked' /\ Fresh'
<1>1. Tracked'
  BY DEF Tracked, Quiet
<1>2. Fresh'
  BY DEF Fresh, Quiet
<1>. QED
  BY <1>1, <1>2

LEMMA UnchangedLines ==
    ASSUME UNCHANGED <<issued, jobIds, input, hand, port>>
    PROVE  Quiet
  BY DEF Quiet, Line

\* A job without pending task has nothing in its line.
LEMMA NothingPending ==
    ASSUME TypeOK, Tracked, NEW j \in Jobs, jobIds[j] = {}
    PROVE  Line(j) = <<>> /\ port[j] = <<>> /\ hand[j] = <<>> /\ input[j] = <<>>
<1>1. Range(Line(j)) = {}
  BY DEF Tracked
<1>2. Line(j) \in Seq(WorkItems) /\ port[j] \in Seq(WorkItems)
      /\ hand[j] \in Seq(WorkItems) /\ input[j] \in Seq(WorkItems)
  BY LineType
<1>3. Line(j) = <<>>
  <2> SUFFICES ASSUME Line(j) # <<>> PROVE FALSE
    OBVIOUS
  <2>1. Head(Line(j)) \in Range(Line(j))
    BY <1>2, TailFacts
  <2>. QED
    BY <1>1, <2>1
<1>4. port[j] \o hand[j] \in Seq(WorkItems)
  BY <1>2
<1>5. port[j] \o hand[j] = <<>> /\ input[j] = <<>>
  BY <1>2, <1>3, <1>4, ConcatEqualIffEmpty DEF Line
<1>6. port[j] = <<>> /\ hand[j] = <<>>
  BY <1>2, <1>5, ConcatEqualIffEmpty
<1>. QED
  BY <1>3, <1>5, <1>6

\* The transform adds one item at the end of the line...
LEMMA TransformedLine ==
    ASSUME TypeOK, NEW j \in Jobs, NEW b \in Batches,
           Transform(j, b), UNCHANGED <<hand, port>>
    PROVE  LET new == [jobId |-> issued[j], batch |-> b]
           IN  /\ new \in WorkItems
               /\ input'[j] = Append(input[j], new)
               /\ \A k \in Jobs : k # j => input'[k] = input[k]
               /\ Range(Line(j)') = Range(Line(j)) \cup {new}
               /\ DOMAIN (Line(j)') = DOMAIN Line(j) \cup {Len(Line(j)) + 1}
               /\ \A i \in DOMAIN Line(j) : Line(j)'[i] = Line(j)[i]
               /\ Line(j)'[Len(Line(j)) + 1] = new
               /\ \A k \in Jobs : k # j => Line(k)' = Line(k)
<1>. DEFINE new == [jobId |-> issued[j], batch |-> b]
<1>1. new \in WorkItems
  BY DEF TypeOK, WorkItems
<1>2. /\ input' = [input EXCEPT ![j] = Append(input[j], new)]
      /\ port' = port /\ hand' = hand
  BY DEF Transform
<1>. HIDE DEF new
<1>3. \A k \in Jobs : /\ port[k] \in Seq(WorkItems) /\ hand[k] \in Seq(WorkItems)
                      /\ input[k] \in Seq(WorkItems)
                      /\ Line(k) \in Seq(WorkItems)
  BY LineType
<1>4. input'[j] = Append(input[j], new) /\ \A k \in Jobs : k # j => input'[k] = input[k]
  BY <1>2 DEF TypeOK
<1>5. Line(j)' = Append(Line(j), new)
  <2>1. Joined(port[j], hand[j], Longer(input[j], new))
        = Longer(Joined(port[j], hand[j], input[j]), new)
    <3>1. /\ port[j] \in Seq(WorkItems) /\ hand[j] \in Seq(WorkItems)
          /\ input[j] \in Seq(WorkItems) /\ new \in WorkItems
      BY <1>1, <1>3
    <3>. QED
      BY <3>1, TransformLine
  <2>2. Line(j)' = Joined(port[j], hand[j], Append(input[j], new))
    BY <1>2, <1>4 DEF Line, Joined
  <2>3. Line(j) = Joined(port[j], hand[j], input[j])
    BY DEF Line, Joined
  <2>. QED
    BY <2>1, <2>2, <2>3 DEF Longer
<1>6. \A k \in Jobs : k # j => Line(k)' = Line(k)
  BY <1>2, <1>4 DEF Line
<1>7. /\ Range(Line(j)') = Range(Line(j)) \cup {new}
      /\ DOMAIN (Line(j)') = DOMAIN Line(j) \cup {Len(Line(j)) + 1}
      /\ \A i \in DOMAIN Line(j) : Line(j)'[i] = Line(j)[i]
      /\ Line(j)'[Len(Line(j)) + 1] = new
  BY <1>1, <1>3, <1>5, AppendFacts
<1>. QED
  BY <1>1, <1>4, <1>6, <1>7 DEF new

\* ... with a new id.
LEMMA TransformKeeps ==
    ASSUME TypeOK, Tracked, Fresh, NEW j \in Jobs, NEW b \in Batches,
           Transform(j, b), UNCHANGED <<hand, port>>
    PROVE  /\ Tracked' /\ Fresh'
           /\ input' \in [Jobs -> Seq(WorkItems)]
           /\ issued' \in [Jobs -> Nat]
           /\ jobIds' \in [Jobs -> SUBSET Nat]
           /\ \A k \in Jobs : Range(Line(k)) \subseteq Range(Line(k)')
           /\ \E item \in Range(Line(j)') : item.batch = b
           /\ \A k \in Jobs : k # j => jobIds'[k] = jobIds[k]
<1>. DEFINE new == [jobId |-> issued[j], batch |-> b]
<1>1. /\ issued[j] \in Nat
      /\ new \in WorkItems
      /\ new.jobId = issued[j] /\ new.batch = b
  BY DEF TypeOK, WorkItems
<1>2. /\ issued' = [issued EXCEPT ![j] = issued[j] + 1]
      /\ input' = [input EXCEPT ![j] = Append(input[j], new)]
      /\ jobIds' = [jobIds EXCEPT ![j] = jobIds[j] \cup {issued[j]}]
      /\ port' = port /\ hand' = hand
  BY DEF Transform
<1>. HIDE DEF new
<1>3. \A k \in Jobs : /\ port[k] \in Seq(WorkItems) /\ hand[k] \in Seq(WorkItems)
                      /\ input[k] \in Seq(WorkItems)
                      /\ Line(k) \in Seq(WorkItems)
  BY LineType
<1>5. issued'[j] = issued[j] + 1 /\ \A k \in Jobs : k # j => issued'[k] = issued[k]
  BY <1>2 DEF TypeOK
<1>6. jobIds'[j] = jobIds[j] \cup {issued[j]}
      /\ \A k \in Jobs : k # j => jobIds'[k] = jobIds[k]
  BY <1>2 DEF TypeOK
<1>8. \A k \in Jobs : k # j => Line(k)' = Line(k)
  BY TransformedLine
<1>9. /\ Range(Line(j)') = Range(Line(j)) \cup {new}
      /\ DOMAIN (Line(j)') = DOMAIN Line(j) \cup {Len(Line(j)) + 1}
      /\ \A i \in DOMAIN Line(j) : Line(j)'[i] = Line(j)[i]
      /\ Line(j)'[Len(Line(j)) + 1] = new
  BY TransformedLine DEF new
<1>10. Tracked'
  <2> SUFFICES ASSUME NEW k \in Jobs
               PROVE  jobIds'[k] = {item.jobId : item \in Range(Line(k)')}
    BY DEF Tracked
  <2>1. CASE k = j
    <3>1. jobIds[j] = {item.jobId : item \in Range(Line(j))}
      BY DEF Tracked
    <3>. QED
      BY <2>1, <3>1, <1>1, <1>6, <1>9
  <2>2. CASE k # j
    BY <2>2, <1>6, <1>8 DEF Tracked
  <2>. QED
    BY <2>1, <2>2
<1>11. Fresh'
  <2> SUFFICES ASSUME NEW k \in Jobs
               PROVE  /\ \A i \in DOMAIN (Line(k)') : Line(k)'[i].jobId < issued'[k]
                      /\ \A i, l \in DOMAIN (Line(k)') :
                            Line(k)'[i].jobId = Line(k)'[l].jobId => i = l
    BY DEF Fresh
  <2>1. CASE k = j
    <3>1. /\ \A i \in DOMAIN Line(j) : Line(j)[i].jobId < issued[j]
          /\ \A i, l \in DOMAIN Line(j) :
                Line(j)[i].jobId = Line(j)[l].jobId => i = l
      BY DEF Fresh
    <3>2. \A i \in DOMAIN Line(j) : Line(j)[i].jobId \in Nat
      <4>1. \A i \in DOMAIN Line(j) : Line(j)[i] \in WorkItems
        BY <1>3
      <4>. QED
        BY <4>1 DEF WorkItems
    <3>3. \A i \in DOMAIN (Line(j)') : Line(j)'[i].jobId < issued[j] + 1
      BY <3>1, <3>2, <1>1, <1>9
    <3>4. \A i \in DOMAIN Line(j) : Line(j)'[i].jobId # issued[j]
      BY <3>1, <3>2, <1>1, <1>9
    <3>5. ASSUME NEW i \in DOMAIN (Line(j)'), NEW l \in DOMAIN (Line(j)'),
                 Line(j)'[i].jobId = Line(j)'[l].jobId
          PROVE  i = l
      <4>1. Line(j)'[Len(Line(j)) + 1].jobId = issued[j]
        BY <1>1, <1>9
      <4>2. CASE i \in DOMAIN Line(j) /\ l \in DOMAIN Line(j)
        BY <4>2, <3>1, <3>5, <1>9
      <4>3. CASE i \in DOMAIN Line(j) /\ l = Len(Line(j)) + 1
        BY <4>1, <4>3, <3>4, <3>5
      <4>4. CASE i = Len(Line(j)) + 1 /\ l \in DOMAIN Line(j)
        BY <4>1, <4>4, <3>4, <3>5
      <4>. QED
        BY <4>2, <4>3, <4>4, <1>9
    <3>. QED
      BY <2>1, <3>3, <3>5, <1>5
  <2>2. CASE k # j
    BY <2>2, <1>5, <1>8 DEF Fresh
  <2>. QED
    BY <2>1, <2>2
<1>12. /\ input' \in [Jobs -> Seq(WorkItems)]
       /\ issued' \in [Jobs -> Nat]
       /\ jobIds' \in [Jobs -> SUBSET Nat]
  <2>1. Append(input[j], new) \in Seq(WorkItems)
    BY <1>1, <1>3
  <2>2. issued[j] + 1 \in Nat /\ jobIds[j] \cup {issued[j]} \in SUBSET Nat
    BY <1>1 DEF TypeOK
  <2>. QED
    BY <2>1, <2>2, <1>2 DEF TypeOK
<1>13. \A k \in Jobs : Range(Line(k)) \subseteq Range(Line(k)')
  BY <1>8, <1>9
<1>14. \E item \in Range(Line(j)') : item.batch = b
  BY <1>1, <1>9
<1>. QED
  BY <1>6, <1>10, <1>11, <1>12, <1>13, <1>14

\* The listener takes the oldest item off the line...
LEMMA ListenedLine ==
    ASSUME TypeOK, NEW j \in Jobs, OnFinished(j)
    PROVE  /\ Head(port[j]) \in WorkItems
           /\ \A i \in DOMAIN (Line(j)') :
                    i + 1 \in DOMAIN Line(j) /\ Line(j)'[i] = Line(j)[i + 1]
           /\ Range(Line(j)) = {Head(port[j])} \cup Range(Line(j)')
           /\ 1 \in DOMAIN Line(j) /\ Line(j)[1] = Head(port[j])
           /\ Line(j)' \in Seq(WorkItems)
           /\ \A k \in Jobs : k # j => Line(k)' = Line(k)
<1>. DEFINE first == Head(port[j])
<1>1. /\ port[j] # <<>>
      /\ port' = [port EXCEPT ![j] = Tail(port[j])]
      /\ hand' = hand /\ input' = input
  BY DEF OnFinished
<1>2. \A k \in Jobs : /\ port[k] \in Seq(WorkItems) /\ hand[k] \in Seq(WorkItems)
                      /\ input[k] \in Seq(WorkItems)
                      /\ Line(k) \in Seq(WorkItems)
  BY LineType
<1>3. first \in WorkItems
  BY <1>1, <1>2, TailFacts
<1>4. port'[j] = Tail(port[j]) /\ \A k \in Jobs : k # j => port'[k] = port[k]
  BY <1>1 DEF TypeOK
<1>6. Line(j) # <<>> /\ Head(Line(j)) = first /\ Tail(Line(j)) = Line(j)'
  <2>1. /\ Joined(port[j], hand[j], input[j]) # <<>>
        /\ Head(Joined(port[j], hand[j], input[j])) = first
        /\ Tail(Joined(port[j], hand[j], input[j]))
            = Joined(Tail(port[j]), hand[j], input[j])
    <3>1. /\ port[j] \in Seq(WorkItems) /\ hand[j] \in Seq(WorkItems)
          /\ input[j] \in Seq(WorkItems) /\ port[j] # <<>>
      BY <1>1, <1>2
    <3>. QED
      BY <3>1, ListenLine
  <2>2. Line(j)' = Joined(Tail(port[j]), hand[j], input[j])
    BY <1>1, <1>4 DEF Line, Joined
  <2>3. Line(j) = Joined(port[j], hand[j], input[j])
    BY DEF Line, Joined
  <2>. QED
    BY <2>1, <2>2, <2>3
<1>7. /\ \A i \in DOMAIN (Line(j)') :
            i + 1 \in DOMAIN Line(j) /\ Line(j)'[i] = Line(j)[i + 1]
      /\ Range(Line(j)) = {first} \cup Range(Line(j)')
      /\ 1 \in DOMAIN Line(j) /\ Line(j)[1] = first
      /\ Line(j)' \in Seq(WorkItems)
  <2>1. /\ Line(j) \in Seq(WorkItems)
        /\ Line(j) # <<>>
    BY <1>2, <1>6
  <2>. DEFINE line == Line(j)
  <2>. HIDE DEF line, first
  <2>2. /\ Head(line) \in WorkItems /\ Tail(line) \in Seq(WorkItems)
        /\ 1 \in DOMAIN line /\ Head(line) = line[1]
        /\ \A i \in DOMAIN Tail(line) :
              i + 1 \in DOMAIN line /\ Tail(line)[i] = line[i + 1]
        /\ Range(line) = {Head(line)} \cup Range(Tail(line))
    BY <2>1, TailFacts DEF line
  <2>. QED
    BY <1>6, <2>2 DEF line
<1>8. \A k \in Jobs : k # j => Line(k)' = Line(k)
  BY <1>1, <1>4 DEF Line
<1>. QED
  BY <1>3, <1>7, <1>8

\* ... and its id.
LEMMA ListenKeeps ==
    ASSUME TypeOK, Tracked, Fresh, NEW j \in Jobs, OnFinished(j)
    PROVE  /\ Tracked' /\ Fresh'
           /\ port' \in [Jobs -> Seq(WorkItems)]
           /\ jobIds' \in [Jobs -> SUBSET Nat]
           /\ Head(port[j]) \in WorkItems
           /\ Range(port[j]) = {Head(port[j])} \cup Range(port'[j])
           /\ jobIds[j] # {}
           /\ Range(Line(j)) = {Head(port[j])} \cup Range(Line(j)')
           /\ \A k \in Jobs : k # j => Line(k)' = Line(k)
           /\ \A k \in Jobs : k # j => port'[k] = port[k]
           /\ \A k \in Jobs : jobIds'[k] \subseteq jobIds[k]
<1>. DEFINE first == Head(port[j])
<1>1. /\ port[j] # <<>>
      /\ port' = [port EXCEPT ![j] = Tail(port[j])]
      /\ jobIds' = [jobIds EXCEPT ![j] = jobIds[j] \ {first.jobId}]
      /\ hand' = hand /\ input' = input /\ issued' = issued
  BY DEF OnFinished
<1>2. \A k \in Jobs : /\ port[k] \in Seq(WorkItems) /\ hand[k] \in Seq(WorkItems)
                      /\ input[k] \in Seq(WorkItems)
                      /\ Line(k) \in Seq(WorkItems)
  BY LineType
<1>3. /\ first \in WorkItems /\ Tail(port[j]) \in Seq(WorkItems)
      /\ Range(port[j]) = {first} \cup Range(Tail(port[j]))
  BY <1>1, <1>2, TailFacts
<1>4. port'[j] = Tail(port[j]) /\ \A k \in Jobs : k # j => port'[k] = port[k]
  BY <1>1 DEF TypeOK
<1>5. jobIds'[j] = jobIds[j] \ {first.jobId}
      /\ \A k \in Jobs : k # j => jobIds'[k] = jobIds[k]
  BY <1>1 DEF TypeOK
<1>7. /\ \A i \in DOMAIN (Line(j)') :
            i + 1 \in DOMAIN Line(j) /\ Line(j)'[i] = Line(j)[i + 1]
      /\ Range(Line(j)) = {first} \cup Range(Line(j)')
      /\ 1 \in DOMAIN Line(j) /\ Line(j)[1] = first
      /\ Line(j)' \in Seq(WorkItems)
  BY ListenedLine
<1>8. \A k \in Jobs : k # j => Line(k)' = Line(k)
  BY ListenedLine
<1>9. \A i \in DOMAIN (Line(j)') : i \in Nat /\ i # 0
  BY <1>7
<1>10. \A i \in DOMAIN (Line(j)') : Line(j)'[i].jobId # first.jobId
  <2> SUFFICES ASSUME NEW i \in DOMAIN (Line(j)') PROVE Line(j)'[i].jobId # first.jobId
    OBVIOUS
  <2>1. i + 1 # 1
    BY <1>9
  <2>2. Line(j)[i + 1].jobId # Line(j)[1].jobId
    BY <2>1, <1>7 DEF Fresh
  <2>. QED
    BY <2>2, <1>7
<1>11. Tracked'
  <2> SUFFICES ASSUME NEW k \in Jobs
               PROVE  jobIds'[k] = {item.jobId : item \in Range(Line(k)')}
    BY DEF Tracked
  <2>1. CASE k = j
    <3>1. jobIds[j] = {item.jobId : item \in Range(Line(j))}
      BY DEF Tracked
    <3>2. \A item \in Range(Line(j)') : item.jobId # first.jobId
      BY <1>10 DEF Range
    <3>3. jobIds[j] = {first.jobId} \cup {item.jobId : item \in Range(Line(j)')}
      BY <3>1, <1>7
    <3>. QED
      BY <2>1, <3>2, <3>3, <1>5
  <2>2. CASE k # j
    BY <2>2, <1>5, <1>8 DEF Tracked
  <2>. QED
    BY <2>1, <2>2
<1>12. Fresh'
  <2> SUFFICES ASSUME NEW k \in Jobs
               PROVE  /\ \A i \in DOMAIN (Line(k)') : Line(k)'[i].jobId < issued'[k]
                      /\ \A i, l \in DOMAIN (Line(k)') :
                            Line(k)'[i].jobId = Line(k)'[l].jobId => i = l
    BY DEF Fresh
  <2>1. CASE k = j
    <3>1. \A i \in DOMAIN (Line(j)') : Line(j)'[i].jobId < issued[j]
      BY <1>7 DEF Fresh
    <3>2. ASSUME NEW i \in DOMAIN (Line(j)'), NEW l \in DOMAIN (Line(j)'),
                 Line(j)'[i].jobId = Line(j)'[l].jobId
          PROVE  i = l
      <4>1. i + 1 = l + 1
        BY <3>2, <1>7 DEF Fresh
      <4>. QED
        BY <4>1, <1>9
    <3>. QED
      BY <2>1, <3>1, <3>2, <1>1
  <2>2. CASE k # j
    BY <2>2, <1>1, <1>8 DEF Fresh
  <2>. QED
    BY <2>1, <2>2
<1>13. port' \in [Jobs -> Seq(WorkItems)] /\ jobIds' \in [Jobs -> SUBSET Nat]
  BY <1>1, <1>3 DEF TypeOK
<1>14. jobIds[j] # {}
  <2>1. jobIds[j] = {item.jobId : item \in Range(Line(j))}
    BY DEF Tracked
  <2>2. first \in Range(Line(j))
    BY <1>7
  <2>3. first.jobId \in jobIds[j]
    BY <2>1, <2>2
  <2>. QED
    BY <2>3
<1>15. \A k \in Jobs : jobIds'[k] \subseteq jobIds[k]
  BY <1>5
<1>. QED
  BY <1>3, <1>4, <1>7, <1>8, <1>11, <1>12, <1>13, <1>14, <1>15
-----------------------------------------------------------------------------
(* What is kept *)

LEMMA QuietSomewhere ==
    ASSUME Quiet, UNCHANGED <<out, gathered>>, Stored \subseteq Stored'
    PROVE  \A m : Somewhere(m) => Somewhere(m)'
  BY DEF Quiet, Somewhere

\* Steps of the main thread that only open or close something.
LEMMA ControlKeeps ==
    ASSUME IInv,
           UNCHANGED <<issued, jobIds, input, hand, port, out, gathered, rows>>,
           pulled' = pulled,
           main # "terminated" \/ main' = "terminated"
    PROVE  Tracked' /\ Fresh' /\ Kept' /\ Reported'
<1>1. Quiet
  BY UnchangedLines
<1>2. Tracked' /\ Fresh'
  BY <1>1, QuietKeeps DEF IInv
<1>3. Kept'
  <2>1. \A m : Somewhere(m) => Somewhere(m)'
    BY <1>1, QuietSomewhere DEF Stored
  <2>. QED
    BY <2>1 DEF Kept, IInv
<1>4. Reported'
  BY DEF Reported, Stored, IInv
<1>. QED
  BY <1>2, <1>3, <1>4

LEMMA QueueKeeps ==
    ASSUME IInv, Queue
    PROVE  IInv'
<1>1. Tracked' /\ Fresh' /\ Kept' /\ Reported'
  BY ControlKeeps DEF Queue, results
<1>2. TypeOK'
  BY DEF Queue, results, TypeOK, IInv
<1>3. HandOK'
  BY DEF Queue, HandOK, IInv
<1>4. ClosedInOrder'
  BY DEF Queue, results, ClosedInOrder, GathererDone, IInv
<1>. QED
  BY <1>1, <1>2, <1>3, <1>4 DEF IInv

LEMMA CloseInputKeeps ==
    ASSUME IInv, NEW w \in Workers, CloseInput(w)
    PROVE  IInv'
<1>1. Tracked' /\ Fresh' /\ Kept' /\ Reported'
  BY ControlKeeps DEF CloseInput, results, threads
<1>2. TypeOK'
  BY DEF CloseInput, results, threads, TypeOK, IInv
<1>3. HandOK'
  BY DEF CloseInput, threads, HandOK, IInv
<1>4. ClosedInOrder'
  <2>1. w # Inserter /\ w \in Jobs
    BY ConstantsAssumption DEF Workers, Inserter, Jobs
  <2>2. inputClosed'[Inserter] = inputClosed[Inserter]
        /\ \A v \in Workers : v # w => inputClosed'[v] = inputClosed[v]
    BY <2>1 DEF CloseInput, TypeOK, IInv, Jobs
  <2>3. inputClosed'[w] = TRUE /\ pulled.processed = N
    BY <2>1 DEF CloseInput, TypeOK, IInv
  <2>. QED
    BY <2>2, <2>3
       DEF CloseInput, results, threads, ClosedInOrder, GathererDone, IInv
<1>. QED
  BY <1>1, <1>2, <1>3, <1>4 DEF IInv

LEMMA CloseOutputKeeps ==
    ASSUME IInv, NEW w \in Workers, CloseOutput(w)
    PROVE  IInv'
<1>1. Tracked' /\ Fresh' /\ Kept' /\ Reported'
  BY ControlKeeps DEF CloseOutput, threads
<1>2. TypeOK'
  BY DEF CloseOutput, threads, TypeOK, IInv
<1>3. HandOK'
  BY DEF CloseOutput, threads, HandOK, IInv
<1>4. ClosedInOrder'
  <2>1. outClosed'[w] = TRUE /\ \A v \in Workers : v # w => outClosed'[v] = outClosed[v]
    BY DEF CloseOutput, TypeOK, IInv
  <2>2. GathererDone => GathererDone'
    BY <2>1 DEF GathererDone, CloseOutput
  <2>. QED
    BY <2>1, <2>2 DEF CloseOutput, NoPendingTask, threads, ClosedInOrder, IInv
<1>. QED
  BY <1>1, <1>2, <1>3, <1>4 DEF IInv

LEMMA CloseInsertInputKeeps ==
    ASSUME IInv, CloseInsertInput
    PROVE  IInv'
<1>1. Tracked' /\ Fresh' /\ Kept' /\ Reported'
  BY ControlKeeps DEF CloseInsertInput, results, threads
<1>2. TypeOK'
  BY DEF CloseInsertInput, results, threads, TypeOK, IInv, Jobs
<1>3. HandOK'
  BY DEF CloseInsertInput, threads, HandOK, IInv
<1>4. ClosedInOrder'
  <2>1. \A v \in Workers : v # Inserter /\ v \in Jobs
    BY ConstantsAssumption DEF Workers, Inserter, Jobs
  <2>2. \A v \in Workers : inputClosed'[v] = inputClosed[v]
    BY <2>1 DEF CloseInsertInput, TypeOK, IInv
  <2>3. GathererDone' /\ gathered' = <<>>
    BY DEF GathererDone, CloseInsertInput, results
  <2>. QED
    BY <2>2, <2>3 DEF CloseInsertInput, results, threads, ClosedInOrder, IInv
<1>. QED
  BY <1>1, <1>2, <1>3, <1>4 DEF IInv

LEMMA ReturnKeeps ==
    ASSUME IInv, Return
    PROVE  IInv'
<1>1. Tracked' /\ Fresh' /\ Kept' /\ Reported'
  BY ControlKeeps DEF Return, results, threads
<1>2. TypeOK'
  BY DEF Return, results, threads, TypeOK, IInv
<1>3. HandOK'
  BY DEF Return, threads, HandOK, IInv
<1>4. ClosedInOrder'
  BY DEF Return, NoPendingTask, results, threads, ClosedInOrder, GathererDone, IInv
<1>. QED
  BY <1>1, <1>2, <1>3, <1>4 DEF IInv

LEMMA OnErrorKeeps ==
    ASSUME IInv, NEW j \in Jobs, OnError(j)
    PROVE  IInv'
<1>1. Tracked' /\ Fresh' /\ Kept' /\ Reported'
  BY ControlKeeps DEF OnError, Up, results, threads
<1>2. TypeOK'
  BY DEF OnError, results, threads, TypeOK, IInv
<1>3. HandOK'
  BY DEF OnError, threads, HandOK, IInv
<1>4. ClosedInOrder'
  BY DEF OnError, Up, results, threads, ClosedInOrder, GathererDone, IInv
<1>. QED
  BY <1>1, <1>2, <1>3, <1>4 DEF IInv

LEMMA CleanupKeeps ==
    ASSUME IInv, Cleanup
    PROVE  IInv'
<1>1. Quiet
  BY UnchangedLines DEF Cleanup
<1>2. Tracked' /\ Fresh'
  BY <1>1, QuietKeeps DEF IInv
<1>3. Kept' /\ Reported'
  BY DEF Cleanup, Kept, Reported, Stored, IInv
<1>4. TypeOK'
  <2>1. N \in Nat
    BY ConstantsAssumption
  <2>2. pulled' \in [processed: 0 .. N, inserted: Nat]
    BY <2>1 DEF Cleanup
  <2>3. pc' \in [Jobs -> {"new", "init", "wait", "exec", "giveUp", "teardown",
                          "gone", "failed", "killed"}]
    BY DEF Cleanup
  <2>. QED
    BY <2>2, <2>3 DEF Cleanup, results, TypeOK, IInv
<1>5. HandOK'
  BY DEF Cleanup, HandOK, IInv
<1>6. ClosedInOrder'
  BY DEF Cleanup, results, ClosedInOrder, GathererDone, IInv
<1>. QED
  BY <1>2, <1>3, <1>4, <1>5, <1>6 DEF IInv
-----------------------------------------------------------------------------
(* The worker threads' steps *)

LEMMA PcKeeps ==
    ASSUME IInv, NEW j \in Jobs,
           RunInit(j) \/ EndOfInput(j) \/ Teardown(j)
    PROVE  IInv'
<1>0. UNCHANGED <<mainThread, input, hand, attempt, port, rows>>
  BY DEF RunInit, EndOfInput, Teardown
<1>1. Tracked' /\ Fresh' /\ Kept' /\ Reported'
  BY <1>0, ControlKeeps DEF mainThread, results
<1>2. pc' \in [Jobs -> {"new", "init", "wait", "exec", "giveUp", "teardown",
                        "gone", "failed", "killed"}]
  BY DEF RunInit, EndOfInput, Teardown, TypeOK, IInv
<1>3. TypeOK'
  BY <1>0, <1>2 DEF mainThread, results, TypeOK, IInv
<1>4. HandOK'
  <2>1. \A k \in Jobs : pc'[k] = "exec" => pc[k] = "exec"
    BY DEF RunInit, EndOfInput, Teardown, TypeOK, IInv
  <2>2. \A k \in Jobs : pc'[k] \in {"new", "init", "wait"} =>
                            pc[k] \in {"new", "init", "wait"}
    BY DEF RunInit, EndOfInput, Teardown, TypeOK, IInv
  <2>. QED
    BY <1>0, <2>1, <2>2 DEF HandOK, mainThread, results, IInv
<1>5. ClosedInOrder'
  BY <1>0 DEF mainThread, results, ClosedInOrder, GathererDone, IInv
<1>. QED
  BY <1>1, <1>3, <1>4, <1>5 DEF IInv

\* The worker's own steps do not change its line.
LEMMA TakesOwn ==
    ASSUME IInv, NEW j \in Jobs, Take(j)
    PROVE  \A k \in Jobs : Line(k)' = Line(k)
<1>. DEFINE first == Head(input[j])
            rest == Tail(input[j])
<1>1. /\ pc[j] = "wait" /\ input[j] # <<>>
      /\ hand' = [hand EXCEPT ![j] = <<first>>]
      /\ input' = [input EXCEPT ![j] = rest]
      /\ port' = port
  BY DEF Take
<1>2. /\ input[j] \in Seq(WorkItems) /\ port[j] \in Seq(WorkItems)
  BY LineType DEF IInv
<1>3. hand[j] = <<>>
  BY <1>1 DEF HandOK, IInv
<1>4. Line(j)' = Line(j)
  <2>1. Line(j) = Joined(port[j], <<>>, input[j])
    BY <1>3 DEF Line, Joined
  <2>2. port'[j] = port[j] /\ hand'[j] = <<first>> /\ input'[j] = rest
    BY <1>1 DEF TypeOK, IInv
  <2>3. Line(j)' = Joined(port[j], <<first>>, rest)
    BY <2>2 DEF Line, Joined
  <2>4. Joined(port[j], <<>>, input[j]) = Joined(port[j], <<first>>, rest)
    BY <1>1, <1>2, TakeLine
  <2>. QED
    BY <2>1, <2>3, <2>4
<1>5. \A k \in Jobs : k # j => Line(k)' = Line(k)
  BY <1>1 DEF Line, TypeOK, IInv
<1>. QED
  BY <1>4, <1>5

LEMMA SucceedsOwn ==
    ASSUME IInv, NEW j \in Jobs, Succeed(j)
    PROVE  /\ Head(hand[j]) \in WorkItems
           /\ \A k \in Jobs : Line(k)' = Line(k)
<1>. DEFINE done == Head(hand[j])
<1>1. /\ pc[j] = "exec"
      /\ port' = [port EXCEPT ![j] = Append(port[j], done)]
      /\ hand' = [hand EXCEPT ![j] = <<>>]
      /\ input' = input
  BY DEF Succeed
<1>2. /\ input[j] \in Seq(WorkItems) /\ port[j] \in Seq(WorkItems)
      /\ hand[j] \in Seq(WorkItems) /\ Len(hand[j]) = 1
  BY <1>1, LineType DEF IInv, HandOK
<1>3. /\ done \in WorkItems
      /\ Joined(port[j], hand[j], input[j])
            = Joined(Append(port[j], done), <<>>, input[j])
  BY <1>2, SucceedLine
<1>4. port'[j] = Append(port[j], done) /\ hand'[j] = <<>> /\ input'[j] = input[j]
  BY <1>1 DEF TypeOK, IInv
<1>5. Line(j)' = Line(j)
  BY <1>3, <1>4 DEF Line, Joined
<1>6. \A k \in Jobs : k # j => Line(k)' = Line(k)
  BY <1>1 DEF Line, TypeOK, IInv
<1>. QED
  BY <1>3, <1>5, <1>6

LEMMA TakeKeeps ==
    ASSUME IInv, NEW j \in Jobs, Take(j)
    PROVE  IInv'
<1>. DEFINE first == Head(input[j])
            rest == Tail(input[j])
<1>1. /\ pc[j] = "wait" /\ input[j] # <<>>
      /\ hand' = [hand EXCEPT ![j] = <<first>>]
      /\ input' = [input EXCEPT ![j] = rest]
      /\ attempt' = [attempt EXCEPT ![j] = 0]
      /\ pc' = [pc EXCEPT ![j] = "exec"]
      /\ UNCHANGED <<mainThread, port, rows>>
  BY DEF Take
<1>2. /\ input[j] \in Seq(WorkItems) /\ port[j] \in Seq(WorkItems)
  BY LineType DEF IInv
<1>3. /\ first \in WorkItems /\ rest \in Seq(WorkItems)
  BY <1>1, <1>2, TailFacts
<1>4. <<first>> \in Seq(WorkItems) /\ Len(<<first>>) = 1
  BY <1>3
<1>7. Quiet
  BY <1>1, TakesOwn DEF Quiet, mainThread, results
<1>8. Tracked' /\ Fresh'
  BY <1>7, QuietKeeps DEF IInv
<1>9. Kept'
  <2>1. \A m : Somewhere(m) => Somewhere(m)'
    BY <1>1, <1>7, QuietSomewhere DEF Stored, mainThread, results
  <2>. QED
    BY <1>1, <2>1 DEF Kept, IInv, mainThread, results
<1>10. Reported'
  BY <1>1 DEF Reported, Stored, IInv
<1>11. TypeOK'
  <2>1. attempt' \in [Jobs -> 0 .. MaxRetries + 1]
    BY <1>1, ConstantsAssumption DEF TypeOK, IInv
  <2>2. hand' \in [Jobs -> Seq(WorkItems)] /\ input' \in [Jobs -> Seq(WorkItems)]
    <3> HIDE DEF first, rest
    <3>. QED
      BY <1>1, <1>3, <1>4 DEF TypeOK, IInv
  <2>3. pc' \in [Jobs -> {"new", "init", "wait", "exec", "giveUp", "teardown",
                          "gone", "failed", "killed"}]
    BY <1>1 DEF TypeOK, IInv
  <2>. QED
    BY <1>1, <2>1, <2>2, <2>3 DEF TypeOK, IInv, mainThread, results
<1>12. HandOK'
  <2>1. main # "idle"
    BY DEF Take, Up
  <2>2. hand'[j] = <<first>> /\ pc'[j] = "exec" /\ attempt'[j] <= MaxRetries
    BY <1>1, ConstantsAssumption DEF TypeOK, IInv
  <2>3. \A k \in Jobs : k # j => /\ hand'[k] = hand[k] /\ pc'[k] = pc[k]
                                 /\ attempt'[k] = attempt[k]
    BY <1>1 DEF TypeOK, IInv
  <2>. QED
    BY <1>1, <1>4, <2>1, <2>2, <2>3 DEF HandOK, IInv, mainThread, results
<1>13. ClosedInOrder'
  BY <1>1 DEF mainThread, results, ClosedInOrder, GathererDone, IInv
<1>. QED
  BY <1>8, <1>9, <1>10, <1>11, <1>12, <1>13 DEF IInv

\* The database only gains rows.
LEMMA WrittenFacts ==
    ASSUME TypeOK, NEW j \in Jobs
    PROVE  /\ Written(j) \in [Msgs -> Nat]
           /\ \A m \in Msgs : rows[m] > 0 => Written(j)[m] > 0
           /\ j = Inserter =>
                \A m \in Msgs : m \in Head(hand[j]).batch => Written(j)[m] > 0
  BY DEF Written, TypeOK

LEMMA SucceedKeeps ==
    ASSUME IInv, NEW j \in Jobs, Succeed(j)
    PROVE  IInv'
<1>. DEFINE done == Head(hand[j])
<1>1. /\ pc[j] = "exec"
      /\ rows' = Written(j)
      /\ port' = [port EXCEPT ![j] = Append(port[j], done)]
      /\ hand' = [hand EXCEPT ![j] = <<>>]
      /\ pc' = [pc EXCEPT ![j] = "wait"]
      /\ UNCHANGED <<mainThread, input, attempt>>
  BY DEF Succeed
<1>2. /\ input[j] \in Seq(WorkItems) /\ port[j] \in Seq(WorkItems)
      /\ hand[j] \in Seq(WorkItems) /\ Len(hand[j]) = 1
  BY <1>1, LineType DEF IInv, HandOK
<1>3. done \in WorkItems
  BY SucceedsOwn
<1>4. port'[j] = Append(port[j], done) /\ hand'[j] = <<>> /\ input'[j] = input[j]
  BY <1>1 DEF TypeOK, IInv
<1>6. Quiet
  BY <1>1, SucceedsOwn DEF Quiet, mainThread, results
<1>7. Tracked' /\ Fresh'
  BY <1>6, QuietKeeps DEF IInv
<1>8. /\ rows' \in [Msgs -> Nat]
      /\ Stored \subseteq Stored'
      /\ j = Inserter => \A m \in Msgs : m \in done.batch => m \in Stored'
  BY <1>1, WrittenFacts DEF Stored, IInv
<1>9. Kept'
  <2>1. \A m : Somewhere(m) => Somewhere(m)'
    BY <1>1, <1>6, <1>8, QuietSomewhere DEF mainThread, results
  <2>. QED
    BY <1>1, <2>1 DEF Kept, IInv, mainThread, results
<1>10. Reported'
  <2>1. done.batch \subseteq Msgs
    BY <1>3 DEF WorkItems, Batches
  <2>2. CASE j = Inserter
    <3>1. Range(port'[Inserter]) = Range(port[Inserter]) \cup {done}
      <4>1. Range(Append(port[j], done)) = Range(port[j]) \cup {done}
        BY <1>2, <1>3, AppendFacts
      <4>. QED
        BY <1>4, <2>2, <4>1
    <3>. QED
      BY <1>8, <2>1, <2>2, <3>1 DEF Reported, IInv
  <2>3. CASE j # Inserter
    <3>1. port'[Inserter] = port[Inserter]
      BY <1>1, <2>3 DEF TypeOK, IInv, Jobs
    <3>. QED
      BY <1>8, <3>1 DEF Reported, IInv
  <2>. QED
    BY <2>2, <2>3
<1>11. TypeOK'
  <2>1. port' \in [Jobs -> Seq(WorkItems)]
    <3>1. Append(port[j], done) \in Seq(WorkItems)
      BY <1>2, <1>3, AppendFacts
    <3>. QED
      BY <1>1, <3>1 DEF TypeOK, IInv
  <2>2. hand' \in [Jobs -> Seq(WorkItems)]
    <3>1. <<>> \in Seq(WorkItems)
      BY EmptySeq
    <3>. QED
      BY <1>1, <3>1 DEF TypeOK, IInv
  <2>3. pc' \in [Jobs -> {"new", "init", "wait", "exec", "giveUp", "teardown",
                          "gone", "failed", "killed"}]
    BY <1>1 DEF TypeOK, IInv
  <2>. QED
    BY <1>1, <1>8, <2>1, <2>2, <2>3 DEF TypeOK, IInv, mainThread, results
<1>12. HandOK'
  <2>1. hand'[j] = <<>> /\ pc'[j] = "wait"
    BY <1>1 DEF TypeOK, IInv
  <2>2. \A k \in Jobs : k # j => hand'[k] = hand[k] /\ pc'[k] = pc[k]
    BY <1>1 DEF TypeOK, IInv
  <2>. QED
    BY <1>1, <2>1, <2>2 DEF HandOK, IInv, mainThread, results
<1>13. ClosedInOrder'
  BY <1>1 DEF mainThread, results, ClosedInOrder, GathererDone, IInv
<1>. QED
  BY <1>7, <1>9, <1>10, <1>11, <1>12, <1>13 DEF IInv

LEMMA FailKeeps ==
    ASSUME IInv, NEW j \in Jobs, Fail(j)
    PROVE  IInv'
<1>1. /\ pc[j] = "exec"
      /\ attempt' = [attempt EXCEPT ![j] = attempt[j] + 1]
      /\ rows' \in {rows, Written(j)}
      /\ UNCHANGED <<mainThread, input, hand, port>>
  BY DEF Fail
<1>2. Quiet
  BY <1>1, UnchangedLines DEF mainThread, results
<1>3. Tracked' /\ Fresh'
  BY <1>2, QuietKeeps DEF IInv
<1>4. rows' \in [Msgs -> Nat] /\ Stored \subseteq Stored'
  <2>1. rows \in [Msgs -> Nat]
    BY DEF TypeOK, IInv
  <2>. QED
    BY <1>1, <2>1, WrittenFacts DEF Stored, IInv
<1>5. Kept'
  <2>1. \A m : Somewhere(m) => Somewhere(m)'
    BY <1>1, <1>2, <1>4, QuietSomewhere DEF mainThread, results
  <2>. QED
    BY <1>1, <2>1 DEF Kept, IInv, mainThread, results
<1>6. Reported'
  BY <1>1, <1>4 DEF Reported, IInv
<1>7. TypeOK'
  <2>1. attempt[j] + 1 \in 0 .. MaxRetries + 1
    BY <1>1, ConstantsAssumption DEF TypeOK, HandOK, IInv
  <2>2. attempt' \in [Jobs -> 0 .. MaxRetries + 1]
    BY <1>1, <2>1 DEF TypeOK, IInv
  <2>3. pc' \in [Jobs -> {"new", "init", "wait", "exec", "giveUp", "teardown",
                          "gone", "failed", "killed"}]
    BY DEF Fail, TypeOK, IInv
  <2>. QED
    BY <1>1, <1>4, <2>2, <2>3 DEF TypeOK, IInv, mainThread, results
<1>8. HandOK'
  <2>1. pc'[j] \in {"exec", "giveUp"}
    BY <1>1 DEF Fail, TypeOK, IInv
  <2>2. \A k \in Jobs : k # j => pc'[k] = pc[k] /\ attempt'[k] = attempt[k]
    BY <1>1 DEF Fail, TypeOK, IInv
  <2>3. pc'[j] = "exec" => attempt'[j] <= MaxRetries
    BY <1>1, ConstantsAssumption DEF Fail, GivesUp, TypeOK, IInv
  <2>. QED
    BY <1>1, <2>1, <2>2, <2>3 DEF HandOK, IInv, mainThread, results
<1>9. ClosedInOrder'
  BY <1>1 DEF mainThread, results, ClosedInOrder, GathererDone, IInv
<1>. QED
  BY <1>3, <1>5, <1>6, <1>7, <1>8, <1>9 DEF IInv
-----------------------------------------------------------------------------
(* The steps that move batches between the stages *)

LEMMA NextBatchFacts ==
    ASSUME TypeOK, pulled.processed < N
    PROVE  /\ NextBatch \in Batches
           /\ pulled.processed + Cardinality(NextBatch) \in 0 .. N
           /\ \A m \in 1 .. pulled.processed + Cardinality(NextBatch) :
                m \in 1 .. pulled.processed \/ m \in NextBatch
           /\ \A m \in NextBatch : m \in 1 .. pulled.processed + Cardinality(NextBatch)
<1>. DEFINE p == pulled.processed
            last == IF p + BatchSize <= N THEN p + BatchSize ELSE N
<1>1. p \in Nat /\ p < N /\ N \in Nat /\ BatchSize \in Nat \ {0}
  BY ConstantsAssumption DEF TypeOK
<1>2. last \in Nat /\ p + 1 <= last /\ last <= N
  BY <1>1
<1>3. NextBatch = (p + 1) .. last
  BY <1>1 DEF NextBatch, Msgs
<1>. HIDE DEF last, p
<1>4. Cardinality(NextBatch) = last - p
  <2>1. p + 1 \in Int /\ last \in Int
    BY <1>1, <1>2
  <2>2. Cardinality((p + 1) .. last) = IF p + 1 > last THEN 0 ELSE last - (p + 1) + 1
    BY <2>1, FS_Interval
  <2>. QED
    BY <1>1, <1>2, <1>3, <2>2
<1>5. NextBatch \in Batches
  <2>1. p + 1 \in NextBatch /\ NextBatch \subseteq Msgs
    BY <1>1, <1>2, <1>3 DEF Msgs
  <2>. QED
    BY <2>1 DEF Batches
<1>6. p + Cardinality(NextBatch) = last
  BY <1>1, <1>2, <1>4
<1>7. \A m \in 1 .. last : m \in 1 .. p \/ m \in NextBatch
  BY <1>1, <1>2, <1>3
<1>8. \A m \in NextBatch : m \in 1 .. last
  BY <1>1, <1>2, <1>3
<1>. QED
  BY <1>1, <1>2, <1>5, <1>6, <1>7, <1>8 DEF p

LEMMA AssignKeeps ==
    ASSUME IInv, Assign
    PROVE  IInv'
<1>1. /\ main = "run" /\ pulled.processed < N
      /\ Transform(turn, NextBatch)
      /\ pulled' = [pulled EXCEPT !.processed =
                        pulled.processed + Cardinality(NextBatch)]
      /\ turn' = (turn % W) + 1
      /\ UNCHANGED <<main, inputClosed, out, outClosed, gathered,
                     pc, hand, attempt, port, rows>>
  BY DEF Assign, results, threads
<1>2. turn \in Workers
  BY DEF TypeOK, IInv
<1>. PICK j \in Workers : j = turn
  BY <1>2
<1>0. j \in Jobs /\ j = turn
  BY DEF Jobs
<1>. DEFINE b == NextBatch
<1>3. /\ NextBatch \in Batches
      /\ pulled.processed + Cardinality(NextBatch) \in 0 .. N
      /\ \A m \in 1 .. pulled.processed + Cardinality(NextBatch) :
                m \in 1 .. pulled.processed \/ m \in NextBatch
  BY <1>1, NextBatchFacts DEF IInv
<1>4. /\ Tracked' /\ Fresh'
      /\ input' \in [Jobs -> Seq(WorkItems)]
      /\ issued' \in [Jobs -> Nat]
      /\ jobIds' \in [Jobs -> SUBSET Nat]
      /\ \A k \in Jobs : Range(Line(k)) \subseteq Range(Line(k)')
      /\ \E item \in Range(Line(j)') : item.batch = b
      /\ \A k \in Jobs : k # j => jobIds'[k] = jobIds[k]
  <2>1. Transform(j, b) /\ b \in Batches /\ UNCHANGED <<hand, port>>
    BY <1>0, <1>1, <1>3
  <2> HIDE DEF b
  <2>. QED
    BY <1>0, <2>1, TransformKeeps DEF IInv
<1>5. /\ pulled' \in [processed: 0 .. N, inserted: Nat]
      /\ pulled'.processed = pulled.processed + Cardinality(NextBatch)
  BY <1>1, <1>3 DEF TypeOK, IInv
<1>6. TypeOK'
  <2>1. turn' \in Workers
    BY <1>1, <1>2, ConstantsAssumption DEF Workers
  <2>. QED
    BY <1>1, <1>4, <1>5, <2>1 DEF TypeOK, IInv
<1>7. HandOK'
  BY <1>1 DEF HandOK, IInv
<1>8. ClosedInOrder'
  <2>1. \A v \in Workers : ~inputClosed[v] /\ ~outClosed[v]
    <3>1. pulled.processed # N
      BY <1>1, ConstantsAssumption DEF TypeOK, IInv
    <3>. QED
      BY <1>1, <3>1 DEF ClosedInOrder, IInv
  <2>2. 1 \in Workers
    BY ConstantsAssumption DEF Workers
  <2>3. ~inputClosed[Inserter]
    BY <2>1, <2>2 DEF ClosedInOrder, GathererDone, IInv
  <2>. QED
    BY <1>1, <2>1, <2>3 DEF ClosedInOrder
<1>9. Reported'
  BY <1>1 DEF Reported, Stored, IInv
<1>10. Kept'
  <2>1. \A m : Somewhere(m) => Somewhere(m)'
    BY <1>1, <1>4 DEF Somewhere, Stored
  <2>2. \A m \in NextBatch : Somewhere(m)'
    BY <1>0, <1>4 DEF Somewhere
  <2>3. \A m \in 1 .. pulled'.processed : Somewhere(m)'
    BY <1>1, <1>3, <1>5, <2>1, <2>2 DEF Kept, IInv
  <2>. QED
    BY <2>3 DEF Kept
<1>. QED
  BY <1>4, <1>6, <1>7, <1>8, <1>9, <1>10 DEF IInv

LEMMA ForwardKeeps ==
    ASSUME IInv, Forward
    PROVE  IInv'
<1>. DEFINE b == Head(gathered)
<1>1. /\ main = "run" /\ gathered # <<>>
      /\ Transform(Inserter, b)
      /\ gathered' = Tail(gathered)
      /\ UNCHANGED <<main, pulled, turn, inputClosed, out, outClosed,
                     pc, hand, attempt, port, rows>>
  BY DEF Forward, threads
<1>2. Inserter \in Jobs /\ \A w \in Workers : w # Inserter /\ w \in Jobs
  BY ConstantsAssumption DEF Jobs, Inserter, Workers
<1>3. /\ b \in Batches
      /\ Tail(gathered) \in Seq(Batches)
      /\ Range(gathered) = {b} \cup Range(Tail(gathered))
  <2>1. gathered \in Seq(Batches)
    BY DEF TypeOK, IInv
  <2>. QED
    BY <1>1, <2>1, TailFacts
<1>4. /\ Tracked' /\ Fresh'
      /\ input' \in [Jobs -> Seq(WorkItems)]
      /\ issued' \in [Jobs -> Nat]
      /\ jobIds' \in [Jobs -> SUBSET Nat]
      /\ \A k \in Jobs : Range(Line(k)) \subseteq Range(Line(k)')
      /\ \E item \in Range(Line(Inserter)') : item.batch = b
      /\ \A k \in Jobs : k # Inserter => jobIds'[k] = jobIds[k]
  <2> HIDE DEF b
  <2>. QED
    BY <1>1, <1>2, <1>3, TransformKeeps DEF IInv
<1>5. TypeOK'
  BY <1>1, <1>3, <1>4 DEF TypeOK, IInv
<1>6. HandOK'
  BY <1>1 DEF HandOK, IInv
<1>7. ClosedInOrder'
  <2>1. ~inputClosed[Inserter]
    BY <1>1 DEF ClosedInOrder, IInv
  <2>. QED
    BY <1>1, <1>2, <1>4, <2>1 DEF ClosedInOrder, IInv
<1>8. Reported'
  BY <1>1 DEF Reported, Stored, IInv
<1>9. Kept'
  <2>1. ASSUME NEW m, Somewhere(m)
        PROVE  Somewhere(m)'
    <3>1. CASE m \in Stored \/ \E w \in Workers : \E c \in Range(out[w]) : m \in c
      BY <1>1, <3>1 DEF Somewhere, Stored
    <3>2. CASE \E j \in Jobs : \E item \in Range(Line(j)) : m \in item.batch
      BY <1>4, <3>2 DEF Somewhere
    <3>3. CASE \E c \in Range(gathered) : m \in c
      <4>1. m \in b \/ \E c \in Range(gathered') : m \in c
        BY <1>1, <1>3, <3>3
      <4>. QED
        BY <1>2, <1>4, <4>1 DEF Somewhere
    <3>. QED
      BY <2>1, <3>1, <3>2, <3>3 DEF Somewhere
  <2>. QED
    BY <1>1, <2>1 DEF Kept, IInv
<1>. QED
  BY <1>4, <1>5, <1>6, <1>7, <1>8, <1>9 DEF IInv

LEMMA GatherKeeps ==
    ASSUME IInv, NEW w \in Workers, Gather(w)
    PROVE  IInv'
<1>. DEFINE b == Head(out[w])
<1>1. /\ main = "run" /\ out[w] # <<>>
      /\ gathered' = Append(gathered, b)
      /\ out' = [out EXCEPT ![w] = Tail(out[w])]
      /\ pulled' = [pulled EXCEPT !.inserted = pulled.inserted + Cardinality(b)]
      /\ UNCHANGED <<main, turn, issued, input, inputClosed, jobIds, outClosed,
                     pc, hand, attempt, port, rows>>
  BY DEF Gather, threads
<1>2. /\ b \in Batches
      /\ Tail(out[w]) \in Seq(Batches)
      /\ Range(out[w]) = {b} \cup Range(Tail(out[w]))
  <2>1. out[w] \in Seq(Batches)
    BY DEF TypeOK, IInv
  <2>. QED
    BY <1>1, <2>1, TailFacts
<1>3. /\ Append(gathered, b) \in Seq(Batches)
      /\ Range(Append(gathered, b)) = Range(gathered) \cup {b}
  <2>1. gathered \in Seq(Batches)
    BY DEF TypeOK, IInv
  <2> HIDE DEF b
  <2>. QED
    BY <1>2, <2>1, AppendFacts
<1>4. out'[w] = Tail(out[w]) /\ \A v \in Workers : v # w => out'[v] = out[v]
  BY <1>1 DEF TypeOK, IInv
<1>5. Quiet
  BY <1>1, UnchangedLines
<1>6. Tracked' /\ Fresh'
  BY <1>5, QuietKeeps DEF IInv
<1>7. pulled' \in [processed: 0 .. N, inserted: Nat]
      /\ pulled'.processed = pulled.processed
  <2>1. Cardinality(b) \in Nat
    <3>1. IsFiniteSet(Msgs)
      BY ConstantsAssumption, FS_Interval DEF Msgs
    <3>2. IsFiniteSet(b)
      BY <1>2, <3>1, FS_Subset DEF Batches
    <3>. QED
      BY <3>2, FS_CardinalityType
  <2> HIDE DEF b
  <2>2. pulled \in [processed: 0 .. N, inserted: Nat]
    BY DEF TypeOK, IInv
  <2>3. pulled.inserted + Cardinality(b) \in Nat
    BY <2>1, <2>2
  <2>. QED
    BY <1>1, <2>2, <2>3
<1>8. TypeOK'
  <2>1. out' \in [Workers -> Seq(Batches)]
    BY <1>1, <1>2 DEF TypeOK, IInv
  <2>2. gathered' \in Seq(Batches)
    BY <1>1, <1>3
  <2>. QED
    BY <1>1, <1>7, <2>1, <2>2 DEF TypeOK, IInv
<1>9. HandOK'
  BY <1>1 DEF HandOK, IInv
<1>10. ClosedInOrder'
  <2>1. ~inputClosed[Inserter]
    BY <1>1 DEF ClosedInOrder, GathererDone, IInv
  <2>. QED
    BY <1>1, <1>7, <2>1 DEF ClosedInOrder, IInv
<1>11. Reported'
  BY <1>1 DEF Reported, Stored, IInv
<1>12. Kept'
  <2>1. ASSUME NEW m, Somewhere(m)
        PROVE  Somewhere(m)'
    <3>1. CASE m \in Stored
      BY <1>1, <3>1 DEF Somewhere, Stored
    <3>2. CASE \E j \in Jobs : \E item \in Range(Line(j)) : m \in item.batch
      BY <1>5, <3>2 DEF Somewhere, Quiet
    <3>3. CASE \E c \in Range(gathered) : m \in c
      BY <1>1, <1>3, <3>3 DEF Somewhere
    <3>4. CASE \E v \in Workers : \E c \in Range(out[v]) : m \in c
      <4>0. PICK v \in Workers : \E c \in Range(out[v]) : m \in c
        BY <3>4
      <4>1. PICK c \in Range(out[v]) : m \in c
        BY <4>0
      <4>2. CASE v # w
        BY <1>4, <4>1, <4>2 DEF Somewhere
      <4>3. CASE v = w
        <5>1. c = b \/ c \in Range(out'[w])
          BY <1>2, <1>4, <4>1, <4>3
        <5>2. c = b => c \in Range(gathered')
          BY <1>1, <1>3
        <5>. QED
          BY <4>1, <5>1, <5>2 DEF Somewhere
      <4>. QED
        BY <4>2, <4>3
    <3>. QED
      BY <2>1, <3>1, <3>2, <3>3, <3>4 DEF Somewhere
  <2>. QED
    BY <1>1, <1>7, <2>1 DEF Kept, IInv
<1>. QED
  BY <1>6, <1>8, <1>9, <1>10, <1>11, <1>12 DEF IInv

LEMMA OnFinishedKeeps ==
    ASSUME IInv, NEW j \in Jobs, OnFinished(j)
    PROVE  IInv'
<1>. DEFINE item == Head(port[j])
<1>1. /\ Up /\ port[j] # <<>>
      /\ out' = [w \in Workers |->
                    IF w = j THEN Append(out[w], Head(port[w]).batch) ELSE out[w]]
      /\ UNCHANGED <<main, pulled, turn, issued, input, inputClosed, outClosed,
                     gathered, pc, hand, attempt, rows>>
  BY DEF OnFinished
<1>2. /\ Tracked' /\ Fresh'
      /\ port' \in [Jobs -> Seq(WorkItems)]
      /\ jobIds' \in [Jobs -> SUBSET Nat]
      /\ item \in WorkItems
      /\ Range(port[j]) = {item} \cup Range(port'[j])
      /\ jobIds[j] # {}
      /\ Range(Line(j)) = {item} \cup Range(Line(j)')
      /\ \A k \in Jobs : k # j => Line(k)' = Line(k)
      /\ \A k \in Jobs : k # j => port'[k] = port[k]
      /\ \A k \in Jobs : jobIds'[k] \subseteq jobIds[k]
  BY ListenKeeps DEF IInv
<1>. HIDE DEF item
<1>3. item.batch \in Batches
  BY <1>2 DEF WorkItems
<1>4. \A w \in Workers : out[w] \in Seq(Batches)
  BY DEF TypeOK, IInv
<1>5. \A w \in Workers : w # j => out'[w] = out[w]
  BY <1>1
<1>6. j \in Workers => /\ out'[j] = Append(out[j], item.batch)
                       /\ out'[j] \in Seq(Batches)
                       /\ Range(out'[j]) = Range(out[j]) \cup {item.batch}
  <2> SUFFICES ASSUME j \in Workers
               PROVE  /\ out'[j] = Append(out[j], item.batch)
                      /\ Append(out[j], item.batch) \in Seq(Batches)
                      /\ Range(Append(out[j], item.batch))
                            = Range(out[j]) \cup {item.batch}
    OBVIOUS
  <2>1. out'[j] = Append(out[j], item.batch)
    BY <1>1 DEF item
  <2>2. out[j] \in Seq(Batches)
    BY <1>4
  <2>. QED
    BY <1>3, <2>1, <2>2, AppendFacts
<1>7. TypeOK'
  <2>1. \A w \in Workers : out'[w] \in Seq(Batches)
    BY <1>4, <1>5, <1>6
  <2>2. out' \in [Workers -> Seq(Batches)]
    BY <1>1, <2>1
  <2>. QED
    BY <1>1, <1>2, <2>2 DEF TypeOK, IInv
<1>8. HandOK'
  BY <1>1 DEF HandOK, IInv
<1>9. Inserter \in Jobs /\ \A w \in Workers : w \in Jobs
  BY DEF Jobs
<1>10. ClosedInOrder'
  <2>1. \A v \in Workers : outClosed'[v] => inputClosed'[v] /\ jobIds'[v] = {}
    BY <1>1, <1>2, <1>9 DEF ClosedInOrder, IInv
  <2>2. \A v \in Workers : inputClosed'[v] /\ main' # "terminated" => pulled'.processed = N
    BY <1>1 DEF ClosedInOrder, IInv
  <2>3. inputClosed'[Inserter] => GathererDone' /\ gathered' = <<>>
    <3>1. j \in Workers => ~outClosed[j]
      BY <1>2 DEF ClosedInOrder, IInv
    <3>2. j \in Workers => ~inputClosed[Inserter]
      BY <3>1 DEF ClosedInOrder, GathererDone, IInv
    <3>3. CASE j \in Workers
      BY <1>1, <3>2, <3>3
    <3>4. CASE j \notin Workers
      <4>1. \A w \in Workers : out'[w] = out[w]
        BY <1>5, <3>4
      <4>. QED
        BY <1>1, <4>1 DEF ClosedInOrder, GathererDone, IInv
    <3>. QED
      BY <3>3, <3>4
  <2>4. main' = "returned" => inputClosed'[Inserter] /\ jobIds'[Inserter] = {}
    BY <1>1, <1>2, <1>9 DEF ClosedInOrder, IInv
  <2>. QED
    BY <2>1, <2>2, <2>3, <2>4 DEF ClosedInOrder
<1>11. Reported'
  <2>1. Range(port'[Inserter]) \subseteq Range(port[Inserter])
    BY <1>2, <1>9
  <2>. QED
    BY <1>1, <2>1 DEF Reported, Stored, IInv
<1>12. Kept'
  <2>1. ASSUME NEW m, Somewhere(m)
        PROVE  Somewhere(m)'
    <3>1. CASE m \in Stored \/ \E c \in Range(gathered) : m \in c
      BY <1>1, <3>1 DEF Somewhere, Stored
    <3>2. CASE \E w \in Workers : \E c \in Range(out[w]) : m \in c
      <4>1. \A w \in Workers : Range(out[w]) \subseteq Range(out'[w])
        BY <1>5, <1>6
      <4>. QED
        BY <3>2, <4>1 DEF Somewhere
    <3>3. CASE \E k \in Jobs : \E it \in Range(Line(k)) : m \in it.batch
      <4>0. PICK k \in Jobs : \E it \in Range(Line(k)) : m \in it.batch
        BY <3>3
      <4>1. PICK it \in Range(Line(k)) : m \in it.batch
        BY <4>0
      <4>2. CASE k # j \/ it \in Range(Line(k)')
        BY <1>2, <4>1, <4>2 DEF Somewhere
      <4>3. CASE k = j /\ it \notin Range(Line(k)')
        <5>1. it = item
          BY <1>2, <4>1, <4>3
        <5>2. CASE j \in Workers
          BY <1>6, <4>1, <5>1, <5>2 DEF Somewhere
        <5>3. CASE j = Inserter
          <6>1. item \in Range(port[Inserter])
            BY <1>2, <5>3
          <6>2. m \in Stored
            BY <4>1, <5>1, <6>1 DEF Reported, IInv
          <6>. QED
            BY <1>1, <6>2 DEF Somewhere, Stored
        <5>. QED
          BY <5>2, <5>3 DEF Jobs
      <4>. QED
        BY <4>2, <4>3
    <3>. QED
      BY <2>1, <3>1, <3>2, <3>3 DEF Somewhere
  <2>. QED
    BY <1>1, <2>1 DEF Kept, IInv
<1>. QED
  BY <1>2, <1>7, <1>8, <1>10, <1>11, <1>12 DEF IInv
-----------------------------------------------------------------------------
(* Theorems *)

LEMMA InitIInv ==
    ASSUME Init
    PROVE  IInv
<1>1. TypeOK
  <2>1. <<>> \in Seq(WorkItems) /\ <<>> \in Seq(Batches)
    BY EmptySeq
  <2>2. N \in Nat /\ W \in Nat \ {0} /\ MaxRetries \in Nat
    BY ConstantsAssumption
  <2>. QED
    BY <2>1, <2>2 DEF Init, TypeOK, Workers
<1>2. \A j \in Jobs : Line(j) = <<>>
  <2>1. \A j \in Jobs : port[j] = <<>> /\ hand[j] = <<>> /\ input[j] = <<>>
    BY DEF Init
  <2>2. (<<>> \o <<>>) \o <<>> = <<>>
    OBVIOUS
  <2>. QED
    BY <2>1, <2>2 DEF Line
<1>3. Range(<<>>) = {}
  BY DEF Range
<1>4. Tracked
  <2>1. \A j \in Jobs : jobIds[j] = {}
    BY DEF Init
  <2>. QED
    BY <1>2, <1>3, <2>1 DEF Tracked
<1>5. Fresh
  BY <1>2 DEF Fresh
<1>6. HandOK
  BY DEF Init, HandOK
<1>7. ClosedInOrder
  BY DEF Init, ClosedInOrder, Jobs
<1>8. Kept
  <2>1. pulled.processed = 0
    BY DEF Init
  <2>2. 1 .. 0 = {}
    OBVIOUS
  <2>. QED
    BY <2>1, <2>2 DEF Kept
<1>9. Reported
  <2>1. port[Inserter] = <<>>
    BY DEF Init, Jobs
  <2>. QED
    BY <1>3, <2>1 DEF Reported
<1>. QED
  BY <1>1, <1>4, <1>5, <1>6, <1>7, <1>8, <1>9 DEF IInv

LEMMA StepKeeps ==
    ASSUME IInv, [Next]_vars
    PROVE  IInv'
<1>1. CASE UNCHANGED vars
  <2>1. UNCHANGED <<issued, jobIds, input, hand, port, out, gathered, rows>>
        /\ pulled' = pulled /\ main' = main
    BY <1>1 DEF vars
  <2>2. Tracked' /\ Fresh' /\ Kept' /\ Reported'
    BY <2>1, ControlKeeps
  <2>3. TypeOK' /\ HandOK' /\ ClosedInOrder'
    BY <1>1 DEF vars, TypeOK, HandOK, ClosedInOrder, GathererDone, IInv
  <2>. QED
    BY <2>2, <2>3 DEF IInv
<1>2. CASE Queue
  BY <1>2, QueueKeeps
<1>3. CASE MainStep
  BY <1>3, AssignKeeps, ForwardKeeps, CloseInsertInputKeeps, ReturnKeeps,
     CloseInputKeeps, CloseOutputKeeps, GatherKeeps DEF MainStep
<1>4. CASE Cleanup
  BY <1>4, CleanupKeeps
<1>5. ASSUME NEW j \in Jobs, WorkerStep(j)
      PROVE  IInv'
  BY <1>5, PcKeeps, TakeKeeps, SucceedKeeps, FailKeeps DEF WorkerStep
<1>6. ASSUME NEW j \in Jobs, OnFinished(j) \/ OnError(j)
      PROVE  IInv'
  BY <1>6, OnFinishedKeeps, OnErrorKeeps
<1>. QED
  BY <1>1, <1>2, <1>3, <1>4, <1>5, <1>6 DEF Next, Finished

\* The strengthening: where the batches are, how they are numbered, and in
\* which order the stages close (WorkerJob, assigner, gatherer).
THEOREM Invariance == Spec => []IInv
<1>1. Init => IInv
  BY InitIInv
<1>2. IInv /\ [Next]_vars => IInv'
  BY StepKeeps
<1>. QED
  BY <1>1, <1>2, PTL DEF Spec

\* Every reachable state is typed; in particular the count of processed
\* messages never passes the input's length and no batch is empty.
THEOREM TypeCorrect == Spec => []TypeOK
<1>1. IInv => TypeOK
  BY DEF IInv
<1>. QED
  BY <1>1, Invariance, PTL

\* jobIds, and with it pendingTask, is exact at every instant.
THEOREM Bookkeeping == Spec => []Tracked
<1>1. IInv => Tracked
  BY DEF IInv
<1>. QED
  BY <1>1, Invariance, PTL

\* A job's output is closed only after its last result.
THEOREM OutputsClosedLast == Spec => []NoLateResult
<1>1. IInv => NoLateResult
  <2> SUFFICES ASSUME IInv, NEW w \in Workers, outClosed[w]
               PROVE  Line(w) = <<>>
    BY DEF NoLateResult
  <2>1. w \in Jobs /\ jobIds[w] = {}
    BY DEF IInv, ClosedInOrder, Jobs
  <2>. QED
    BY <2>1, NothingPending DEF IInv
<1>. QED
  BY <1>1, Invariance, PTL

\* What queue() knows when the insert job's input is closed and nothing of it
\* is pending: the last message of the input has a row.
LEMMA AllProcessed ==
    ASSUME IInv, main # "terminated",
           inputClosed[Inserter], jobIds[Inserter] = {}
    PROVE  pulled.processed = N /\ Stored = Msgs
<1>1. GathererDone /\ gathered = <<>>
  BY DEF IInv, ClosedInOrder
<1>2. \A w \in Workers : outClosed[w] /\ out[w] = <<>> /\ jobIds[w] = {}
                         /\ inputClosed[w]
  BY <1>1 DEF GathererDone, IInv, ClosedInOrder
<1>3. \A j \in Jobs : Line(j) = <<>>
  BY <1>1, <1>2, NothingPending DEF IInv, Jobs
<1>4. pulled.processed = N
  <2>1. 1 \in Workers
    BY ConstantsAssumption DEF Workers
  <2>. QED
    BY <1>2, <2>1 DEF IInv, ClosedInOrder
<1>5. ASSUME NEW m \in Msgs
      PROVE  m \in Stored
  <2>1. Somewhere(m)
    BY <1>4 DEF IInv, Kept, Msgs
  <2>2. Range(<<>>) = {}
    BY DEF Range
  <2>. QED
    BY <1>1, <1>2, <1>3, <2>1, <2>2 DEF Somewhere
<1>. QED
  BY <1>4, <1>5 DEF Stored

\* When queue() returns, every message of the input is in the database.
THEOREM Complete == Spec => []ReturnsComplete
<1>1. IInv => ReturnsComplete
  BY AllProcessed DEF ReturnsComplete, IInv, ClosedInOrder
<1>. QED
  BY <1>1, Invariance, PTL
-----------------------------------------------------------------------------
(* Every message is in one place *)

\* Where batches are on their way: the lines, the outputs, what is gathered.
Pipes == ({"line"} \X Jobs) \cup ({"out"} \X Workers) \cup {<<"gathered", 0>>}
InsertLine == <<"line", Inserter>>

BatchesOf(line) == [i \in DOMAIN line |-> line[i].batch]

Pipe == [k \in Pipes |-> CASE k[1] = "line" -> BatchesOf(Line(k[2]))
                           [] k[1] = "out" -> out[k[2]]
                           [] OTHER -> gathered]

\* No two batches on their way have a message in common.
Apart(F) ==
    \A k, l \in DOMAIN F : \A i \in DOMAIN F[k], n \in DOMAIN F[l] :
        F[k][i] \cap F[l][n] # {} => k = l /\ i = n

\* What is on its way was pulled from the input, and so was what is stored.
Arrived ==
    main # "terminated" =>
        /\ \A k \in Pipes : \A i \in DOMAIN Pipe[k] : Pipe[k][i] \subseteq 1 .. pulled.processed
        /\ Stored \subseteq 1 .. pulled.processed

\* Nothing is stored that has not come to the insert worker's hands, where a
\* message has a row an attempt at most.
Unwritten ==
    /\ \A k \in Pipes \ {InsertLine} : \A i \in DOMAIN Pipe[k] : Pipe[k][i] \cap Stored = {}
    /\ \A i \in DOMAIN input[Inserter] : input[Inserter][i].batch \cap Stored = {}
    /\ pc[Inserter] = "exec" => \A m \in hand[Inserter][1].batch : rows[m] <= attempt[Inserter]

\* A worker that executes has an attempt left, the first one at least.
AttemptLeft == \A j \in Jobs : pc[j] = "exec" => attempt[j] = 0 \/ attempt[j] < MaxRetries

OnceInv == Apart(Pipe) /\ Arrived /\ Unwritten /\ AttemptLeft /\ WrittenAtMost

LEMMA PipeFacts ==
    /\ DOMAIN Pipe = Pipes /\ DOMAIN (Pipe') = Pipes
    /\ \A j \in Jobs : /\ <<"line", j>> \in Pipes
                       /\ Pipe[<<"line", j>>] = BatchesOf(Line(j))
                       /\ Pipe'[<<"line", j>>] = BatchesOf(Line(j)')
    /\ \A w \in Workers : /\ <<"out", w>> \in Pipes
                          /\ Pipe[<<"out", w>>] = out[w]
                          /\ Pipe'[<<"out", w>>] = out'[w]
    /\ /\ <<"gathered", 0>> \in Pipes
       /\ Pipe[<<"gathered", 0>>] = gathered
       /\ Pipe'[<<"gathered", 0>>] = gathered'
    /\ \A k \in Pipes : \/ \E j \in Jobs : k = <<"line", j>>
                        \/ \E w \in Workers : k = <<"out", w>>
                        \/ k = <<"gathered", 0>>
    /\ InsertLine \in Pipes /\ InsertLine = <<"line", Inserter>> /\ Inserter \in Jobs
    /\ \A w \in Workers : w \in Jobs /\ w # Inserter
<1>1. \A w \in Workers : w \in Jobs /\ w # Inserter
  BY ConstantsAssumption DEF Jobs, Workers, Inserter
<1>. QED
  BY <1>1 DEF Pipe, Pipes, InsertLine, Jobs

LEMMA SamePipes ==
    ASSUME \A j \in Jobs : Line(j)' = Line(j), out' = out, gathered' = gathered
    PROVE  Pipe' = Pipe
<1>1. \A k \in Pipes : Pipe'[k] = Pipe[k]
  BY PipeFacts
<1>2. Pipe = [k \in Pipes |-> Pipe[k]] /\ Pipe' = [k \in Pipes |-> Pipe'[k]]
  BY DEF Pipe
<1>. QED
  BY <1>1, <1>2

\* A batch joins at the end of pipe b.
Joins(F, G, b, n, batch) ==
    /\ n \notin DOMAIN F[b] /\ DOMAIN G[b] = DOMAIN F[b] \cup {n}
    /\ G[b][n] = batch
    /\ \A i \in DOMAIN F[b] : G[b][i] = F[b][i]

\* The first batch leaves pipe a.
Leaves(F, G, a) ==
    /\ 1 \in DOMAIN F[a]
    /\ \A i \in DOMAIN G[a] :
            i \in Nat \ {0} /\ i + 1 \in DOMAIN F[a] /\ G[a][i] = F[a][i + 1]

LEMMA ApartJoined ==
    ASSUME NEW P, NEW F, NEW G, DOMAIN F = P, DOMAIN G = P, Apart(F),
           NEW b \in P, NEW n, NEW batch, Joins(F, G, b, n, batch),
           \A k \in P : k # b => G[k] = F[k],
           \A k \in P : \A i \in DOMAIN F[k] : F[k][i] \cap batch = {}
    PROVE  Apart(G)
BY DEF Apart, Joins

LEMMA ApartLeft ==
    ASSUME NEW P, NEW F, NEW G, DOMAIN F = P, DOMAIN G = P, Apart(F),
           NEW a \in P, Leaves(F, G, a),
           \A k \in P : k # a => G[k] = F[k]
    PROVE  /\ Apart(G)
           /\ \A k \in P : \A i \in DOMAIN G[k] : G[k][i] \cap F[a][1] = {}
           /\ \A k \in P : \A i \in DOMAIN G[k] : \E n \in DOMAIN F[k] : G[k][i] = F[k][n]
<1>1. \A k \in P : \A i \in DOMAIN G[k] :
        /\ k # a => i \in DOMAIN F[k] /\ G[k][i] = F[k][i]
        /\ k = a => /\ i \in Nat \ {0} /\ i + 1 \in DOMAIN F[a]
                    /\ G[a][i] = F[a][i + 1] /\ i + 1 # 1
  BY DEF Leaves
<1>2. Apart(G)
  <2> SUFFICES ASSUME NEW k \in P, NEW l \in P,
                      NEW i \in DOMAIN G[k], NEW n \in DOMAIN G[l],
                      G[k][i] \cap G[l][n] # {}
               PROVE  k = l /\ i = n
    BY DEF Apart
  <2>1. CASE k = a /\ l = a
    <3>1. i + 1 = n + 1
      BY <1>1, <2>1 DEF Apart
    <3>. QED
      BY <1>1, <2>1, <3>1
  <2>2. CASE k = a /\ l # a
    BY <1>1, <2>2 DEF Apart
  <2>3. CASE k # a /\ l = a
    BY <1>1, <2>3 DEF Apart
  <2>4. CASE k # a /\ l # a
    BY <1>1, <2>4 DEF Apart
  <2>. QED
    BY <2>1, <2>2, <2>3, <2>4
<1>3. \A k \in P : \A i \in DOMAIN G[k] : G[k][i] \cap F[a][1] = {}
  <2> SUFFICES ASSUME NEW k \in P, NEW i \in DOMAIN G[k], G[k][i] \cap F[a][1] # {}
               PROVE  FALSE
    OBVIOUS
  <2>1. 1 \in DOMAIN F[a]
    BY DEF Leaves
  <2>. QED
    BY <1>1, <2>1 DEF Apart
<1>. QED
  BY <1>1, <1>2, <1>3

\* The first batch of pipe a joins pipe b.
LEMMA ApartMoved ==
    ASSUME NEW P, NEW F, NEW G, DOMAIN F = P, DOMAIN G = P, Apart(F),
           NEW a \in P, NEW b \in P, a # b, NEW n,
           Leaves(F, G, a), Joins(F, G, b, n, F[a][1]),
           \A k \in P : k # a /\ k # b => G[k] = F[k]
    PROVE  /\ Apart(G)
           /\ \A k \in P : k # b => \A i \in DOMAIN G[k] :
                    \E m \in DOMAIN F[k] : G[k][i] = F[k][m]
           /\ \A i \in DOMAIN G[b] :
                \/ G[b][i] = F[a][1]
                \/ \E m \in DOMAIN F[b] : G[b][i] = F[b][m]
<1>. DEFINE H == [k \in P |-> IF k = a THEN G[a] ELSE F[k]]
<1>1. /\ DOMAIN H = P
      /\ H[a] = G[a]
      /\ \A k \in P : k # a => H[k] = F[k]
      /\ \A k \in P : k # b => G[k] = H[k]
  OBVIOUS
<1>. HIDE DEF H
<1>2. Leaves(F, H, a) /\ Joins(H, G, b, n, F[a][1])
  BY <1>1 DEF Leaves, Joins
<1>3. /\ Apart(H)
      /\ \A k \in P : \A i \in DOMAIN H[k] : H[k][i] \cap F[a][1] = {}
      /\ \A k \in P : \A i \in DOMAIN H[k] : \E m \in DOMAIN F[k] : H[k][i] = F[k][m]
  BY <1>1, <1>2, ApartLeft
<1>4. Apart(G)
  BY <1>1, <1>2, <1>3, ApartJoined
<1>5. \A k \in P : k # b => \A i \in DOMAIN G[k] :
                    \E m \in DOMAIN F[k] : G[k][i] = F[k][m]
  BY <1>1, <1>3
<1>6. \A i \in DOMAIN G[b] : \/ G[b][i] = F[a][1]
                             \/ \E m \in DOMAIN F[b] : G[b][i] = F[b][m]
  BY DEF Joins
<1>. QED
  BY <1>4, <1>5, <1>6

\* The parts of a line.
LEMMA LineParts ==
    ASSUME TypeOK, NEW j \in Jobs
    PROVE  /\ \A i \in DOMAIN input[j] :
                /\ Len(port[j]) + Len(hand[j]) + i \in DOMAIN Line(j)
                /\ Line(j)[Len(port[j]) + Len(hand[j]) + i] = input[j][i]
           /\ \A i \in DOMAIN hand[j] :
                /\ Len(port[j]) + i \in DOMAIN Line(j)
                /\ Line(j)[Len(port[j]) + i] = hand[j][i]
<1>. DEFINE p == port[j]  h == hand[j]  r == input[j]
<1>1. p \in Seq(WorkItems) /\ h \in Seq(WorkItems) /\ r \in Seq(WorkItems)
  BY LineType
<1>2. Line(j) = (p \o h) \o r
  BY DEF Line
<1>. HIDE DEF p, h, r
<1>3. /\ (p \o h) \in Seq(WorkItems) /\ Len(p \o h) = Len(p) + Len(h)
      /\ Len(p) \in Nat /\ Len(h) \in Nat /\ Len(r) \in Nat
      /\ \A i \in 1 .. Len(h) : (p \o h)[Len(p) + i] = h[i]
  BY <1>1
<1>4. /\ Len((p \o h) \o r) = Len(p \o h) + Len(r)
      /\ DOMAIN ((p \o h) \o r) = 1 .. Len(p \o h) + Len(r)
      /\ \A i \in 1 .. Len(p \o h) : ((p \o h) \o r)[i] = (p \o h)[i]
      /\ \A i \in 1 .. Len(r) : ((p \o h) \o r)[Len(p \o h) + i] = r[i]
  BY <1>1, <1>3
<1>5. DOMAIN h = 1 .. Len(h) /\ DOMAIN r = 1 .. Len(r)
  BY <1>1
<1>6. \A i \in DOMAIN r : /\ Len(p) + Len(h) + i \in DOMAIN Line(j)
                          /\ Line(j)[Len(p) + Len(h) + i] = r[i]
  <2>1. /\ DOMAIN Line(j) = 1 .. Len(p) + Len(h) + Len(r)
        /\ \A i \in 1 .. Len(r) : Line(j)[Len(p) + Len(h) + i] = r[i]
    BY <1>2, <1>3, <1>4
  <2>. QED
    BY <1>3, <1>5, <2>1
<1>7. \A i \in DOMAIN h : /\ Len(p) + i \in DOMAIN Line(j)
                          /\ Line(j)[Len(p) + i] = h[i]
  <2>1. /\ DOMAIN Line(j) = 1 .. Len(p) + Len(h) + Len(r)
        /\ \A i \in 1 .. Len(h) : Len(p) + i \in 1 .. Len(p) + Len(h)
    BY <1>2, <1>3, <1>4
  <2>2. \A i \in 1 .. Len(h) : Line(j)[Len(p) + i] = h[i]
    BY <1>2, <1>3, <1>4, <2>1
  <2>. QED
    BY <1>3, <1>5, <2>1, <2>2
<1>. QED
  BY <1>6, <1>7 DEF p, h, r

\* The batch in the insert worker's hands is nowhere else.
LEMMA InHand ==
    ASSUME IInv, Apart(Pipe), pc[Inserter] = "exec"
    PROVE  LET b == hand[Inserter][1].batch
           IN  /\ Head(hand[Inserter]) = hand[Inserter][1]
               /\ b \subseteq Msgs
               /\ \A k \in Pipes \ {InsertLine} : \A i \in DOMAIN Pipe[k] : Pipe[k][i] \cap b = {}
               /\ \A i \in DOMAIN input[Inserter] : input[Inserter][i].batch \cap b = {}
               /\ \E i \in DOMAIN Pipe[InsertLine] : b = Pipe[InsertLine][i]
<1>. DEFINE b == hand[Inserter][1].batch
            at == Len(port[Inserter]) + 1
<1>1. Inserter \in Jobs /\ Len(hand[Inserter]) = 1
  BY PipeFacts DEF IInv, HandOK
<1>2. /\ hand[Inserter] \in Seq(WorkItems) /\ port[Inserter] \in Seq(WorkItems)
      /\ input[Inserter] \in Seq(WorkItems)
  BY <1>1, LineType DEF IInv
<1>3. /\ 1 \in DOMAIN hand[Inserter] /\ hand[Inserter][1] \in WorkItems
      /\ Head(hand[Inserter]) = hand[Inserter][1]
      /\ Len(port[Inserter]) \in Nat
      /\ \A i \in DOMAIN input[Inserter] : i \in Nat \ {0}
  BY <1>1, <1>2
<1>4. at \in DOMAIN Line(Inserter) /\ Line(Inserter)[at] = hand[Inserter][1]
  BY <1>1, <1>3, LineParts DEF IInv
<1>5. \A i \in DOMAIN input[Inserter] :
        /\ Len(port[Inserter]) + 1 + i \in DOMAIN Line(Inserter)
        /\ Line(Inserter)[Len(port[Inserter]) + 1 + i] = input[Inserter][i]
        /\ Len(port[Inserter]) + 1 + i # at
  <2>1. \A i \in DOMAIN input[Inserter] :
            /\ Len(port[Inserter]) + Len(hand[Inserter]) + i \in DOMAIN Line(Inserter)
            /\ Line(Inserter)[Len(port[Inserter]) + Len(hand[Inserter]) + i] = input[Inserter][i]
    BY <1>1, LineParts DEF IInv
  <2>. QED
    BY <1>1, <1>3, <2>1
<1>6. Pipe[InsertLine] = BatchesOf(Line(Inserter)) /\ InsertLine \in DOMAIN Pipe
      /\ DOMAIN Pipe = Pipes
  BY PipeFacts
<1>7. at \in DOMAIN Pipe[InsertLine] /\ Pipe[InsertLine][at] = b
  BY <1>4, <1>6 DEF BatchesOf
<1>. HIDE DEF at
<1>8. b \subseteq Msgs
  BY <1>3 DEF WorkItems, Batches
<1>9. \A k \in Pipes \ {InsertLine} : \A i \in DOMAIN Pipe[k] : Pipe[k][i] \cap b = {}
  BY <1>6, <1>7 DEF Apart
<1>10. \A i \in DOMAIN input[Inserter] : input[Inserter][i].batch \cap b = {}
  <2> SUFFICES ASSUME NEW i \in DOMAIN input[Inserter]
               PROVE  input[Inserter][i].batch \cap b = {}
    OBVIOUS
  <2>1. PICK n \in DOMAIN Line(Inserter) : Line(Inserter)[n] = input[Inserter][i] /\ n # at
    BY <1>5
  <2>2. n \in DOMAIN Pipe[InsertLine] /\ Pipe[InsertLine][n] = input[Inserter][i].batch
    BY <1>6, <2>1 DEF BatchesOf
  <2>. QED
    BY <1>6, <1>7, <2>1, <2>2 DEF Apart
<1>. QED
  BY <1>3, <1>7, <1>8, <1>9, <1>10

\* Steps that move no batch and write nothing.
LEMMA OnceQuiet ==
    ASSUME OnceInv, UNCHANGED <<input, hand, port, out, gathered, rows, attempt>>,
           \/ pulled'.processed = pulled.processed /\ (main = "terminated" => main' = main)
           \/ main' = "terminated",
           \A j \in Jobs : pc'[j] = "exec" => pc[j] = "exec"
    PROVE  OnceInv'
<1>1. Pipe' = Pipe
  BY SamePipes DEF Line
<1>2. Apart(Pipe)' /\ Arrived'
  BY <1>1 DEF OnceInv, Apart, Arrived, Stored
<1>3. Unwritten'
  BY <1>1, PipeFacts DEF OnceInv, Unwritten, Stored
<1>4. AttemptLeft' /\ WrittenAtMost'
  BY DEF OnceInv, AttemptLeft, WrittenAtMost
<1>. QED
  BY <1>2, <1>3, <1>4 DEF OnceInv

LEMMA OnceControl ==
    ASSUME IInv, OnceInv,
           \/ Queue \/ CloseInsertInput \/ Return \/ Cleanup
           \/ \E w \in Workers : CloseInput(w) \/ CloseOutput(w)
           \/ \E j \in Jobs : OnError(j) \/ RunInit(j) \/ EndOfInput(j) \/ Teardown(j)
    PROVE  OnceInv'
<1>1. CASE Queue \/ Cleanup
  BY <1>1, OnceQuiet DEF Queue, Cleanup, results
<1>2. CASE CloseInsertInput \/ Return
  BY <1>2, OnceQuiet DEF CloseInsertInput, Return, results, threads
<1>3. CASE \E w \in Workers : CloseInput(w) \/ CloseOutput(w)
  BY <1>3, OnceQuiet DEF CloseInput, CloseOutput, results, threads
<1>4. ASSUME NEW j \in Jobs, OnError(j)
      PROVE  OnceInv'
  <2>1. /\ UNCHANGED <<input, hand, port, out, gathered, rows, attempt, pc, pulled>>
        /\ main # "terminated"
    BY <1>4 DEF OnError, Up, results, threads
  <2>. QED
    BY <2>1, OnceQuiet
<1>5. ASSUME NEW j \in Jobs, RunInit(j) \/ EndOfInput(j) \/ Teardown(j)
      PROVE  OnceInv'
  <2>1. /\ UNCHANGED <<input, hand, port, out, gathered, rows, attempt, main, pulled>>
        /\ \A k \in Jobs : pc'[k] = "exec" => pc[k] = "exec"
    BY <1>5 DEF RunInit, EndOfInput, Teardown, mainThread, results, IInv, TypeOK
  <2>. QED
    BY <2>1, OnceQuiet
<1>. QED
  BY <1>1, <1>2, <1>3, <1>4, <1>5

LEMMA OnceTake ==
    ASSUME IInv, OnceInv, NEW j \in Jobs, Take(j) PROVE OnceInv'
<1>1. /\ pc[j] = "wait" /\ input[j] # <<>>
      /\ hand' = [hand EXCEPT ![j] = <<Head(input[j])>>]
      /\ input' = [input EXCEPT ![j] = Tail(input[j])]
      /\ attempt' = [attempt EXCEPT ![j] = 0]
      /\ pc' = [pc EXCEPT ![j] = "exec"]
      /\ UNCHANGED <<main, pulled, out, gathered, port, rows>>
  BY DEF Take, mainThread, results
<1>2. \A k \in Jobs : Line(k)' = Line(k)
  BY TakesOwn
<1>3. Pipe' = Pipe
  BY <1>1, <1>2, SamePipes
<1>4. Apart(Pipe)' /\ Arrived'
  BY <1>1, <1>3 DEF OnceInv, Apart, Arrived, Stored
<1>5. AttemptLeft' /\ WrittenAtMost'
  BY <1>1 DEF OnceInv, AttemptLeft, WrittenAtMost, IInv, TypeOK
<1>6. Unwritten'
  <2>1. CASE j = Inserter
    <3>1. input[j] \in Seq(WorkItems)
      BY LineType DEF IInv
    <3>2. /\ Head(input[j]) = input[j][1] /\ 1 \in DOMAIN input[j]
          /\ \A i \in DOMAIN Tail(input[j]) :
                i + 1 \in DOMAIN input[j] /\ Tail(input[j])[i] = input[j][i + 1]
      BY <1>1, <3>1, TailFacts
    <3>3. /\ input'[j] = Tail(input[j]) /\ hand'[j] = <<Head(input[j])>>
          /\ attempt'[j] = 0 /\ Stored' = Stored
      BY <1>1 DEF IInv, TypeOK, Stored
    <3>4. \A i \in DOMAIN input'[j] : input'[j][i].batch \cap Stored = {}
      BY <2>1, <3>2, <3>3 DEF OnceInv, Unwritten
    <3>5. \A m \in hand'[j][1].batch : rows'[m] <= 0
      <4>1. hand'[j][1] = input[j][1]
        BY <3>2, <3>3
      <4>2. \A m \in hand'[j][1].batch : m \notin Stored
        BY <2>1, <3>2, <4>1 DEF OnceInv, Unwritten
      <4>3. input[j][1] \in WorkItems
        BY <3>1, <3>2
      <4>. QED
        BY <1>1, <4>1, <4>2, <4>3 DEF Stored, WorkItems, Batches, IInv, TypeOK
    <3>. QED
      BY <1>3, <2>1, <3>3, <3>4, <3>5 DEF OnceInv, Unwritten
  <2>2. CASE j # Inserter
    <3>1. /\ input'[Inserter] = input[Inserter] /\ hand'[Inserter] = hand[Inserter]
          /\ attempt'[Inserter] = attempt[Inserter] /\ pc'[Inserter] = pc[Inserter]
          /\ Stored' = Stored
      BY <1>1, <2>2, PipeFacts DEF IInv, TypeOK, Stored
    <3>. QED
      BY <1>1, <1>3, <3>1 DEF OnceInv, Unwritten
  <2>. QED
    BY <2>1, <2>2
<1>. QED
  BY <1>4, <1>5, <1>6 DEF OnceInv

\* An attempt of the insert worker adds a row at most to each message in hand.
LEMMA AttemptFacts ==
    ASSUME IInv, OnceInv, NEW j \in Jobs, pc[j] = "exec", rows' \in {rows, Written(j)}
    PROVE  /\ j # Inserter => rows' = rows
           /\ \A m \in Msgs :
                /\ rows[m] \in Nat /\ rows'[m] \in Nat
                /\ \/ rows'[m] = rows[m]
                   \/ /\ j = Inserter /\ m \in hand[Inserter][1].batch
                      /\ rows'[m] = rows[m] + 1
           /\ WrittenAtMost'
<1>1. rows \in [Msgs -> Nat]
  BY DEF IInv, TypeOK
<1>2. j # Inserter => rows' = rows
  BY <1>1 DEF Written
<1>3. \A m \in Msgs :
        /\ rows[m] \in Nat /\ rows'[m] \in Nat
        /\ \/ rows'[m] = rows[m]
           \/ /\ j = Inserter /\ m \in hand[Inserter][1].batch
              /\ rows'[m] = rows[m] + 1
  <2>1. j = Inserter => Head(hand[Inserter]) = hand[Inserter][1]
    BY InHand DEF OnceInv
  <2>. QED
    BY <1>1, <2>1 DEF Written
<1>4. WrittenAtMost'
  <2> SUFFICES ASSUME NEW m \in Msgs PROVE rows'[m] <= 1 \/ rows'[m] <= MaxRetries
    BY DEF WrittenAtMost
  <2>1. CASE rows'[m] = rows[m]
    BY <2>1 DEF OnceInv, WrittenAtMost
  <2>2. CASE rows'[m] # rows[m]
    <3>1. j = Inserter /\ m \in hand[Inserter][1].batch /\ rows'[m] = rows[m] + 1
      BY <1>3, <2>2
    <3>2. rows[m] <= attempt[Inserter] /\ rows[m] \in Nat /\ attempt[Inserter] \in Nat
      BY <1>3, <3>1 DEF OnceInv, Unwritten, IInv, TypeOK
    <3>3. attempt[Inserter] = 0 \/ attempt[Inserter] < MaxRetries
      BY <3>1 DEF OnceInv, AttemptLeft
    <3>. QED
      BY <3>1, <3>2, <3>3, ConstantsAssumption
  <2>. QED
    BY <2>1, <2>2
<1>. QED
  BY <1>2, <1>3, <1>4

LEMMA OnceExecute ==
    ASSUME IInv, OnceInv, NEW j \in Jobs, Succeed(j) \/ Fail(j) PROVE OnceInv'
<1>1. /\ pc[j] = "exec" /\ rows' \in {rows, Written(j)}
      /\ UNCHANGED <<main, pulled, out, gathered, input>>
  BY DEF Succeed, Fail, mainThread, results
<1>2. \A k \in Jobs : Line(k)' = Line(k)
  <2>1. CASE Succeed(j)
    BY <2>1, SucceedsOwn
  <2>2. CASE Fail(j)
    BY <2>2 DEF Fail, Line
  <2>. QED
    BY <2>1, <2>2
<1>3. Pipe' = Pipe
  BY <1>1, <1>2, SamePipes
<1>4. /\ WrittenAtMost' /\ (j # Inserter => rows' = rows)
      /\ \A m \in Msgs : /\ rows[m] \in Nat /\ rows'[m] \in Nat
                         /\ \/ rows'[m] = rows[m]
                            \/ /\ j = Inserter /\ m \in hand[Inserter][1].batch
                               /\ rows'[m] = rows[m] + 1
  BY <1>1, AttemptFacts
<1>5. Apart(Pipe)' /\ Apart(Pipe)
  BY <1>3 DEF OnceInv, Apart
<1>6. AttemptLeft'
  <2>1. \A k \in Jobs : k # j => pc'[k] = pc[k] /\ attempt'[k] = attempt[k]
    BY DEF Succeed, Fail, IInv, TypeOK
  <2>2. pc'[j] = "exec" => attempt'[j] < MaxRetries
    <3>1. CASE Succeed(j)
      BY <3>1 DEF Succeed, IInv, TypeOK
    <3>2. CASE Fail(j)
      BY <3>2, ConstantsAssumption DEF Fail, GivesUp, IInv, TypeOK
    <3>. QED
      BY <3>1, <3>2
  <2>. QED
    BY <2>1, <2>2 DEF OnceInv, AttemptLeft
<1>7. CASE j # Inserter
  <2>1. /\ hand'[Inserter] = hand[Inserter] /\ attempt'[Inserter] = attempt[Inserter]
        /\ pc'[Inserter] = pc[Inserter] /\ rows' = rows
    BY <1>4, <1>7, PipeFacts DEF Succeed, Fail, IInv, TypeOK
  <2>2. Unwritten'
    BY <1>1, <1>3, <2>1 DEF OnceInv, Unwritten, Stored
  <2>3. Arrived'
    BY <1>1, <1>3, <2>1 DEF OnceInv, Arrived, Stored
  <2>. QED
    BY <1>4, <1>5, <1>6, <2>2, <2>3 DEF OnceInv
<1>8. CASE j = Inserter
  <2>1. Stored' \subseteq Stored \cup hand[Inserter][1].batch
    BY <1>4 DEF Stored
  <2>2. /\ \A k \in Pipes \ {InsertLine} : \A i \in DOMAIN Pipe[k] :
                Pipe[k][i] \cap hand[Inserter][1].batch = {}
        /\ \A i \in DOMAIN input[Inserter] :
                input[Inserter][i].batch \cap hand[Inserter][1].batch = {}
        /\ \E i \in DOMAIN Pipe[InsertLine] : hand[Inserter][1].batch = Pipe[InsertLine][i]
        /\ hand[Inserter][1].batch \subseteq Msgs
    BY <1>1, <1>5, <1>8, InHand
  <2>3. Arrived'
    BY <1>1, <1>3, <2>1, <2>2, PipeFacts DEF OnceInv, Arrived
  <2>4. pc'[Inserter] = "exec" =>
            /\ hand'[Inserter] = hand[Inserter]
            /\ attempt'[Inserter] = attempt[Inserter] + 1
    <3>1. CASE Succeed(j)
      BY <1>8, <3>1 DEF Succeed, IInv, TypeOK
    <3>2. CASE Fail(j)
      BY <1>8, <3>2 DEF Fail, IInv, TypeOK
    <3>. QED
      BY <3>1, <3>2
  <2>5. pc'[Inserter] = "exec" => \A m \in hand'[Inserter][1].batch : rows'[m] <= attempt'[Inserter]
    <3> SUFFICES ASSUME pc'[Inserter] = "exec", NEW m \in hand[Inserter][1].batch
                 PROVE  rows'[m] <= attempt[Inserter] + 1
      BY <2>4
    <3>1. rows[m] <= attempt[Inserter] /\ attempt[Inserter] \in Nat /\ m \in Msgs
      BY <1>1, <1>8, <2>2 DEF OnceInv, Unwritten, IInv, TypeOK
    <3>. QED
      BY <1>4, <3>1
  <2>6. Unwritten'
    BY <1>1, <1>3, <2>1, <2>2, <2>5 DEF OnceInv, Unwritten
  <2>. QED
    BY <1>4, <1>5, <1>6, <2>3, <2>6 DEF OnceInv
<1>. QED
  BY <1>7, <1>8

\* A line that a batch has joined, and one whose first batch has left.
LEMMA LineJoins ==
    ASSUME TypeOK, NEW j \in Jobs, NEW b \in Batches, Transform(j, b),
           UNCHANGED <<hand, port>>
    PROVE  /\ Joins(Pipe, Pipe', <<"line", j>>, Len(Line(j)) + 1, b)
           /\ \A k \in Jobs : k # j => Pipe'[<<"line", k>>] = Pipe[<<"line", k>>]
<1>1. Line(j) \in Seq(WorkItems) /\ DOMAIN Line(j) = 1 .. Len(Line(j))
      /\ Len(Line(j)) \in Nat
  BY LineType
<1>2. /\ DOMAIN (Line(j)') = DOMAIN Line(j) \cup {Len(Line(j)) + 1}
      /\ \A i \in DOMAIN Line(j) : Line(j)'[i] = Line(j)[i]
      /\ Line(j)'[Len(Line(j)) + 1].batch = b
      /\ \A k \in Jobs : k # j => Line(k)' = Line(k)
  <2>. DEFINE new == [jobId |-> issued[j], batch |-> b]
  <2>1. new.batch = b
    OBVIOUS
  <2>2. /\ DOMAIN (Line(j)') = DOMAIN Line(j) \cup {Len(Line(j)) + 1}
        /\ \A i \in DOMAIN Line(j) : Line(j)'[i] = Line(j)[i]
        /\ Line(j)'[Len(Line(j)) + 1] = new
        /\ \A k \in Jobs : k # j => Line(k)' = Line(k)
    BY TransformedLine
  <2>. HIDE DEF new
  <2>. QED
    BY <2>1, <2>2
<1>3. /\ DOMAIN BatchesOf(Line(j)') = DOMAIN (Line(j)')
      /\ \A i \in DOMAIN (Line(j)') : BatchesOf(Line(j)')[i] = Line(j)'[i].batch
      /\ DOMAIN BatchesOf(Line(j)) = DOMAIN Line(j)
      /\ \A i \in DOMAIN Line(j) : BatchesOf(Line(j))[i] = Line(j)[i].batch
  BY DEF BatchesOf
<1>4. Len(Line(j)) + 1 \notin DOMAIN Line(j)
  BY <1>1
<1>. QED
  BY <1>2, <1>3, <1>4, PipeFacts DEF Joins

LEMMA LineLeaves ==
    ASSUME TypeOK, NEW j \in Jobs, OnFinished(j)
    PROVE  /\ Leaves(Pipe, Pipe', <<"line", j>>)
           /\ Pipe[<<"line", j>>][1] = Head(port[j]).batch
           /\ \A k \in Jobs : k # j => Pipe'[<<"line", k>>] = Pipe[<<"line", k>>]
<1>1. /\ \A i \in DOMAIN (Line(j)') :
            i + 1 \in DOMAIN Line(j) /\ Line(j)'[i] = Line(j)[i + 1]
      /\ 1 \in DOMAIN Line(j) /\ Line(j)[1] = Head(port[j])
      /\ Line(j)' \in Seq(WorkItems)
      /\ \A k \in Jobs : k # j => Line(k)' = Line(k)
  BY ListenedLine
<1>2. \A i \in DOMAIN (Line(j)') : i \in Nat \ {0}
  BY <1>1
<1>3. /\ DOMAIN BatchesOf(Line(j)') = DOMAIN (Line(j)')
      /\ \A i \in DOMAIN (Line(j)') : BatchesOf(Line(j)')[i] = Line(j)'[i].batch
      /\ DOMAIN BatchesOf(Line(j)) = DOMAIN Line(j)
      /\ \A i \in DOMAIN Line(j) : BatchesOf(Line(j))[i] = Line(j)[i].batch
  BY DEF BatchesOf
<1>4. /\ Pipe[<<"line", j>>] = BatchesOf(Line(j))
      /\ Pipe'[<<"line", j>>] = BatchesOf(Line(j)')
      /\ \A k \in Jobs : k # j => Pipe'[<<"line", k>>] = Pipe[<<"line", k>>]
  BY <1>1, PipeFacts
<1>5. Leaves(Pipe, Pipe', <<"line", j>>)
  <2>1. /\ 1 \in DOMAIN BatchesOf(Line(j))
        /\ \A i \in DOMAIN BatchesOf(Line(j)') :
              /\ i \in Nat \ {0} /\ i + 1 \in DOMAIN BatchesOf(Line(j))
              /\ BatchesOf(Line(j)')[i] = BatchesOf(Line(j))[i + 1]
    BY <1>1, <1>2, <1>3
  <2>. QED
    BY <1>4, <2>1 DEF Leaves
<1>6. Pipe[<<"line", j>>][1] = Head(port[j]).batch
  BY <1>1, <1>3, <1>4
<1>. QED
  BY <1>4, <1>5, <1>6

\* A sequence of batches that one has joined, and one whose first has left.
LEMMA SeqJoins ==
    ASSUME NEW s \in Seq(Batches), NEW b \in Batches
    PROVE  /\ Len(s) + 1 \notin DOMAIN s
           /\ DOMAIN Append(s, b) = DOMAIN s \cup {Len(s) + 1}
           /\ Append(s, b)[Len(s) + 1] = b
           /\ \A i \in DOMAIN s : Append(s, b)[i] = s[i]
<1>1. DOMAIN s = 1 .. Len(s) /\ Len(s) \in Nat
  OBVIOUS
<1>. QED
  BY <1>1, AppendFacts

LEMMA SeqLeaves ==
    ASSUME NEW s \in Seq(Batches), s # <<>>
    PROVE  /\ 1 \in DOMAIN s /\ Head(s) = s[1] /\ Head(s) \in Batches
           /\ \A i \in DOMAIN Tail(s) :
                i \in Nat \ {0} /\ i + 1 \in DOMAIN s /\ Tail(s)[i] = s[i + 1]
<1>1. \A i \in DOMAIN Tail(s) : i \in Nat \ {0}
  <2>1. Tail(s) \in Seq(Batches)
    BY HeadTailProperties
  <2>. QED
    BY <2>1
<1>. QED
  BY <1>1, TailFacts

LEMMA OnceAssign ==
    ASSUME IInv, OnceInv, Assign PROVE OnceInv'
<1>1. /\ main = "run" /\ pulled.processed < N
      /\ Transform(turn, NextBatch)
      /\ pulled' = [pulled EXCEPT !.processed =
                        pulled.processed + Cardinality(NextBatch)]
      /\ UNCHANGED <<main, out, gathered, pc, hand, attempt, port, rows>>
  BY DEF Assign, results, threads
<1>2. PICK j \in Workers : j = turn
  BY DEF TypeOK, IInv
<1>3. j \in Jobs /\ j # Inserter
  BY PipeFacts
<1>. DEFINE p == pulled.processed
            q == pulled'.processed
<1>4. /\ NextBatch \in Batches
      /\ p \in Nat /\ q \in Nat /\ p <= q
      /\ \A m \in NextBatch : m \in 1 .. q /\ m \notin 1 .. p
  <2>1. q = p + Cardinality(NextBatch) /\ p \in Nat
    BY <1>1 DEF IInv, TypeOK
  <2>2. IsFiniteSet(NextBatch) /\ Cardinality(NextBatch) \in Nat
    <3>1. IsFiniteSet(Msgs)
      BY ConstantsAssumption, FS_Interval DEF Msgs
    <3>2. IsFiniteSet(NextBatch)
      BY <3>1, FS_Subset DEF NextBatch
    <3>. QED
      BY <3>2, FS_CardinalityType
  <2>3. \A m \in NextBatch : m \in 1 .. q
    BY <1>1, <2>1, NextBatchFacts DEF IInv
  <2>4. \A m \in NextBatch : m \notin 1 .. p
    BY <2>1 DEF NextBatch, Msgs
  <2>. QED
    BY <1>1, <2>1, <2>2, <2>3, <2>4, NextBatchFacts DEF IInv
<1>. HIDE DEF p, q
<1>. DEFINE b == <<"line", j>>
            n == Len(Line(j)) + 1
<1>5. b \in Pipes /\ b # InsertLine
  BY <1>3, PipeFacts
<1>6. Joins(Pipe, Pipe', b, n, NextBatch)
  BY <1>1, <1>2, <1>3, <1>4, LineJoins DEF IInv
<1>7. \A k \in Pipes : k # b => Pipe'[k] = Pipe[k]
  <2>1. \A k \in Jobs : k # j => Pipe'[<<"line", k>>] = Pipe[<<"line", k>>]
    BY <1>1, <1>2, <1>3, <1>4, LineJoins DEF IInv
  <2>. QED
    BY <1>1, <2>1, PipeFacts
<1>8. /\ \A k \in Pipes : \A i \in DOMAIN Pipe[k] : Pipe[k][i] \subseteq 1 .. p
      /\ Stored \subseteq 1 .. p
  BY <1>1 DEF OnceInv, Arrived, p
<1>. HIDE DEF b, n
<1>9. Apart(Pipe)'
  <2>1. \A k \in Pipes : \A i \in DOMAIN Pipe[k] : Pipe[k][i] \cap NextBatch = {}
    BY <1>4, <1>8
  <2>. QED
    BY <1>5, <1>6, <1>7, <2>1, PipeFacts, ApartJoined DEF OnceInv
<1>10. \A k \in Pipes : \A i \in DOMAIN (Pipe'[k]) :
            \/ i \in DOMAIN Pipe[k] /\ Pipe'[k][i] = Pipe[k][i]
            \/ k = b /\ Pipe'[k][i] = NextBatch
  BY <1>6, <1>7 DEF Joins
<1>11. Arrived'
  <2>1. \A m : m \in 1 .. p => m \in 1 .. q
    BY <1>4
  <2>2. \A k \in Pipes : \A i \in DOMAIN (Pipe'[k]) : Pipe'[k][i] \subseteq 1 .. q
    BY <1>4, <1>8, <1>10, <2>1
  <2>3. Stored' \subseteq 1 .. q
    BY <1>1, <1>8, <2>1 DEF Stored
  <2>. QED
    BY <2>2, <2>3 DEF Arrived, q
<1>12. Unwritten'
  <2>1. NextBatch \cap Stored = {} /\ Stored' = Stored
    BY <1>1, <1>4, <1>8 DEF Stored
  <2>2. \A k \in Pipes \ {InsertLine} : \A i \in DOMAIN (Pipe'[k]) : Pipe'[k][i] \cap Stored = {}
    BY <1>10, <2>1 DEF OnceInv, Unwritten
  <2>3. input'[Inserter] = input[Inserter]
    BY <1>1, <1>2, <1>3, <1>4, TransformedLine, PipeFacts DEF IInv
  <2>. QED
    BY <1>1, <2>1, <2>2, <2>3 DEF OnceInv, Unwritten
<1>13. AttemptLeft' /\ WrittenAtMost'
  BY <1>1 DEF OnceInv, AttemptLeft, WrittenAtMost
<1>. QED
  BY <1>9, <1>11, <1>12, <1>13 DEF OnceInv

\* Steps that move the first batch of a pipe to another one and write nothing.
LEMMA OnceMoved ==
    ASSUME OnceInv, NEW a \in Pipes, NEW b \in Pipes, a # b, NEW n,
           Leaves(Pipe, Pipe', a), Joins(Pipe, Pipe', b, n, Pipe[a][1]),
           \A k \in Pipes : k # a /\ k # b => Pipe'[k] = Pipe[k],
           a # InsertLine, UNCHANGED <<main, hand, pc, attempt, rows>>,
           pulled'.processed = pulled.processed,
           \/ input'[Inserter] = input[Inserter]
           \/ /\ b = InsertLine
              /\ \A i \in DOMAIN (input'[Inserter]) :
                    \/ i \in DOMAIN input[Inserter] /\ input'[Inserter][i] = input[Inserter][i]
                    \/ input'[Inserter][i].batch = Pipe[a][1]
    PROVE  OnceInv'
<1>1. /\ Apart(Pipe)'
      /\ \A k \in Pipes : k # b => \A i \in DOMAIN (Pipe'[k]) :
            \E m \in DOMAIN Pipe[k] : Pipe'[k][i] = Pipe[k][m]
      /\ \A i \in DOMAIN (Pipe'[b]) : \/ Pipe'[b][i] = Pipe[a][1]
                                    \/ \E m \in DOMAIN Pipe[b] : Pipe'[b][i] = Pipe[b][m]
  <2>. HIDE DEF Pipe
  <2>1. DOMAIN Pipe = Pipes /\ DOMAIN (Pipe') = Pipes /\ Apart(Pipe)
    BY PipeFacts DEF OnceInv
  <2>2. PICK F, G : F = Pipe /\ G = Pipe'
    OBVIOUS
  <2>3. /\ DOMAIN F = Pipes /\ DOMAIN G = Pipes /\ Apart(F)
        /\ Leaves(F, G, a) /\ Joins(F, G, b, n, F[a][1])
        /\ \A k \in Pipes : k # a /\ k # b => G[k] = F[k]
    BY <2>1, <2>2
  <2>4. /\ Apart(G)
        /\ \A k \in Pipes : k # b => \A i \in DOMAIN G[k] :
              \E m \in DOMAIN F[k] : G[k][i] = F[k][m]
        /\ \A i \in DOMAIN G[b] : \/ G[b][i] = F[a][1]
                                   \/ \E m \in DOMAIN F[b] : G[b][i] = F[b][m]
    BY <2>3, ApartMoved, Z3
  <2>5. Apart(Pipe)'
    BY <2>2, <2>4 DEF Apart
  <2>. QED
    BY <2>2, <2>4, <2>5
<1>2. 1 \in DOMAIN Pipe[a] /\ Stored' = Stored
  BY DEF Leaves, Stored
<1>3. Apart(Pipe)'
  BY <1>1
<1>4. Arrived'
  <2> SUFFICES ASSUME main # "terminated"
               PROVE  /\ \A k \in Pipes : \A i \in DOMAIN (Pipe'[k]) :
                            Pipe'[k][i] \subseteq 1 .. pulled.processed
                      /\ Stored \subseteq 1 .. pulled.processed
    BY <1>2 DEF Arrived
  <2>1. /\ \A k \in Pipes : \A i \in DOMAIN Pipe[k] : Pipe[k][i] \subseteq 1 .. pulled.processed
        /\ Stored \subseteq 1 .. pulled.processed
    BY DEF OnceInv, Arrived
  <2>2. ASSUME NEW k \in Pipes, NEW i \in DOMAIN (Pipe'[k])
        PROVE  Pipe'[k][i] \subseteq 1 .. pulled.processed
    <3>1. Pipe'[k][i] = Pipe[a][1] \/ \E m \in DOMAIN Pipe[k] : Pipe'[k][i] = Pipe[k][m]
      BY <1>1
    <3>. QED
      BY <1>2, <2>1, <3>1
  <2>. QED
    BY <2>1, <2>2
<1>5. Unwritten'
  <2>1. Pipe[a][1] \cap Stored = {}
    BY <1>2 DEF OnceInv, Unwritten
  <2>2. ASSUME NEW k \in Pipes \ {InsertLine}, NEW i \in DOMAIN (Pipe'[k])
        PROVE  Pipe'[k][i] \cap Stored = {}
    <3>1. Pipe'[k][i] = Pipe[a][1] \/ \E m \in DOMAIN Pipe[k] : Pipe'[k][i] = Pipe[k][m]
      BY <1>1
    <3>. QED
      BY <2>1, <3>1 DEF OnceInv, Unwritten
  <2>3. \A i \in DOMAIN (input'[Inserter]) : input'[Inserter][i].batch \cap Stored = {}
    BY <2>1 DEF OnceInv, Unwritten
  <2>. QED
    BY <1>2, <2>2, <2>3 DEF OnceInv, Unwritten
<1>6. AttemptLeft' /\ WrittenAtMost'
  BY DEF OnceInv, AttemptLeft, WrittenAtMost
<1>. QED
  BY <1>3, <1>4, <1>5, <1>6 DEF OnceInv

LEMMA OnceForward ==
    ASSUME IInv, OnceInv, Forward PROVE OnceInv'
<1>. DEFINE a == <<"gathered", 0>>
            batch == Head(gathered)
            n == Len(Line(Inserter)) + 1
<1>1. /\ gathered # <<>> /\ Transform(Inserter, batch) /\ gathered' = Tail(gathered)
      /\ UNCHANGED <<main, pulled, out, pc, hand, attempt, port, rows>>
  BY DEF Forward, threads
<1>2. a \in Pipes /\ InsertLine \in Pipes /\ a # InsertLine /\ Inserter \in Jobs
  BY PipeFacts
<1>3. gathered \in Seq(Batches)
  BY DEF IInv, TypeOK
<1>4. /\ 1 \in DOMAIN gathered /\ batch = gathered[1] /\ batch \in Batches
      /\ \A i \in DOMAIN Tail(gathered) :
            /\ i \in Nat \ {0} /\ i + 1 \in DOMAIN gathered
            /\ Tail(gathered)[i] = gathered[i + 1]
  BY <1>1, <1>3, SeqLeaves
<1>5. Leaves(Pipe, Pipe', a) /\ Pipe[a][1] = batch
  BY <1>1, <1>4, PipeFacts DEF Leaves
<1>. HIDE DEF batch
<1>6. Joins(Pipe, Pipe', InsertLine, n, batch)
  BY <1>1, <1>2, <1>4, LineJoins, PipeFacts DEF IInv
<1>7. \A k \in Pipes : k # a /\ k # InsertLine => Pipe'[k] = Pipe[k]
  BY <1>1, <1>2, <1>4, LineJoins, PipeFacts DEF IInv
<1>8. \A i \in DOMAIN (input'[Inserter]) :
        \/ i \in DOMAIN input[Inserter] /\ input'[Inserter][i] = input[Inserter][i]
        \/ input'[Inserter][i].batch = batch
  <2>1. /\ input'[Inserter] = Append(input[Inserter], [jobId |-> issued[Inserter], batch |-> batch])
        /\ [jobId |-> issued[Inserter], batch |-> batch] \in WorkItems
    BY <1>1, <1>2, <1>4, TransformedLine DEF IInv
  <2>2. input[Inserter] \in Seq(WorkItems)
    BY <1>2, LineType DEF IInv
  <2>3. PICK new \in WorkItems : new.batch = batch /\ input'[Inserter] = Append(input[Inserter], new)
    BY <2>1
  <2>. QED
    BY <2>2, <2>3, AppendFacts
<1>. HIDE DEF a, n
<1>. QED
  BY <1>1, <1>2, <1>5, <1>6, <1>7, <1>8, OnceMoved

LEMMA OnceGather ==
    ASSUME IInv, OnceInv, NEW w \in Workers, Gather(w) PROVE OnceInv'
<1>. DEFINE a == <<"out", w>>
            b == <<"gathered", 0>>
            n == Len(gathered) + 1
<1>1. /\ out[w] # <<>>
      /\ gathered' = Append(gathered, Head(out[w]))
      /\ out' = [out EXCEPT ![w] = Tail(out[w])]
      /\ pulled'.processed = pulled.processed
      /\ UNCHANGED <<main, input, pc, hand, attempt, port, rows>>
  BY DEF Gather, threads, IInv, TypeOK
<1>2. a \in Pipes /\ b \in Pipes /\ a # b /\ a # InsertLine
  BY PipeFacts
<1>3. gathered \in Seq(Batches) /\ out[w] \in Seq(Batches)
  BY DEF IInv, TypeOK
<1>4. /\ 1 \in DOMAIN out[w] /\ Head(out[w]) = out[w][1] /\ Head(out[w]) \in Batches
      /\ \A i \in DOMAIN Tail(out[w]) :
            i \in Nat \ {0} /\ i + 1 \in DOMAIN out[w] /\ Tail(out[w])[i] = out[w][i + 1]
  BY <1>1, <1>3, SeqLeaves
<1>5. out'[w] = Tail(out[w]) /\ \A v \in Workers : v # w => out'[v] = out[v]
  BY <1>1 DEF IInv, TypeOK
<1>6. Leaves(Pipe, Pipe', a) /\ Pipe[a][1] = Head(out[w])
  BY <1>4, <1>5, PipeFacts DEF Leaves
<1>7. Joins(Pipe, Pipe', b, n, Head(out[w]))
  BY <1>1, <1>3, <1>4, SeqJoins, PipeFacts DEF Joins
<1>8. \A k \in Pipes : k # a /\ k # b => Pipe'[k] = Pipe[k]
  <2>1. \A j \in Jobs : Line(j)' = Line(j)
    BY <1>1 DEF Line
  <2>. QED
    BY <1>1, <1>5, <2>1, PipeFacts
<1>. HIDE DEF a, b, n
<1>. QED
  BY <1>1, <1>2, <1>6, <1>7, <1>8, OnceMoved

LEMMA OnceFinished ==
    ASSUME IInv, OnceInv, NEW j \in Jobs, OnFinished(j) PROVE OnceInv'
<1>. DEFINE a == <<"line", j>>
            batch == Head(port[j]).batch
<1>1. /\ out' = [w \in Workers |->
                    IF w = j THEN Append(out[w], Head(port[w]).batch) ELSE out[w]]
      /\ UNCHANGED <<main, pulled, input, gathered, pc, hand, attempt, rows>>
  BY DEF OnFinished
<1>2. /\ Leaves(Pipe, Pipe', a) /\ Pipe[a][1] = batch
      /\ \A k \in Jobs : k # j => Pipe'[<<"line", k>>] = Pipe[<<"line", k>>]
  BY LineLeaves DEF IInv
<1>3. CASE j \in Workers
  <2>. DEFINE b == <<"out", j>>
              n == Len(out[j]) + 1
  <2>1. a \in Pipes /\ b \in Pipes /\ a # b /\ a # InsertLine
    BY <1>3, PipeFacts
  <2>2. batch \in Batches /\ out[j] \in Seq(Batches)
    BY <1>3, ListenedLine DEF WorkItems, IInv, TypeOK
  <2>3. /\ \A v \in Workers : v # j => out'[v] = out[v]
        /\ out'[j] = Append(out[j], batch)
    BY <1>1, <1>3
  <2>. HIDE DEF batch
  <2>4. Joins(Pipe, Pipe', b, n, batch)
    BY <1>3, <2>2, <2>3, SeqJoins, PipeFacts DEF Joins
  <2>5. \A k \in Pipes : k # a /\ k # b => Pipe'[k] = Pipe[k]
    <3>1. ASSUME NEW k \in Jobs, k # j
          PROVE  Pipe'[<<"line", k>>] = Pipe[<<"line", k>>]
      BY <1>2, <3>1
    <3>2. ASSUME NEW w \in Workers, w # j
          PROVE  Pipe'[<<"out", w>>] = Pipe[<<"out", w>>]
      BY <2>3, <3>2, PipeFacts
    <3>3. Pipe'[<<"gathered", 0>>] = Pipe[<<"gathered", 0>>]
      BY <1>1, PipeFacts
    <3>. QED
      BY <3>1, <3>2, <3>3, PipeFacts
  <2>. HIDE DEF a, b, n
  <2>. QED
    BY <1>1, <1>2, <2>1, <2>4, <2>5, OnceMoved
<1>4. CASE j = Inserter
  <2>1. /\ a = InsertLine /\ a \in Pipes
        /\ \A w \in Workers : out'[w] = out[w]
    BY <1>1, <1>4, PipeFacts
  <2>2. \A k \in Pipes : k # a => Pipe'[k] = Pipe[k]
    BY <1>1, <1>2, <1>4, <2>1, PipeFacts
  <2>. HIDE DEF a, batch
  <2>3. /\ Apart(Pipe')
        /\ \A k \in Pipes : \A i \in DOMAIN (Pipe'[k]) :
                \E n \in DOMAIN Pipe[k] : Pipe'[k][i] = Pipe[k][n]
    BY <1>2, <2>1, <2>2, PipeFacts, ApartLeft DEF OnceInv
  <2>4. Apart(Pipe)' /\ Arrived'
    BY <1>1, <2>3 DEF OnceInv, Arrived, Apart, Stored
  <2>5. Unwritten'
    BY <1>1, <2>1, <2>2 DEF OnceInv, Unwritten, Stored
  <2>6. AttemptLeft' /\ WrittenAtMost'
    BY <1>1 DEF OnceInv, AttemptLeft, WrittenAtMost
  <2>. QED
    BY <2>4, <2>5, <2>6 DEF OnceInv
<1>. QED
  BY <1>3, <1>4 DEF Jobs

LEMMA OnceInit ==
    ASSUME Init
    PROVE  OnceInv
<1>1. \A j \in Jobs : Line(j) = <<>>
  <2>1. \A j \in Jobs : port[j] = <<>> /\ hand[j] = <<>> /\ input[j] = <<>>
    BY DEF Init
  <2>2. (<<>> \o <<>>) \o <<>> = <<>>
    OBVIOUS
  <2>. QED
    BY <2>1, <2>2 DEF Line
<1>2. DOMAIN <<>> = {}
  OBVIOUS
<1>3. \A k \in Pipes : DOMAIN Pipe[k] = {}
  <2>1. \A j \in Jobs : DOMAIN BatchesOf(Line(j)) = {}
    BY <1>1, <1>2 DEF BatchesOf
  <2>2. \A w \in Workers : out[w] = <<>>
    BY DEF Init
  <2>3. gathered = <<>>
    BY DEF Init
  <2>. QED
    BY <1>2, <2>1, <2>2, <2>3, PipeFacts
<1>4. Stored = {} /\ \A m \in Msgs : rows[m] = 0
  BY DEF Init, Stored
<1>5. input[Inserter] = <<>> /\ \A j \in Jobs : pc[j] = "new"
  BY PipeFacts DEF Init
<1>6. Apart(Pipe)
  BY <1>3, PipeFacts DEF Apart
<1>7. Arrived /\ Unwritten
  BY <1>2, <1>3, <1>4, <1>5, PipeFacts DEF Arrived, Unwritten
<1>8. AttemptLeft /\ WrittenAtMost
  BY <1>4, <1>5, ConstantsAssumption DEF AttemptLeft, WrittenAtMost
<1>. QED
  BY <1>6, <1>7, <1>8 DEF OnceInv

LEMMA OnceKeeps ==
    ASSUME IInv, OnceInv, [Next]_vars
    PROVE  OnceInv'
<1>1. CASE UNCHANGED vars
  BY <1>1, OnceQuiet DEF vars, results, threads
<1>2. CASE Queue \/ Cleanup
  BY <1>2, OnceControl
<1>3. CASE MainStep
  BY <1>3, OnceAssign, OnceForward, OnceGather, OnceControl DEF MainStep
<1>4. ASSUME NEW j \in Jobs, WorkerStep(j)
      PROVE  OnceInv'
  BY <1>4, OnceControl, OnceTake, OnceExecute DEF WorkerStep
<1>5. ASSUME NEW j \in Jobs, OnFinished(j) \/ OnError(j)
      PROVE  OnceInv'
  BY <1>5, OnceFinished, OnceControl
<1>. QED
  BY <1>1, <1>2, <1>3, <1>4, <1>5 DEF Next, Finished

\* No two batches on their way share a message, nothing is stored before the
\* insert worker has it in its hands, and there it has a row an attempt at most.
THEOREM OncePlaced == Spec => []OnceInv
<1>1. Init => OnceInv
  BY OnceInit
<1>2. IInv /\ OnceInv /\ [Next]_vars => OnceInv'
  BY OnceKeeps
<1>. QED
  BY <1>1, <1>2, Invariance, PTL DEF Spec

\* However many workers share the batches and whichever attempts fail after
\* the database has taken one, a message has a row an attempt at most.
THEOREM WrittenOncePerAttempt == Spec => []WrittenAtMost
<1>1. OnceInv => WrittenAtMost
  BY DEF OnceInv
<1>. QED
  BY <1>1, OncePlaced, PTL
-----------------------------------------------------------------------------
(* The queue implements the promise of its level *)

\* Where the refinement mapping takes a step that stores or pulls nothing.
LEMMA PromiseKept ==
    ASSUME UNCHANGED <<pulled, rows>>,
           main' = "terminated" <=> main = "terminated",
           main' \in {"returned", "terminated", "diedLate"}
                <=> main \in {"returned", "terminated", "diedLate"}
    PROVE  UNCHANGED Level!transferVars
<1>1. Stored' = Stored
  BY DEF Stored
<1>. QED
  BY <1>1 DEF Level!transferVars

LEMMA EnterStep ==
    ASSUME IInv, Assign
    PROVE  Level!LevelNext
<1>1. /\ main = "run" /\ main' = main /\ pulled.processed < N
      /\ pulled' = [pulled EXCEPT !.processed =
                        pulled.processed + Cardinality(NextBatch)]
      /\ rows' = rows
  BY DEF Assign, threads
<1>2. /\ NextBatch \in Batches
      /\ pulled.processed + Cardinality(NextBatch) \in 0 .. N
      /\ \A m \in NextBatch : m \in 1 .. pulled.processed + Cardinality(NextBatch)
  BY <1>1, NextBatchFacts DEF IInv
<1>. DEFINE p == pulled.processed
            q == pulled'.processed
<1>3. p \in Nat /\ q = p + Cardinality(NextBatch) /\ q \in 0 .. N
  BY <1>1, <1>2 DEF IInv, TypeOK
<1>4. PICK m \in NextBatch : TRUE
  BY <1>2 DEF Batches
<1>5. m > p /\ m \in 1 .. q
  BY <1>2, <1>3, <1>4 DEF NextBatch, Msgs
<1>. HIDE DEF p, q
<1>6. q \in p + 1 .. N
  BY <1>3, <1>5
<1>7. Stored' = Stored
  BY <1>1 DEF Stored
<1>. QED
  BY <1>1, <1>6, <1>7 DEF p, q, Level!LevelNext, Level!Enter

LEMMA StoreStep ==
    ASSUME IInv, OnceInv, NEW j \in Jobs, Succeed(j) \/ Fail(j)
    PROVE  [Level!LevelNext]_Level!transferVars
<1>1. /\ Up /\ pc[j] = "exec" /\ rows' \in {rows, Written(j)}
      /\ UNCHANGED <<main, pulled>>
  BY DEF Succeed, Fail, mainThread
<1>2. rows \in [Msgs -> Nat]
  BY DEF IInv, TypeOK
<1>3. Stored' \subseteq Msgs /\ Stored \subseteq Stored'
  <2>1. \A m \in Msgs : rows'[m] \in {rows[m], rows[m] + 1}
    BY <1>1 DEF Written
  <2>. QED
    BY <1>2, <2>1 DEF Stored
<1>4. CASE Stored' = Stored
  BY <1>1, <1>4 DEF Level!transferVars
<1>5. CASE Stored' # Stored
  <2>1. j = Inserter /\ rows' = Written(Inserter)
    <3>1. j # Inserter => rows' = rows
      BY <1>1, <1>2 DEF Written
    <3>2. rows' # rows
      BY <1>5 DEF Stored
    <3>. QED
      BY <1>1, <3>1, <3>2
  <2>2. main = "run"
    BY <1>1, <1>3, <1>5, AllProcessed DEF Up, Stored, IInv, ClosedInOrder
  <2>3. Stored' \subseteq 1 .. pulled.processed
    <3>1. Stored \subseteq 1 .. pulled.processed
      BY <2>2 DEF OnceInv, Arrived
    <3>2. Head(hand[Inserter]).batch \subseteq 1 .. pulled.processed
      <4>1. /\ Head(hand[Inserter]) = hand[Inserter][1]
            /\ 1 \in DOMAIN hand[Inserter]
        BY <1>1, <2>1 DEF IInv, HandOK, TypeOK
      <4>2. /\ Len(port[Inserter]) + 1 \in DOMAIN Line(Inserter)
            /\ Line(Inserter)[Len(port[Inserter]) + 1] = hand[Inserter][1]
        BY <2>1, <4>1, LineParts DEF IInv
      <4>3. PICK n \in DOMAIN Pipe[InsertLine] :
                Pipe[InsertLine][n] = hand[Inserter][1].batch
        <5>1. PICK i \in DOMAIN Line(Inserter) :
                    Line(Inserter)[i] = hand[Inserter][1]
          BY <4>2
        <5>2. /\ i \in DOMAIN BatchesOf(Line(Inserter))
              /\ BatchesOf(Line(Inserter))[i] = hand[Inserter][1].batch
          BY <5>1 DEF BatchesOf
        <5>. QED
          BY <5>2, PipeFacts
      <4>. QED
        BY <2>2, <4>1, <4>3, PipeFacts DEF OnceInv, Arrived
    <3>. QED
      BY <1>2, <2>1, <3>1, <3>2 DEF Stored, Written
  <2>. DEFINE S == Stored' \ Stored
  <2>5. S # {} /\ Stored' = Stored \cup S
    BY <1>3, <1>5
  <2>4. S \in SUBSET ((1 .. pulled.processed) \ Stored)
    BY <2>3
  <2>. HIDE DEF S
  <2>. QED
    BY <1>1, <2>2, <2>5, <2>4 DEF Level!LevelNext, Level!Store
<1>. QED
  BY <1>4, <1>5

LEMMA ReturnStep ==
    ASSUME IInv, Return
    PROVE  Level!LevelNext
<1>1. main = "run" /\ main' = "returned" /\ UNCHANGED <<pulled, rows>>
  BY DEF Return, threads
<1>2. pulled.processed = N /\ Stored = Msgs
  BY <1>1, AllProcessed DEF Return, NoPendingTask
<1>3. Stored' = Stored
  BY <1>1 DEF Stored
<1>. QED
  BY <1>1, <1>2, <1>3 DEF Level!LevelNext, Level!Return, Msgs

LEMMA CleanupStep ==
    ASSUME IInv, Cleanup
    PROVE  UNCHANGED Level!transferVars
<1>1. main = "returned" /\ main' = "terminated" /\ rows' = rows
  BY DEF Cleanup
<1>. QED
  BY <1>1, AllProcessed DEF Level!transferVars, Stored, IInv, ClosedInOrder

LEMMA PromiseStep ==
    ASSUME IInv, OnceInv, [Next]_vars
    PROVE  [Level!LevelNext]_Level!transferVars
<1>1. CASE UNCHANGED vars
  BY <1>1, PromiseKept DEF vars
<1>2. CASE Queue
  BY <1>2, PromiseKept DEF Queue
<1>3. CASE Cleanup
  BY <1>3, CleanupStep
<1>4. CASE Forward \/ CloseInsertInput
  BY <1>4, PromiseKept DEF Forward, CloseInsertInput, threads
<1>5. ASSUME NEW w \in Workers, CloseInput(w) \/ CloseOutput(w)
      PROVE  UNCHANGED Level!transferVars
  BY <1>5, PromiseKept DEF CloseInput, CloseOutput, threads
<1>6. ASSUME NEW w \in Workers, Gather(w)
      PROVE  UNCHANGED Level!transferVars
  <2>1. pulled'.processed = pulled.processed /\ main' = main /\ rows' = rows
    BY <1>6 DEF Gather, threads, IInv, TypeOK
  <2>. QED
    BY <2>1 DEF Level!transferVars, Stored
<1>7. ASSUME NEW j \in Jobs,
             \/ RunInit(j) \/ Take(j) \/ EndOfInput(j) \/ Teardown(j)
             \/ OnFinished(j)
      PROVE  UNCHANGED Level!transferVars
  BY <1>7, PromiseKept
     DEF RunInit, Take, EndOfInput, Teardown, OnFinished, mainThread
<1>8. ASSUME NEW j \in Jobs, OnError(j)
      PROVE  UNCHANGED Level!transferVars
  <2>1. /\ main \in {"run", "returned"} /\ UNCHANGED <<pulled, rows>>
        /\ main' = IF main = "run" THEN "dead" ELSE "diedLate"
    BY <1>8 DEF OnError, threads, Up
  <2>. QED
    BY <2>1, PromiseKept
<1>9. ASSUME NEW j \in Jobs, WorkerStep(j)
      PROVE  [Level!LevelNext]_Level!transferVars
  BY <1>7, <1>9, StoreStep DEF WorkerStep
<1>10. CASE MainStep
  BY <1>4, <1>5, <1>6, <1>10, EnterStep, ReturnStep DEF MainStep
<1>. QED
  BY <1>1, <1>2, <1>3, <1>7, <1>8, <1>9, <1>10 DEF Next, Finished

\* queue() keeps its level's promise: messages enter in the input's order,
\* only what entered is stored, nothing is lost while the process lives, and
\* it returns after the last message is in the database.
THEOREM Implements == Spec => KeepsPromise
<1>1. Init => Level!LevelInit
  <2> SUFFICES ASSUME Init PROVE Level!LevelInit
    OBVIOUS
  <2>1. main = "idle" /\ pulled.processed = 0 /\ Stored = {}
    BY DEF Init, Stored
  <2>. QED
    BY <2>1 DEF Level!LevelInit
<1>2. IInv /\ OnceInv /\ [Next]_vars => [Level!LevelNext]_Level!transferVars
  BY PromiseStep
<1>. QED
  BY <1>1, <1>2, Invariance, OncePlaced, PTL DEF Spec, KeepsPromise, Level!LevelSpec
=============================================================================
