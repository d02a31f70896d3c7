---------------------------- MODULE ActorProofs ----------------------------
(***************************************************************************)
(* Invariants of Actor for any sets of actors, clients and events, and any *)
(* signals.                                                                *)
(***************************************************************************)
EXTENDS Actor, SequenceTheorems, FiniteSetTheorems, TLAPS

-----------------------------------------------------------------------------
\* Sequences in which something is inserted.

Posted == Events \union {EmptyEvent}

Occurs(s, e) == \E i \in DOMAIN s : s[i] = e
Once(s, e) == \A i, j \in DOMAIN s : s[i] = e /\ s[j] = e => i = j
Ordered(s, e, f) == \E i, j \in DOMAIN s : i < j /\ s[i] = e /\ s[j] = f

\* t is s with x put in at place k.
Inserted(s, k, x, t) ==
  /\ Len(t) = Len(s) + 1 /\ k \in 1..Len(t) /\ t[k] = x
  /\ \A i \in 1..Len(s) : s[i] = t[IF i < k THEN i ELSE i + 1]

\* Whatever else is in the sequence stays there, as often and in the same order.
LEMMA InsertedKeeps ==
  ASSUME NEW s \in Seq(Posted), NEW t \in Seq(Posted), NEW k, NEW x, Inserted(s, k, x, t),
         NEW e, e # x
  PROVE  /\ Occurs(t, e) <=> Occurs(s, e)
         /\ Once(t, e) <=> Once(s, e)
         /\ \A f : f # x => (Ordered(t, e, f) <=> Ordered(s, e, f))
<1> DEFINE up(i) == IF i < k THEN i ELSE i + 1
           down(i) == IF i < k THEN i ELSE i - 1
<1>1. /\ Len(s) \in Nat /\ Len(t) = Len(s) + 1 /\ k \in 1..Len(t) /\ t[k] = x
      /\ DOMAIN s = 1..Len(s) /\ DOMAIN t = 1..Len(t)
  BY LenProperties DEF Inserted
<1>2. \A i \in DOMAIN s : up(i) \in DOMAIN t /\ s[i] = t[up(i)]
  BY <1>1 DEF Inserted
<1>3. \A i \in DOMAIN t : i # k => down(i) \in DOMAIN s /\ t[i] = s[down(i)]
  <2> SUFFICES ASSUME NEW i \in DOMAIN t, i # k
               PROVE  down(i) \in DOMAIN s /\ t[i] = s[down(i)]
    OBVIOUS
  <2>1. down(i) \in 1..Len(s) /\ up(down(i)) = i
    BY <1>1
  <2>. QED
    BY <1>1, <1>2, <2>1
<1>4. \A i, j \in DOMAIN s : i < j <=> up(i) < up(j)
  BY <1>1
<1>5. \A i, j \in DOMAIN t : i # k /\ j # k => (i < j <=> down(i) < down(j))
  BY <1>1
<1>6. \A i \in DOMAIN t : t[i] # x => i # k
  BY <1>1
<1>7. \A i, j \in DOMAIN s : up(i) = up(j) => i = j
  BY <1>1
<1>8. \A i, j \in DOMAIN t : i # k /\ j # k /\ down(i) = down(j) => i = j
  BY <1>1
<1> HIDE DEF up, down
<1>9. Occurs(t, e) <=> Occurs(s, e)
  BY <1>2, <1>3, <1>6 DEF Occurs
<1>10. Once(t, e) <=> Once(s, e)
  BY <1>2, <1>3, <1>6, <1>7, <1>8 DEF Once
<1>11. ASSUME NEW f, f # x PROVE Ordered(t, e, f) <=> Ordered(s, e, f)
  <2>1. ASSUME Ordered(t, e, f) PROVE Ordered(s, e, f)
    <3>1. PICK i \in DOMAIN t, j \in DOMAIN t : i < j /\ t[i] = e /\ t[j] = f
      BY <2>1 DEF Ordered
    <3>2. i # k /\ j # k
      BY <1>6, <1>11, <3>1
    <3>. QED
      BY <1>3, <1>5, <3>1, <3>2 DEF Ordered
  <2>2. ASSUME Ordered(s, e, f) PROVE Ordered(t, e, f)
    <3>1. PICK i \in DOMAIN s, j \in DOMAIN s : i < j /\ s[i] = e /\ s[j] = f
      BY <2>2 DEF Ordered
    <3>. QED
      BY <1>2, <1>4, <3>1 DEF Ordered
  <2>. QED
    BY <2>1, <2>2
<1>. QED
  BY <1>9, <1>10, <1>11

\* What is new in the sequence is there once.
LEMMA InsertedNew ==
  ASSUME NEW s \in Seq(Posted), NEW t \in Seq(Posted), NEW k, NEW x, Inserted(s, k, x, t),
         ~Occurs(s, x)
  PROVE  /\ Occurs(t, x) /\ Once(t, x)
         /\ k = Len(t) => \A f : ~Ordered(t, x, f)
<1>1. /\ Len(s) \in Nat /\ Len(t) = Len(s) + 1 /\ k \in 1..Len(t) /\ t[k] = x
      /\ DOMAIN s = 1..Len(s) /\ DOMAIN t = 1..Len(t)
  BY LenProperties DEF Inserted
<1>2. ASSUME NEW i \in DOMAIN t, i # k PROVE t[i] # x
  <2> DEFINE j == IF i < k THEN i ELSE i - 1
  <2>1. j \in 1..Len(s) /\ (IF j < k THEN j ELSE j + 1) = i
    BY <1>1, <1>2
  <2>2. s[j] = t[i]
    BY <2>1 DEF Inserted
  <2>. QED
    BY <1>1, <2>1, <2>2 DEF Occurs
<1>. QED
  BY <1>1, <1>2 DEF Occurs, Once, Ordered

\* Append inserts at the end.
LEMMA AppendInserts ==
  ASSUME NEW s \in Seq(Posted), NEW x \in Posted
  PROVE  /\ Append(s, x) \in Seq(Posted)
         /\ Inserted(s, Len(Append(s, x)), x, Append(s, x))
BY AppendProperties, LenProperties DEF Inserted

\* Concatenation of queues is associative.
LEMMA PostedAssociative ==
  ASSUME NEW s \in Seq(Posted), NEW t \in Seq(Posted), NEW u \in Seq(Posted)
  PROVE  (s \o t) \o u = s \o (t \o u)
BY ConcatAssociative

\* An event put between two parts of a queue is inserted there.
LEMMA MiddleInserts ==
  ASSUME NEW s \in Seq(Posted), NEW u \in Seq(Posted), NEW x \in Posted
  PROVE  /\ s \o (<<x>> \o u) \in Seq(Posted)
         /\ Inserted(s \o u, Len(s) + 1, x, s \o (<<x>> \o u))
<1>1. <<x>> \in Seq(Posted) /\ Len(<<x>>) = 1 /\ <<x>>[1] = x
  OBVIOUS
<1> DEFINE v == <<x>> \o u
<1>2. /\ v \in Seq(Posted) /\ Len(v) = Len(u) + 1 /\ v[1] = x
      /\ \A i \in 1..Len(u) : v[i + 1] = u[i]
  <2>1. v \in Seq(Posted) /\ Len(v) = 1 + Len(u)
    BY <1>1, ConcatProperties
  <2>2. \A i \in 1..1 + Len(u) : v[i] = IF i <= 1 THEN <<x>>[i] ELSE u[i - 1]
    BY <1>1, ConcatProperties
  <2>3. Len(u) \in Nat
    BY LenProperties
  <2>. QED
    BY <1>1, <2>1, <2>2, <2>3
<1> HIDE DEF v
<1>3. /\ s \o v \in Seq(Posted) /\ Len(s \o v) = Len(s) + Len(v)
      /\ \A i \in 1..Len(s) + Len(v) : (s \o v)[i] = IF i <= Len(s) THEN s[i] ELSE v[i - Len(s)]
  BY <1>2, ConcatProperties
<1>4. /\ s \o u \in Seq(Posted) /\ Len(s \o u) = Len(s) + Len(u)
      /\ \A i \in 1..Len(s) + Len(u) : (s \o u)[i] = IF i <= Len(s) THEN s[i] ELSE u[i - Len(s)]
  BY ConcatProperties
<1>5. Len(s) \in Nat /\ Len(u) \in Nat
  BY LenProperties
<1>6. ASSUME NEW i \in 1..Len(s) + Len(u)
      PROVE  (s \o u)[i] = (s \o v)[IF i < Len(s) + 1 THEN i ELSE i + 1]
  <2>1. CASE i < Len(s) + 1
    BY <1>2, <1>3, <1>4, <1>5, <2>1
  <2>2. CASE ~(i < Len(s) + 1)
    <3>1. (s \o v)[i + 1] = v[i + 1 - Len(s)]
      BY <1>2, <1>3, <1>5, <2>2
    <3>2. i - Len(s) \in 1..Len(u) /\ i + 1 - Len(s) = (i - Len(s)) + 1
      BY <1>5, <2>2
    <3>3. v[i + 1 - Len(s)] = u[i - Len(s)]
      BY <1>2, <3>2
    <3>4. (s \o u)[i] = u[i - Len(s)]
      BY <1>4, <1>5, <2>2
    <3>. QED
      BY <2>2, <3>1, <3>3, <3>4
  <2>. QED
    BY <2>1, <2>2
<1>7. (s \o v)[Len(s) + 1] = x
  BY <1>2, <1>3, <1>5
<1>. QED
  BY <1>2, <1>3, <1>4, <1>5, <1>6, <1>7 DEF Inserted, v

-----------------------------------------------------------------------------
\* The shape of a state: ranges, and where the owner is.

Ranges ==
  /\ subscribed \in [Signals -> SUBSET Actives]
  /\ mutex \in Clients \union {None}
  /\ event \in [Clients -> Events \union {None}] /\ left \in [Clients -> SUBSET Actives]
  /\ \A p \in Clients : left[p] # {} => event[p] # None
  /\ actors \in Seq(Actives) /\ index \in Nat /\ stops \in Nat
  /\ queue \in [Actives -> Seq(Posted)] /\ seen \in [Actives -> Seq(Events)]
  /\ running \in [Actives -> BOOLEAN]
  /\ pc \in [Actives -> {"none", "test", "pop", "waiting", "exited", "terminated"}]
  /\ step \in {"idle", "start", "size", "push", "join"}
  /\ step = "start" => index \in 1..Len(actors)
  /\ step \in {"size", "push", "join"} => target \in Actives
  /\ used \subseteq Events /\ audience \in [Events -> SUBSET Actives]

\* The ranges hold at the start.
LEMMA RangesInit == Init => Ranges
<1> SUFFICES ASSUME Init PROVE Ranges
  OBVIOUS
<1>1. <<>> \in Seq(Actives) /\ <<>> \in Seq(Posted) /\ <<>> \in Seq(Events)
  BY EmptySeq
<1>. QED
  BY <1>1 DEF Init, Ranges

\* PushBack keeps the queues and the places of the workers in their ranges.
LEMMA PushRanges ==
  ASSUME Ranges, NEW a \in Actives, NEW e \in Posted, Push(a, e)
  PROVE  /\ queue' \in [Actives -> Seq(Posted)]
         /\ pc' \in [Actives -> {"none", "test", "pop", "waiting", "exited", "terminated"}]
<1>1. Append(queue[a], e) \in Seq(Posted)
  BY AppendProperties DEF Ranges
<1>. QED
  BY <1>1 DEF Push, Woken, Ranges

\* Every action keeps the ranges.
LEMMA RangesStep == Ranges /\ [Next]_vars => Ranges'
<1> SUFFICES ASSUME Ranges, [Next]_vars PROVE Ranges'
  OBVIOUS
<1>1. ASSUME NEW a \in Actives, NEW e \in Events, PushBack(a, e) PROVE Ranges'
  <2>1. e \in Posted /\ Push(a, e)
    BY <1>1 DEF PushBack, Posted
  <2>2. /\ queue' \in [Actives -> Seq(Posted)]
        /\ pc' \in [Actives -> {"none", "test", "pop", "waiting", "exited", "terminated"}]
    BY <2>1, PushRanges
  <2>. QED
    BY <1>1, <2>2 DEF PushBack, Ranges, owner
<1>2. ASSUME NEW a \in Actives, NEW e \in Events, PushFront(a, e) PROVE Ranges'
  <2>1. <<e>> \o queue[a] \in Seq(Posted)
    <3>1. <<e>> \in Seq(Posted)
      BY DEF Posted
    <3>. QED
      BY <3>1, ConcatProperties DEF Ranges
  <2>. QED
    BY <1>2, <2>1 DEF PushFront, Woken, Ranges, owner
<1>3. ASSUME NEW a \in Actives, NEW s \in Signals, Subscribe(a, s) \/ UnSubscribe(a, s) PROVE Ranges'
  BY <1>3 DEF Subscribe, UnSubscribe, Ranges, owner
<1>4. ASSUME NEW p \in Clients, NEW e \in Events, Publish(p, e) PROVE Ranges'
  <2>1. subscribed[SignalOf[e]] \subseteq Actives
    BY DEF Ranges, Signals
  <2>2. e # None
    BY NamesAssumption
  <2>. QED
    BY <1>4, <2>1, <2>2 DEF Publish, Announce, Ranges, owner
<1>5. ASSUME NEW p \in Clients, Deliver(p) PROVE Ranges'
  <2>1. PICK a \in left[p] : Push(a, event[p]) /\ left' = [left EXCEPT ![p] = @ \ {a}]
    BY <1>5 DEF Deliver
  <2>2. a \in Actives /\ event[p] \in Posted
    BY <2>1 DEF Ranges, Posted
  <2>3. /\ queue' \in [Actives -> Seq(Posted)]
        /\ pc' \in [Actives -> {"none", "test", "pop", "waiting", "exited", "terminated"}]
    BY <2>1, <2>2, PushRanges
  <2>. QED
    BY <1>5, <2>1, <2>3 DEF Deliver, Ranges, owner
<1>6. ASSUME NEW p \in Clients, Published(p) PROVE Ranges'
  BY <1>6 DEF Published, Ranges, owner
<1>7. ASSUME NEW a \in Actives, RegisterActor(a) PROVE Ranges'
  <2>1. Append(actors, a) \in Seq(Actives)
    BY AppendProperties DEF Ranges
  <2>. QED
    BY <1>7, <2>1 DEF RegisterActor, Free, Ranges, handle
<1>8. ASSUME NEW a \in Actives, Start(a) \/ Stop(a) PROVE Ranges'
  <2>1. CASE Start(a)
    BY <2>1 DEF Start, Launch, Free, Ranges, handle, owner
  <2>2. CASE Stop(a)
    BY <2>2 DEF Stop, Free, Ranges, handle, owner
  <2>. QED
    BY <1>8, <2>1, <2>2
<1>9. CASE StartAll
  BY <1>9, EmptySeq DEF StartAll, Free, Ranges, handle
<1>10. CASE StartNext
  <2>1. Len(actors) \in Nat /\ actors[index] \in Actives
    BY <1>10, LenProperties, ElementOfSeq DEF StartNext, Ranges
  <2>2. CASE index < Len(actors)
    BY <1>10, <2>1, <2>2 DEF StartNext, Launch, Ranges, handle
  <2>3. CASE ~(index < Len(actors))
    BY <1>10, <2>1, <2>3 DEF StartNext, Launch, Idle, Ranges, handle
  <2>. QED
    BY <2>2, <2>3
<1>11. CASE StopSize
  BY <1>11 DEF StopSize, Ranges, handle
<1>12. CASE StopPush
  <2>1. target \in Actives /\ EmptyEvent \in Posted /\ Push(target, EmptyEvent)
    BY <1>12 DEF StopPush, Ranges, Posted
  <2>2. /\ queue' \in [Actives -> Seq(Posted)]
        /\ pc' \in [Actives -> {"none", "test", "pop", "waiting", "exited", "terminated"}]
    BY <2>1, PushRanges
  <2>. QED
    BY <1>12, <2>2 DEF StopPush, Ranges, handle
<1>13. CASE StopJoin
  BY <1>13 DEF StopJoin, Idle, Ranges, handle
<1>14. ASSUME NEW a \in Actives, Test(a) \/ Spurious(a) PROVE Ranges'
  BY <1>14 DEF Test, Spurious, Ranges, handle, owner
<1>15. ASSUME NEW a \in Actives, Pop(a) PROVE Ranges'
  <2>1. CASE queue[a] = <<>>
    BY <1>15, <2>1 DEF Pop, Ranges, handle, owner
  <2>2. CASE queue[a] # <<>>
    <3>1. Tail(queue[a]) \in Seq(Posted) /\ Head(queue[a]) \in Posted
      BY <2>2, HeadTailProperties DEF Ranges
    <3>2. Head(queue[a]) # EmptyEvent => Append(seen[a], Head(queue[a])) \in Seq(Events)
      BY <3>1, AppendProperties DEF Ranges, Posted
    <3>. QED
      BY <1>15, <2>2, <3>1, <3>2 DEF Pop, Ranges, handle, owner
  <2>. QED
    BY <2>1, <2>2
<1>16. CASE UNCHANGED vars
  BY <1>16 DEF vars, handle, owner, Ranges
<1>. QED
  BY <1>1, <1>2, <1>3, <1>4, <1>5, <1>6, <1>7, <1>8, <1>9, <1>10, <1>11, <1>12, <1>13, <1>14,
     <1>15, <1>16 DEF Next, Client, Owner

-----------------------------------------------------------------------------
\* How a step changes what an actor has been given.

Paths == \A a \in Actives : Path(a) \in Seq(Posted)

\* What an actor has been given is a sequence of events.
LEMMA PathType == Ranges => Paths
<1> SUFFICES ASSUME Ranges, NEW a \in Actives PROVE Path(a) \in Seq(Posted)
  BY DEF Paths
<1>1. seen[a] \in Seq(Events) /\ queue[a] \in Seq(Posted)
  BY DEF Ranges
<1>2. seen[a] \in Seq(Posted)
  BY <1>1, SeqMonotonic DEF Posted
<1>. QED
  BY <1>1, <1>2, ConcatProperties DEF Path

\* But for EVENT_EMPTY nothing is new or gone, and nothing changes places.
Alike(a) ==
  \/ Path(a)' = Path(a)
  \/ \E k : Inserted(Path(a), k, EmptyEvent, Path(a)')
  \/ \E k : Inserted(Path(a)', k, EmptyEvent, Path(a))

\* EVENT_EMPTY makes no difference to what occurs, once or in which order.
LEMMA AlikeKeeps ==
  ASSUME Ranges, Ranges', NEW a \in Actives, Alike(a), NEW e \in Events
  PROVE  /\ Occurs(Path(a), e)' <=> Occurs(Path(a), e)
         /\ Once(Path(a), e)' <=> Once(Path(a), e)
         /\ \A f \in Events : Ordered(Path(a), e, f)' <=> Ordered(Path(a), e, f)
<1>1. Path(a) \in Seq(Posted) /\ Path(a)' \in Seq(Posted)
  <2>1. Ranges' => Paths'
    BY PathType, PTL
  <2>. QED
    BY <2>1, PathType DEF Paths
<1>2. \A f \in Events : f # EmptyEvent
  BY NamesAssumption
<1>3. CASE Path(a)' = Path(a)
  BY <1>3 DEF Occurs, Once, Ordered
<1>4. ASSUME NEW k, Inserted(Path(a), k, EmptyEvent, Path(a)')
      PROVE  /\ Occurs(Path(a)', e) <=> Occurs(Path(a), e)
             /\ Once(Path(a)', e) <=> Once(Path(a), e)
             /\ \A f \in Events : Ordered(Path(a)', e, f) <=> Ordered(Path(a), e, f)
  BY <1>1, <1>2, <1>4, InsertedKeeps
<1>5. ASSUME NEW k, Inserted(Path(a)', k, EmptyEvent, Path(a))
      PROVE  /\ Occurs(Path(a)', e) <=> Occurs(Path(a), e)
             /\ Once(Path(a)', e) <=> Once(Path(a), e)
             /\ \A f \in Events : Ordered(Path(a)', e, f) <=> Ordered(Path(a), e, f)
  BY <1>1, <1>2, <1>5, InsertedKeeps
<1>. QED
  BY <1>3, <1>4, <1>5 DEF Alike, Occurs, Once, Ordered

\* PushBack gives one actor one more event, the last, and the others nothing.
LEMMA PushPath ==
  ASSUME Ranges, NEW a \in Actives, NEW e \in Posted, Push(a, e), UNCHANGED seen
  PROVE  /\ Inserted(Path(a), Len(Path(a)'), e, Path(a)')
         /\ \A b \in Actives \ {a} : Path(b)' = Path(b)
<1>1. queue[a] \in Seq(Posted) /\ queue'[a] = Append(queue[a], e)
  BY DEF Push, Ranges
<1>2. seen[a] \in Seq(Posted)
  BY SeqMonotonic DEF Ranges, Posted
<1>3. <<e>> \in Seq(Posted)
  OBVIOUS
<1>4. /\ Append(queue[a], e) = queue[a] \o <<e>>
      /\ Append(seen[a] \o queue[a], e) = (seen[a] \o queue[a]) \o <<e>>
  BY <1>1, <1>2, AppendIsConcat, ConcatProperties
<1>5. (seen[a] \o queue[a]) \o <<e>> = seen[a] \o (queue[a] \o <<e>>)
  BY <1>1, <1>2, <1>3, PostedAssociative
<1>6. Path(a)' = Append(Path(a), e)
  BY <1>1, <1>4, <1>5 DEF Path
<1>7. \A b \in Actives \ {a} : Path(b)' = Path(b)
  BY DEF Push, Path, Ranges
<1>. QED
  BY <1>6, <1>7, PathType, AppendInserts DEF Paths

\* So does PushFront, but somewhere before the last.
LEMMA PushFrontPath ==
  ASSUME Ranges, NEW a \in Actives, NEW e \in Posted, UNCHANGED seen,
         queue' = [queue EXCEPT ![a] = <<e>> \o @]
  PROVE  /\ \E k : Inserted(Path(a), k, e, Path(a)')
         /\ \A b \in Actives \ {a} : Path(b)' = Path(b)
<1>1. queue[a] \in Seq(Posted) /\ queue'[a] = <<e>> \o queue[a]
  BY DEF Ranges
<1>2. seen[a] \in Seq(Posted)
  BY SeqMonotonic DEF Ranges, Posted
<1>3. Inserted(seen[a] \o queue[a], Len(seen[a]) + 1, e, seen[a] \o (<<e>> \o queue[a]))
  BY <1>1, <1>2, MiddleInserts
<1>4. \A b \in Actives \ {a} : Path(b)' = Path(b)
  BY DEF Path, Ranges
<1>. QED
  BY <1>1, <1>3, <1>4 DEF Path

\* An event goes from the queue to the history; EVENT_EMPTY is forgotten.
LEMMA PopPath ==
  ASSUME Ranges, NEW a \in Actives, Pop(a)
  PROVE  \A b \in Actives : Alike(b)
<1>1. CASE queue[a] = <<>>
  BY <1>1 DEF Pop, Path, Alike
<1>2. CASE queue[a] # <<>>
  <2> DEFINE h == Head(queue[a])
             q == Tail(queue[a])
  <2>1. q \in Seq(Posted) /\ h \in Posted /\ queue[a] \in Seq(Posted) /\ queue[a] # <<>>
    BY <1>2, HeadTailProperties DEF Ranges
  <2>2. seen[a] \in Seq(Posted)
    BY SeqMonotonic DEF Ranges, Posted
  <2>3. queue'[a] = q /\ <<h>> \in Seq(Posted)
    BY <1>2, <2>1 DEF Pop, Ranges
  <2>4. queue[a] = <<h>> \o q
    <3>1. Len(queue[a]) \in Nat /\ Len(queue[a]) >= 1
      BY <2>1, EmptySeq
    <3>2. SubSeq(queue[a], 1, Len(queue[a])) = <<queue[a][1]>> \o SubSeq(queue[a], 2, Len(queue[a]))
      BY <2>1, <3>1, SubSeqRecursiveFirst, LenProperties
    <3>3. queue[a][1] = h
      BY <2>1
    <3>. QED
      BY <2>1, <3>2, <3>3, SubSeqFull, TailIsSubSeq
  <2>5. CASE h = EmptyEvent
    <3>1. seen' = seen
      BY <1>2, <2>5 DEF Pop
    <3>2. Inserted(seen[a] \o q, Len(seen[a]) + 1, h, seen[a] \o (<<h>> \o q))
      BY <2>1, <2>2, MiddleInserts
    <3>3. Path(a) = seen[a] \o (<<h>> \o q) /\ Path(a)' = seen[a] \o q
      BY <2>3, <2>4, <3>1 DEF Path
    <3>4. Inserted(Path(a)', Len(seen[a]) + 1, EmptyEvent, Path(a))
      BY <2>5, <3>2, <3>3
    <3>5. \A b \in Actives \ {a} : Path(b)' = Path(b)
      BY <1>2, <3>1 DEF Pop, Path, Ranges
    <3>. QED
      BY <3>4, <3>5 DEF Alike
  <2>6. CASE h # EmptyEvent
    <3>1. seen' = [seen EXCEPT ![a] = Append(@, h)] /\ queue' = [queue EXCEPT ![a] = q]
      BY <1>2, <2>6 DEF Pop
    <3>2. Path(a)' = Append(seen[a], h) \o q
      BY <2>3, <3>1 DEF Path, Ranges
    <3>3. Append(seen[a], h) = seen[a] \o <<h>>
      BY <2>1, <2>2, AppendIsConcat
    <3>4. (seen[a] \o <<h>>) \o q = seen[a] \o (<<h>> \o q)
        BY <2>1, <2>2, <2>3, PostedAssociative
    <3>5. Path(a)' = Path(a)
      BY <2>4, <3>2, <3>3, <3>4 DEF Path
    <3>6. \A b \in Actives \ {a} : Path(b)' = Path(b)
      BY <3>1 DEF Path, Ranges
    <3>. QED
      BY <3>5, <3>6 DEF Alike
  <2>. QED
    BY <2>5, <2>6
<1>. QED
  BY <1>1, <1>2

-----------------------------------------------------------------------------
\* What is known of the events that are being published.

\* One client publishes at a time; those it still has to reach are subscribed; an
\* event that is not used yet has no audience.
Publishing ==
  /\ \A p \in Clients : event[p] # None => mutex = p /\ event[p] \in used
  /\ \A p \in Clients : left[p] # {} =>
       left[p] \subseteq audience[event[p]] \intersect subscribed[SignalOf[event[p]]]
  /\ \A e \in Events \ used : audience[e] = {}

Given(a, e) == a \in audience[e] /\ \A p \in Clients : event[p] = e => a \notin left[p]

\* EventsKept without counting.
Reached == \A a \in Actives, e \in Events : (Occurs(Path(a), e) <=> Given(a, e)) /\ Once(Path(a), e)

\* What an actor is given after the event that is being published came from PushFront
\* or the direct PushBack.
Newest ==
  \A p \in Clients, a \in Actives, f \in Events :
    event[p] # None /\ Ordered(Path(a), event[p], f) => audience[f] \subseteq {a}

Agreed ==
  \A a, b \in Actives, e, f \in Events :
    a # b /\ {a, b} \subseteq audience[e] \intersect audience[f] =>
      ~(Ordered(Path(a), e, f) /\ Ordered(Path(b), f, e))

DeliveryInv == Ranges /\ Publishing /\ Reached /\ Newest /\ Agreed

\* The invariant holds at the start.
LEMMA DeliveryInit == Init => DeliveryInv
<1> SUFFICES ASSUME Init PROVE DeliveryInv
  OBVIOUS
<1>1. \A a \in Actives : Path(a) = <<>>
  BY DEF Init, Path
<1>2. \A e \in Events : None # e /\ audience[e] = {}
  BY NamesAssumption DEF Init
<1>3. \A e, f : ~Occurs(<<>>, e) /\ Once(<<>>, e) /\ ~Ordered(<<>>, e, f)
  BY DEF Occurs, Once, Ordered
<1>4. Publishing
  BY <1>2 DEF Init, Publishing
<1>5. Reached
  BY <1>1, <1>2, <1>3 DEF Reached, Given
<1>6. Newest /\ Agreed
  BY <1>1, <1>3 DEF Newest, Agreed
<1>. QED
  BY <1>4, <1>5, <1>6, RangesInit DEF DeliveryInv


\* Steps of threads and of the owner: no event is published, pushed or delivered.
LEMMA QuietKeeps ==
  ASSUME DeliveryInv, Ranges', \A a \in Actives : Alike(a),
         UNCHANGED <<mutex, event, left, audience, used>>, mutex = None \/ UNCHANGED subscribed
  PROVE  DeliveryInv'
<1>1. \A a \in Actives, e \in Events :
        /\ Occurs(Path(a)', e) <=> Occurs(Path(a), e)
        /\ Once(Path(a)', e) <=> Once(Path(a), e)
        /\ \A f \in Events : Ordered(Path(a)', e, f) <=> Ordered(Path(a), e, f)
  BY AlikeKeeps DEF DeliveryInv
<1>2. Publishing'
  <2>1. ASSUME mutex = None, NEW p \in Clients PROVE event[p] = None /\ left[p] = {}
    BY <2>1, NamesAssumption DEF DeliveryInv, Publishing, Ranges
  <2>. QED
    BY <2>1 DEF DeliveryInv, Publishing
<1>3. Reached'
  BY <1>1 DEF DeliveryInv, Reached, Given
<1>4. Newest'
  <2> SUFFICES ASSUME NEW p \in Clients, NEW a \in Actives, NEW f \in Events,
                      event[p] # None, Ordered(Path(a)', event[p], f)
               PROVE  audience[f] \subseteq {a}
    BY DEF Newest
  <2>1. event[p] \in Events
    BY DEF DeliveryInv, Ranges
  <2>2. Ordered(Path(a), event[p], f)
    BY <1>1, <2>1
  <2>. QED
    BY <2>2 DEF DeliveryInv, Newest
<1>5. Agreed'
  BY <1>1 DEF DeliveryInv, Agreed
<1>. QED
  BY <1>2, <1>3, <1>4, <1>5 DEF DeliveryInv

\* PushBack and PushFront: the event is new, and one actor is its audience.
LEMMA DirectKeeps ==
  ASSUME DeliveryInv, Ranges', NEW a \in Actives, NEW e \in Events, e \notin used,
         used' = used \union {e}, audience' = [audience EXCEPT ![e] = {a}],
         UNCHANGED <<subscribed, mutex, event, left>>,
         \E k : Inserted(Path(a), k, e, Path(a)'), \A b \in Actives \ {a} : Path(b)' = Path(b)
  PROVE  DeliveryInv'
<1>1. PICK k : Inserted(Path(a), k, e, Path(a)')
  OBVIOUS
<1>2. Path(a) \in Seq(Posted) /\ Path(a)' \in Seq(Posted)
  <2>1. Ranges' => Paths'
    BY PathType, PTL
  <2>. QED
    BY <2>1, PathType DEF Paths, DeliveryInv
<1>3. /\ audience'[e] = {a} /\ \A f \in Events \ {e} : audience'[f] = audience[f]
      /\ audience[e] = {} /\ \A p \in Clients : event[p] # e
  <2>1. audience \in [Events -> SUBSET Actives]
    BY DEF DeliveryInv, Ranges
  <2>2. e # None
    BY NamesAssumption
  <2>. QED
    BY <2>1, <2>2 DEF DeliveryInv, Publishing
<1>4. \A b \in Actives : ~Occurs(Path(b), e)
  BY <1>3 DEF DeliveryInv, Reached, Given
<1>5. Occurs(Path(a)', e) /\ Once(Path(a)', e)
  BY <1>1, <1>2, <1>4, InsertedNew
<1>6. \A f \in Events \ {e} :
        /\ Occurs(Path(a)', f) <=> Occurs(Path(a), f)
        /\ Once(Path(a)', f) <=> Once(Path(a), f)
        /\ \A g \in Events \ {e} : Ordered(Path(a)', f, g) <=> Ordered(Path(a), f, g)
  BY <1>1, <1>2, InsertedKeeps
<1>7. Publishing'
  BY <1>3 DEF DeliveryInv, Publishing
<1>8. Reached'
  <2>1. ASSUME NEW b \in Actives, NEW f \in Events
        PROVE  (Occurs(Path(b)', f) <=> Given(b, f)') /\ Once(Path(b)', f)
    <3>1. CASE f = e
      BY <1>3, <1>4, <1>5, <3>1 DEF DeliveryInv, Reached, Given
    <3>2. CASE f # e
      <4>1. Given(b, f)' <=> Given(b, f)
        BY <1>3, <3>2 DEF Given
      <4>. QED
        BY <1>6, <3>2, <4>1 DEF DeliveryInv, Reached
    <3>. QED
      BY <3>1, <3>2
  <2>. QED
    BY <2>1 DEF Reached
<1>9. Newest'
  <2> SUFFICES ASSUME NEW p \in Clients, NEW b \in Actives, NEW f \in Events,
                      event[p] # None, Ordered(Path(b)', event[p], f)
               PROVE  audience'[f] \subseteq {b}
    BY DEF Newest
  <2>1. event[p] \in Events \ {e}
    BY <1>3 DEF DeliveryInv, Ranges
  <2>2. CASE f = e
    <3>1. b = a
      <4>1. Occurs(Path(b)', e)
        BY <2>2 DEF Occurs, Ordered
      <4>. QED
        BY <1>4, <4>1
    <3>. QED
      BY <1>3, <2>2, <3>1
  <2>3. CASE f # e
    <3>1. Ordered(Path(b), event[p], f)
      BY <1>6, <2>1, <2>3
    <3>. QED
      BY <1>3, <2>3, <3>1 DEF DeliveryInv, Newest
  <2>. QED
    BY <2>2, <2>3
<1>10. Agreed'
  <2> SUFFICES ASSUME NEW b \in Actives, NEW c \in Actives, NEW f \in Events, NEW g \in Events,
                      b # c, {b, c} \subseteq audience'[f] \intersect audience'[g],
                      Ordered(Path(b)', f, g), Ordered(Path(c)', g, f)
               PROVE  FALSE
    BY DEF Agreed
  <2>1. f # e /\ g # e
    BY <1>3
  <2>2. Ordered(Path(b), f, g) /\ Ordered(Path(c), g, f)
    BY <1>6, <2>1
  <2>. QED
    BY <1>3, <2>1, <2>2 DEF DeliveryInv, Agreed
<1>. QED
  BY <1>7, <1>8, <1>9, <1>10 DEF DeliveryInv

\* The event that a client begins to publish is in no path yet.
LEMMA PublishKeeps ==
  ASSUME DeliveryInv, Ranges', NEW p \in Clients, NEW e \in Events, Publish(p, e)
  PROVE  DeliveryInv'
<1> USE DEF Publish, Announce
<1>1. \A a \in Actives : Path(a)' = Path(a)
  BY DEF Path
<1>2. e # None /\ \A q \in Clients : event[q] = None /\ left[q] = {}
  BY NamesAssumption DEF DeliveryInv, Publishing, Ranges
<1>3. /\ event'[p] = e /\ \A q \in Clients \ {p} : event'[q] = None
      /\ left'[p] = subscribed[SignalOf[e]] /\ \A q \in Clients \ {p} : left'[q] = {}
      /\ audience'[e] = subscribed[SignalOf[e]]
      /\ \A f \in Events \ {e} : audience'[f] = audience[f]
  BY <1>2 DEF DeliveryInv, Ranges
<1>4. audience[e] = {}
  BY DEF DeliveryInv, Publishing
<1>5. \A a \in Actives : ~Occurs(Path(a), e)
  BY <1>4 DEF DeliveryInv, Reached, Given
<1>6. \A a \in Actives : \A f : ~Ordered(Path(a), e, f) /\ ~Ordered(Path(a), f, e)
  BY <1>5 DEF Occurs, Ordered
<1>7. Publishing'
  BY <1>3 DEF DeliveryInv, Publishing
<1>8. Reached'
  <2>1. ASSUME NEW a \in Actives, NEW f \in Events
        PROVE  Given(a, f)' <=> Given(a, f)
    <3>1. CASE f = e
      BY <1>3, <1>4, <3>1 DEF Given
    <3>2. CASE f # e
      BY <1>2, <1>3, <3>2 DEF Given
    <3>. QED
      BY <3>1, <3>2
  <2>. QED
    BY <1>1, <2>1 DEF DeliveryInv, Reached
<1>9. Newest'
  BY <1>1, <1>2, <1>3, <1>6 DEF Newest
<1>10. Agreed'
  <2> SUFFICES ASSUME NEW b \in Actives, NEW c \in Actives, NEW f \in Events, NEW g \in Events,
                      b # c, {b, c} \subseteq audience'[f] \intersect audience'[g],
                      Ordered(Path(b), f, g), Ordered(Path(c), g, f)
               PROVE  FALSE
    BY <1>1 DEF Agreed
  <2>1. f # e /\ g # e
    BY <1>6
  <2>. QED
    BY <1>3, <2>1 DEF DeliveryInv, Agreed
<1>. QED
  BY <1>7, <1>8, <1>9, <1>10 DEF DeliveryInv

\* The event that is delivered comes last in the path, as it did in those of the other
\* actors that have it.
LEMMA DeliverKeeps ==
  ASSUME DeliveryInv, Ranges', NEW p \in Clients, Deliver(p)
  PROVE  DeliveryInv'
<1>1. PICK a \in left[p] : Push(a, event[p]) /\ left' = [left EXCEPT ![p] = @ \ {a}]
  BY DEF Deliver
<1> DEFINE e == event[p]
<1>2. a \in Actives /\ e \in Events /\ e \in Posted
  BY <1>1 DEF DeliveryInv, Ranges, Posted
<1>3. UNCHANGED <<subscribed, mutex, event, audience, used, seen>>
  BY DEF Deliver, owner
<1>4. /\ Inserted(Path(a), Len(Path(a)'), e, Path(a)')
      /\ \A b \in Actives \ {a} : Path(b)' = Path(b)
  BY <1>1, <1>2, <1>3, PushPath DEF DeliveryInv
<1>5. Path(a) \in Seq(Posted) /\ Path(a)' \in Seq(Posted)
  <2>1. Ranges' => Paths'
    BY PathType, PTL
  <2>. QED
    BY <1>2, <2>1, PathType DEF Paths, DeliveryInv
<1>6. /\ event[p] # None /\ \A q \in Clients \ {p} : event[q] = None
      /\ a \in audience[e] /\ left'[p] = left[p] \ {a}
      /\ \A q \in Clients \ {p} : left'[q] = left[q]
  <2>1. event[p] # None /\ left \in [Clients -> SUBSET Actives]
    BY <1>1 DEF DeliveryInv, Ranges
  <2>2. \A q \in Clients \ {p} : event[q] = None
    BY <2>1 DEF DeliveryInv, Publishing
  <2>3. a \in audience[e]
    BY <1>1 DEF DeliveryInv, Publishing
  <2>. QED
    BY <1>1, <2>1, <2>2, <2>3
<1> HIDE DEF e
<1>7. ~Occurs(Path(a), e)
  BY <1>1, <1>2 DEF DeliveryInv, Reached, Given, e
<1>8. Occurs(Path(a)', e) /\ Once(Path(a)', e) /\ \A f : ~Ordered(Path(a)', e, f)
  BY <1>4, <1>5, <1>7, InsertedNew
<1>9. \A f \in Events \ {e} :
        /\ Occurs(Path(a)', f) <=> Occurs(Path(a), f)
        /\ Once(Path(a)', f) <=> Once(Path(a), f)
        /\ \A g \in Events \ {e} : Ordered(Path(a)', f, g) <=> Ordered(Path(a), f, g)
  BY <1>4, <1>5, InsertedKeeps
<1>10. Publishing'
  BY <1>1, <1>3, <1>6 DEF DeliveryInv, Publishing
<1>11. Reached'
  <2>1. ASSUME NEW b \in Actives, NEW f \in Events, b # a \/ f # e
        PROVE  Given(b, f)' <=> Given(b, f)
    BY <1>2, <1>3, <1>6, <2>1 DEF Given, e
  <2>2. \A f : f = e => Given(a, f)'
    BY <1>2, <1>3, <1>6 DEF Given, e
  <2>3. ASSUME NEW b \in Actives, NEW f \in Events
        PROVE  (Occurs(Path(b)', f) <=> Given(b, f)') /\ Once(Path(b)', f)
    <3>1. CASE b = a /\ f = e
      BY <1>8, <2>2, <3>1
    <3>2. CASE b = a /\ f # e
      BY <1>9, <2>1, <3>2 DEF DeliveryInv, Reached
    <3>3. CASE b # a
      BY <1>4, <2>1, <3>3 DEF DeliveryInv, Reached
    <3>. QED
      BY <3>1, <3>2, <3>3
  <2>. QED
    BY <2>3 DEF Reached
<1>12. Newest'
  <2> SUFFICES ASSUME NEW b \in Actives, NEW f \in Events, Ordered(Path(b)', e, f)
               PROVE  audience[f] \subseteq {b}
    BY <1>3, <1>6 DEF Newest, e
  <2>1. b # a
    BY <1>8
  <2>. QED
    BY <1>4, <1>6, <2>1 DEF DeliveryInv, Newest, e
<1>13. Agreed'
  <2>1. ASSUME NEW b \in Actives, NEW f \in Events, NEW g \in Events,
               a # b, {a, b} \subseteq audience[f] \intersect audience[g],
               Ordered(Path(a)', f, g), Ordered(Path(b)', g, f)
        PROVE  FALSE
    <3>1. f # e /\ Path(b)' = Path(b)
      BY <1>4, <1>8, <2>1
    <3>2. CASE g = e
      <4>1. audience[f] \subseteq {b}
        BY <1>6, <2>1, <3>1, <3>2 DEF DeliveryInv, Newest, e
      <4>. QED
        BY <2>1, <4>1
    <3>3. CASE g # e
      BY <1>2, <1>9, <2>1, <3>1, <3>3 DEF DeliveryInv, Agreed
    <3>. QED
      BY <3>2, <3>3
  <2>2. ASSUME NEW b \in Actives, NEW c \in Actives, NEW f \in Events, NEW g \in Events,
               b # a, c # a, b # c, {b, c} \subseteq audience[f] \intersect audience[g],
               Ordered(Path(b)', f, g), Ordered(Path(c)', g, f)
        PROVE  FALSE
    BY <1>4, <2>2 DEF DeliveryInv, Agreed
  <2>. QED
    BY <1>2, <1>3, <2>1, <2>2 DEF Agreed
<1>. QED
  BY <1>10, <1>11, <1>12, <1>13 DEF DeliveryInv

\* Every actor has been reached when Publish returns.
LEMMA PublishedKeeps ==
  ASSUME DeliveryInv, Ranges', NEW p \in Clients, Published(p)
  PROVE  DeliveryInv'
<1> USE DEF Published
<1>1. \A a \in Actives : Path(a)' = Path(a)
  BY DEF Path
<1>2. /\ event[p] # None /\ event'[p] = None
      /\ \A q \in Clients \ {p} : event'[q] = event[q] /\ event[q] = None
  BY DEF DeliveryInv, Publishing, Ranges
<1>3. \A q \in Clients : left[q] = {}
  BY <1>2 DEF DeliveryInv, Publishing, Ranges
<1>4. Publishing'
  BY <1>2, <1>3 DEF DeliveryInv, Publishing
<1>5. Reached'
  BY <1>1, <1>2, <1>3 DEF DeliveryInv, Reached, Given
<1>6. Newest' /\ Agreed'
  BY <1>1, <1>2 DEF DeliveryInv, Newest, Agreed
<1>. QED
  BY <1>4, <1>5, <1>6 DEF DeliveryInv

\* Every action keeps the invariant.
LEMMA DeliveryStep == DeliveryInv /\ [Next]_vars => DeliveryInv'
<1> SUFFICES ASSUME DeliveryInv, [Next]_vars PROVE DeliveryInv'
  OBVIOUS
<1>1. Ranges /\ Ranges'
  BY RangesStep DEF DeliveryInv
<1>2. ASSUME NEW a \in Actives, NEW e \in Events, PushBack(a, e) PROVE DeliveryInv'
  <2>1. e \in Posted /\ Push(a, e) /\ UNCHANGED seen
    BY <1>2 DEF PushBack, Posted
  <2>2. \E k : Inserted(Path(a), k, e, Path(a)')
    BY <1>1, <2>1, PushPath
  <2>3. \A b \in Actives \ {a} : Path(b)' = Path(b)
    BY <1>1, <2>1, PushPath
  <2>. QED
    BY <1>1, <1>2, <2>2, <2>3, DirectKeeps DEF PushBack
<1>3. ASSUME NEW a \in Actives, NEW e \in Events, PushFront(a, e) PROVE DeliveryInv'
  <2>1. e \in Posted /\ UNCHANGED seen /\ queue' = [queue EXCEPT ![a] = <<e>> \o @]
    BY <1>3 DEF PushFront, Posted
  <2>2. /\ \E k : Inserted(Path(a), k, e, Path(a)')
        /\ \A b \in Actives \ {a} : Path(b)' = Path(b)
    BY <1>1, <2>1, PushFrontPath
  <2>. QED
    BY <1>1, <1>3, <2>2, DirectKeeps DEF PushFront
<1>4. ASSUME NEW p \in Clients, NEW e \in Events, Publish(p, e) PROVE DeliveryInv'
  BY <1>1, <1>4, PublishKeeps
<1>5. ASSUME NEW p \in Clients, Deliver(p) PROVE DeliveryInv'
  BY <1>1, <1>5, DeliverKeeps
<1>6. ASSUME NEW p \in Clients, Published(p) PROVE DeliveryInv'
  BY <1>1, <1>6, PublishedKeeps
<1>7. CASE StopPush
  <2>1. PICK t \in Actives : EmptyEvent \in Posted /\ Push(t, EmptyEvent) /\ UNCHANGED seen
    BY <1>1, <1>7 DEF StopPush, Ranges, Posted
  <2>2. Inserted(Path(t), Len(Path(t)'), EmptyEvent, Path(t)')
    BY <1>1, <2>1, PushPath
  <2>3. \A b \in Actives \ {t} : Path(b)' = Path(b)
    BY <1>1, <2>1, PushPath
  <2>4. \A a \in Actives : Alike(a)
    BY <2>2, <2>3 DEF Alike
  <2>. QED
    BY <1>1, <1>7, <2>4, QuietKeeps DEF StopPush, handle
<1>8. ASSUME NEW a \in Actives, Pop(a) PROVE DeliveryInv'
  <2>1. \A b \in Actives : Alike(b)
    BY <1>1, <1>8, PopPath
  <2>. QED
    BY <1>1, <1>8, <2>1, QuietKeeps DEF Pop, handle
<1>9. CASE /\ UNCHANGED <<queue, seen, mutex, event, left, audience, used>>
           /\ mutex = None \/ UNCHANGED subscribed
  <2>1. \A a \in Actives : Alike(a)
    BY <1>9 DEF Alike, Path
  <2>. QED
    BY <1>1, <1>9, <2>1, QuietKeeps
<1>10. ASSUME NEW a \in Actives, NEW s \in Signals, Subscribe(a, s) \/ UnSubscribe(a, s) PROVE DeliveryInv'
  BY <1>9, <1>10 DEF Subscribe, UnSubscribe
<1>11. ASSUME NEW a \in Actives, RegisterActor(a) \/ Start(a) \/ Stop(a) PROVE DeliveryInv'
  BY <1>9, <1>11 DEF RegisterActor, Start, Stop, handle
<1>12. CASE StartAll \/ StartNext \/ StopSize \/ StopJoin
  BY <1>9, <1>12 DEF StartAll, StartNext, StopSize, StopJoin, handle
<1>13. ASSUME NEW a \in Actives, Test(a) \/ Spurious(a) PROVE DeliveryInv'
  BY <1>9, <1>13 DEF Test, Spurious, handle
<1>14. CASE UNCHANGED vars
  BY <1>9, <1>14 DEF vars, handle
<1>. QED
  BY <1>2, <1>3, <1>4, <1>5, <1>6, <1>7, <1>8, <1>10, <1>11, <1>12, <1>13, <1>14
     DEF Next, Client, Owner

\* DeliveryInv holds in every reachable state.
LEMMA DeliveryInvariant == Spec => []DeliveryInv
BY DeliveryInit, DeliveryStep, PTL DEF Spec

-----------------------------------------------------------------------------
\* The properties.

\* What occurs once at most is counted once if it occurs.
LEMMA CountOnce ==
  ASSUME NEW s \in Seq(Posted), NEW e, Once(s, e)
  PROVE  Cardinality({i \in DOMAIN s : s[i] = e}) = IF Occurs(s, e) THEN 1 ELSE 0
<1>1. CASE Occurs(s, e)
  <2>1. PICK i \in DOMAIN s : s[i] = e
    BY <1>1 DEF Occurs
  <2>2. {j \in DOMAIN s : s[j] = e} = {i}
    BY <2>1 DEF Once
  <2>. QED
    BY <1>1, <2>2, FS_Singleton
<1>2. CASE ~Occurs(s, e)
  <2>1. {j \in DOMAIN s : s[j] = e} = {}
    BY <1>2 DEF Occurs
  <2>. QED
    BY <1>2, <2>1, FS_EmptySet
<1>. QED
  BY <1>1, <1>2

\* Every actor that was subscribed when an event was published is given it exactly once,
\* started or not, and nobody else is; an actor that Publish still has to reach is
\* subscribed, so that UnSubscribe is a barrier (Handle::Publish, Active::PushBack).
THEOREM EveryEventKept == Spec => []EventsKept
<1>1. DeliveryInv => EventsKept
  <2> SUFFICES ASSUME DeliveryInv PROVE EventsKept
    OBVIOUS
  <2>1. ASSUME NEW a \in Actives, NEW e \in Events
        PROVE  Times(a, e) =
                 IF a \in audience[e] /\ \A p \in Clients : event[p] = e => a \notin left[p]
                 THEN 1 ELSE 0
    <3>1. Path(a) \in Seq(Posted)
      BY PathType DEF DeliveryInv, Paths
    <3>2. (Occurs(Path(a), e) <=> Given(a, e)) /\ Once(Path(a), e)
      BY DEF DeliveryInv, Reached
    <3>3. Times(a, e) = IF Occurs(Path(a), e) THEN 1 ELSE 0
      BY <3>1, <3>2, CountOnce DEF Times
    <3>. QED
      BY <3>2, <3>3 DEF Given
  <2>2. ASSUME NEW p \in Clients, left[p] # {}
        PROVE  left[p] \subseteq subscribed[SignalOf[event[p]]]
    BY <2>2 DEF DeliveryInv, Publishing
  <2>. QED
    BY <2>1, <2>2 DEF EventsKept
<1>. QED
  BY <1>1, DeliveryInvariant, PTL

\* Two events that reach the same two actors reach them in the same order, however
\* publishers, subscribers and threads interleave: Publish keeps Handle::_mutex until the
\* last actor has been reached.
THEOREM EveryOrderAgrees == Spec => []OrderAgrees
<1>1. DeliveryInv => OrderAgrees
  <2> SUFFICES ASSUME Agreed PROVE OrderAgrees
    BY DEF DeliveryInv
  <2>1. \A a \in Actives, e \in Events, f \in Events : Precedes(a, e, f) <=> Ordered(Path(a), e, f)
    BY DEF Precedes, Ordered
  <2>. QED
    BY <2>1 DEF Agreed, OrderAgrees
<1>. QED
  BY <1>1, DeliveryInvariant, PTL
=============================================================================
