-------------------------- MODULE ThreadPoolProofs --------------------------
(***************************************************************************)
(* Invariants of ThreadPool for any finite number of workers and tasks.    *)
(***************************************************************************)
EXTENDS ThreadPool, SequenceTheorems, FiniteSetTheorems, TLAPS

-----------------------------------------------------------------------------
\* The shape of a state: ranges, and what holding the mutex implies.

Ranges ==
  /\ tasks \in Seq(Tasks)
  /\ isClose \in BOOLEAN
  /\ pc \in [Workers -> {"lock", "blocking", "waiting", "chosen", "popping",
                         "claimed", "running", "ran", "exited"}]
  /\ job \in [Workers -> Tasks \union {NoTask}]
  /\ notifying \subseteq committed /\ committed \subseteq Tasks /\ finished \subseteq Tasks
  /\ release \in {"idle", "checked", "stored", "joining", "returned"}
  /\ waiter \in {"idle", "tasks", "free", "returned"}
  /\ asked \subseteq Tasks /\ begun \subseteq Tasks
  /\ late \in Nat

\* What the worker that holds the mutex has seen is still so.
Seen ==
  /\ \A v, w \in At({"blocking", "chosen", "popping"}) : v = w
  /\ \A w \in Workers :
       /\ pc[w] = "blocking" => tasks = <<>>
       /\ pc[w] = "chosen" => tasks # <<>> \/ isClose
       /\ pc[w] = "popping" => tasks # <<>>
       /\ pc[w] \in {"claimed", "running"} => job[w] \in Tasks

Shape == Ranges /\ Seen

\* The ranges hold at the start.
LEMMA ShapeInit == Init => Shape
<1> SUFFICES ASSUME Init PROVE Shape
  OBVIOUS
<1>1. <<>> \in Seq(Tasks)
  BY EmptySeq
<1>2. \A w \in Workers : pc[w] = "lock"
  BY DEF Init
<1>3. Ranges
  BY <1>1 DEF Init, Ranges
<1>4. Seen
  BY <1>2 DEF Seen, At
<1>. QED
  BY <1>3, <1>4 DEF Shape

\* Every action keeps the ranges.
LEMMA ShapeStep == Shape /\ [Next]_vars => Shape'
<1> SUFFICES ASSUME Shape, [Next]_vars PROVE Shape'
  OBVIOUS
<1> USE DEF Shape, Ranges, Seen, At, queue, wait, history
<1>1. ASSUME NEW t \in Tasks, Push(t) PROVE Shape'
  <2>1. Append(tasks, t) \in Seq(Tasks) /\ Append(tasks, t) # <<>>
    BY AppendProperties
  <2>. QED
    BY <1>1, <2>1 DEF Push, MutexFree
<1>2. ASSUME NEW t \in Tasks, Notify(t) PROVE Shape'
  <2>1. CASE UNCHANGED pc
    BY <1>2, <2>1 DEF Notify
  <2>2. CASE \E w \in At({"waiting"}) : pc' = [pc EXCEPT ![w] = "lock"]
    BY <1>2, <2>2 DEF Notify
  <2>. QED
    BY <1>2, <2>1, <2>2 DEF Notify
<1>3. CASE Wait
  BY <1>3 DEF Wait, WaitCall, PollTasks, PollFree
<1>4. CASE ReleaseCheck \/ ReleaseStore \/ ReleaseJoin
  BY <1>4 DEF ReleaseCheck, ReleaseStore, ReleaseJoin
<1>5. CASE ReleaseNotify
  BY <1>5 DEF ReleaseNotify
<1>6. ASSUME NEW w \in Workers, Look(w) PROVE Shape'
  BY <1>6 DEF Look, MutexFree
<1>7. ASSUME NEW w \in Workers, Block(w) \/ Spurious(w) \/ Decide(w) PROVE Shape'
  BY <1>7 DEF Block, Spurious, Decide
<1>8. ASSUME NEW w \in Workers, Pop(w) PROVE Shape'
  <2>1. Head(tasks) \in Tasks /\ Tail(tasks) \in Seq(Tasks)
    BY <1>8, HeadTailProperties DEF Pop
  <2>. QED
    BY <1>8, <2>1 DEF Pop
<1>9. ASSUME NEW w \in Workers, Run(w) \/ Finish(w) \/ Free(w) PROVE Shape'
  BY <1>9 DEF Run, Finish, Free
<1>10. CASE UNCHANGED vars
  BY <1>10 DEF vars
<1>. QED
  BY <1>1, <1>2, <1>3, <1>4, <1>5, <1>6, <1>7, <1>8, <1>9, <1>10 DEF Next, Work, Release

\* They hold in every reachable state.
LEMMA ShapeInvariant == Spec => []Shape
BY ShapeInit, ShapeStep, PTL DEF Spec

-----------------------------------------------------------------------------
\* Counting workers.

\* The workers at some places are counted by a natural number.
LEMMA AtFinite ==
  ASSUME NEW S
  PROVE  IsFiniteSet(At(S)) /\ Cardinality(At(S)) \in Nat
BY WorkersAssumption, FS_Subset, FS_CardinalityType DEF At

\* One worker moves from pc[w] to x.
LEMMA AtMoves ==
  ASSUME Ranges, NEW w \in Workers, NEW x, pc' = [pc EXCEPT ![w] = x], NEW S
  PROVE  /\ (pc[w] \in S <=> x \in S) => Cardinality(At(S)') = Cardinality(At(S))
         /\ pc[w] \notin S /\ x \in S => Cardinality(At(S)') = Cardinality(At(S)) + 1
         /\ pc[w] \in S /\ x \notin S => Cardinality(At(S)') = Cardinality(At(S)) - 1
<1>1. \A v \in Workers : pc'[v] = IF v = w THEN x ELSE pc[v]
  BY DEF Ranges
<1>2. IsFiniteSet(At(S)) /\ Cardinality(At(S)) \in Nat
  BY AtFinite
<1>3. CASE pc[w] \in S <=> x \in S
  <2>1. At(S)' = At(S)
    BY <1>1, <1>3 DEF At
  <2>. QED
    BY <1>3, <2>1
<1>4. CASE pc[w] \notin S /\ x \in S
  <2>1. At(S)' = At(S) \union {w} /\ w \notin At(S)
    BY <1>1, <1>4 DEF At
  <2>. QED
    BY <1>2, <1>4, <2>1, FS_AddElement
<1>5. CASE pc[w] \in S /\ x \notin S
  <2>1. At(S)' = At(S) \ {w} /\ w \in At(S)
    BY <1>1, <1>5 DEF At
  <2>. QED
    BY <1>2, <1>5, <2>1, FS_RemoveElement
<1>. QED
  BY <1>3, <1>4, <1>5

\* They are the same if no worker moves.
LEMMA AtSame ==
  ASSUME NEW S, UNCHANGED pc
  PROVE  At(S)' = At(S)
BY DEF At

-----------------------------------------------------------------------------
\* No lost wake-up.

\* The workers on their way to the queue, whoever else is busy or asleep.
Seeking == {"lock", "chosen", "popping"}

\* The places from which a worker looks for a task, and those from which it does not.
LEMMA SeekingMembers ==
  /\ "lock" \in Seeking /\ "chosen" \in Seeking /\ "popping" \in Seeking
  /\ "blocking" \notin Seeking /\ "waiting" \notin Seeking /\ "claimed" \notin Seeking
  /\ "running" \notin Seeking /\ "ran" \notin Seeking
BY DEF Seeking

\* A worker that neither falls asleep nor wakes up leaves the sleepers the same.
LEMMA SleepersSame ==
  ASSUME Ranges, NEW w \in Workers, NEW x, pc' = [pc EXCEPT ![w] = x],
         pc[w] # "waiting", x # "waiting"
  PROVE  At({"waiting"})' = At({"waiting"})
BY DEF At, Ranges

\* No wake-up is lost at the start.
LEMMA WakeInit == Init => NoLostWakeup
<1> SUFFICES ASSUME Init PROVE NoLostWakeup
  OBVIOUS
<1>1. At({"waiting"}) = {}
  BY DEF Init, At
<1>. QED
  BY <1>1 DEF NoLostWakeup

\* The steps of a worker, with what each does to the count of seekers.
LEMMA WakeWork ==
  ASSUME Shape, NoLostWakeup, NEW w \in Workers, Work(w) \/ Spurious(w)
  PROVE  NoLostWakeup'
<1> USE DEF Shape
<1> DEFINE seeking == Cardinality(At(Seeking))
<1>0. /\ seeking \in Nat /\ Cardinality(notifying) \in Nat /\ Len(tasks) \in Nat
      /\ (seeking > 0 \/ At(Seeking) = {})
  BY AtFinite, TasksAssumption, FS_Subset, FS_CardinalityType, FS_EmptySet, LenProperties
  DEF Ranges
<1>1. CASE Look(w)
  <2>1. CASE tasks = <<>> /\ ~isClose
    <3>1. pc' = [pc EXCEPT ![w] = "blocking"] /\ pc[w] = "lock"
      BY <1>1, <2>1 DEF Look
    <3>2. Cardinality(At(Seeking)') = seeking - 1
      BY <3>1, AtMoves, SeekingMembers
    <3>3. w \in At(Seeking)
      BY <3>1, SeekingMembers DEF At
    <3>4. UNCHANGED <<tasks, notifying>> /\ Len(tasks) = 0
      BY <1>1, <2>1, EmptySeq DEF Look, queue
    <3>. QED
      BY <1>0, <3>2, <3>3, <3>4 DEF NoLostWakeup, Seeking
  <2>2. CASE tasks # <<>> \/ isClose
    <3>1. pc' = [pc EXCEPT ![w] = "chosen"] /\ pc[w] = "lock"
      BY <1>1, <2>2 DEF Look
    <3>2. /\ Cardinality(At(Seeking)') = seeking
          /\ At({"waiting"})' = At({"waiting"})
      BY <3>1, AtMoves, SeekingMembers, SleepersSame
    <3>. QED
      BY <1>1, <3>2 DEF Look, NoLostWakeup, Seeking, queue
  <2>. QED
    BY <2>1, <2>2
<1>2. CASE Block(w)
  <2>1. tasks' = <<>> /\ Len(tasks') = 0 /\ notifying' = notifying
    BY <1>2, EmptySeq DEF Block, Seen, queue
  <2>2. Cardinality(At(Seeking)') = seeking
    BY <1>2, AtMoves, SeekingMembers DEF Block
  <2>. QED
    BY <1>0, <2>1, <2>2 DEF NoLostWakeup, Seeking
<1>3. CASE Spurious(w)
  <2>1. Cardinality(At(Seeking)') = seeking + 1
    BY <1>3, AtMoves, SeekingMembers DEF Spurious
  <2>2. At({"waiting"}) # {}
    BY <1>3 DEF Spurious, At
  <2>. QED
    BY <1>0, <1>3, <2>1, <2>2 DEF Spurious, NoLostWakeup, Seeking, queue
<1>4. CASE Decide(w)
  <2>1. CASE isClose
    BY <1>4, <2>1 DEF Decide, NoLostWakeup
  <2>2. CASE ~isClose
    <3>1. pc' = [pc EXCEPT ![w] = "popping"] /\ pc[w] = "chosen"
      BY <1>4, <2>2 DEF Decide
    <3>2. /\ Cardinality(At(Seeking)') = seeking
          /\ At({"waiting"})' = At({"waiting"})
      BY <3>1, AtMoves, SeekingMembers, SleepersSame
    <3>. QED
      BY <1>4, <3>2 DEF Decide, NoLostWakeup, Seeking, queue
  <2>. QED
    BY <2>1, <2>2
<1>5. CASE Pop(w)
  <2>1. pc' = [pc EXCEPT ![w] = "claimed"] /\ pc[w] = "popping"
    BY <1>5 DEF Pop
  <2>2. /\ Cardinality(At(Seeking)') = seeking - 1
        /\ At({"waiting"})' = At({"waiting"})
    BY <2>1, AtMoves, SeekingMembers, SleepersSame
  <2>3. Len(tasks') = Len(tasks) - 1
    BY <1>5, HeadTailProperties DEF Pop, Ranges, Seen
  <2>. QED
    <3>1. UNCHANGED <<notifying, isClose>>
      BY <1>5 DEF Pop
    <3>. QED
      BY <1>0, <2>2, <2>3, <3>1 DEF NoLostWakeup, Seeking
<1>6. CASE Run(w) \/ Finish(w)
  <2>1. /\ pc' = [pc EXCEPT ![w] = "running"] \/ pc' = [pc EXCEPT ![w] = "ran"]
        /\ pc[w] \in {"claimed", "running"}
    BY <1>6 DEF Run, Finish
  <2>2. /\ Cardinality(At(Seeking)') = seeking
        /\ At({"waiting"})' = At({"waiting"})
    BY <2>1, AtMoves, SeekingMembers, SleepersSame
  <2>. QED
    BY <1>6, <2>2 DEF Run, Finish, NoLostWakeup, Seeking, queue
<1>7. CASE Free(w)
  <2>1. pc' = [pc EXCEPT ![w] = "lock"] /\ pc[w] = "ran"
    BY <1>7 DEF Free
  <2>2. /\ Cardinality(At(Seeking)') = seeking + 1
        /\ At({"waiting"})' = At({"waiting"})
    BY <2>1, AtMoves, SeekingMembers, SleepersSame
  <2>. QED
    BY <1>0, <1>7, <2>2 DEF Free, NoLostWakeup, Seeking, queue
<1>. QED
  BY <1>1, <1>2, <1>3, <1>4, <1>5, <1>6, <1>7 DEF Work

\* Every action keeps it so.
LEMMA WakeStep == Shape /\ NoLostWakeup /\ [Next]_vars => NoLostWakeup'
<1> SUFFICES ASSUME Shape, NoLostWakeup, [Next]_vars PROVE NoLostWakeup'
  OBVIOUS
<1> USE DEF Shape
<1>0. Cardinality(At(Seeking)) \in Nat /\ IsFiniteSet(notifying)
      /\ Cardinality(notifying) \in Nat /\ Len(tasks) \in Nat
  BY AtFinite, TasksAssumption, FS_Subset, FS_CardinalityType, LenProperties DEF Ranges
<1>1. ASSUME NEW t \in Tasks, Push(t) PROVE NoLostWakeup'
  <2>1. Len(tasks') = Len(tasks) + 1
    BY <1>1, AppendProperties DEF Push, Ranges
  <2>2. CASE t \notin notifying
    <3>1. Cardinality(notifying') = Cardinality(notifying) + 1
      BY <1>0, <1>1, <2>2, FS_AddElement DEF Push
    <3>. QED
      BY <1>0, <1>1, <2>1, <3>1, AtSame DEF Push, NoLostWakeup, Seeking
  <2>. QED
    BY <1>1, <2>2 DEF Push, Ranges
<1>2. ASSUME NEW t \in Tasks, Notify(t) PROVE NoLostWakeup'
  <2>1. Cardinality(notifying') = Cardinality(notifying) - 1
    BY <1>0, <1>2, FS_RemoveElement DEF Notify
  <2>2. CASE At({"waiting"}) = {}
    <3>1. At({"waiting"})' = {}
      BY <1>2, <2>2, AtSame DEF Notify
    <3>. QED
      BY <3>1 DEF NoLostWakeup
  <2>3. CASE At({"waiting"}) # {}
    <3>1. PICK w \in At({"waiting"}) : pc' = [pc EXCEPT ![w] = "lock"]
      BY <1>2, <2>3 DEF Notify
    <3>2. w \in Workers /\ pc[w] = "waiting"
      BY <3>1 DEF At
    <3>3. Cardinality(At(Seeking)') = Cardinality(At(Seeking)) + 1
      BY <3>1, <3>2, AtMoves, SeekingMembers
    <3>. QED
      BY <1>0, <1>2, <2>1, <2>3, <3>3 DEF Notify, NoLostWakeup, Seeking
  <2>. QED
    BY <2>2, <2>3
<1>3. CASE Wait
  <2>1. UNCHANGED <<tasks, notifying, pc, isClose>>
    BY <1>3 DEF Wait, WaitCall, PollTasks, PollFree, queue
  <2>. QED
    BY <2>1, AtSame DEF NoLostWakeup
<1>4. CASE ReleaseCheck \/ ReleaseJoin
  <2>1. UNCHANGED <<tasks, notifying, pc, isClose>>
    BY <1>4 DEF ReleaseCheck, ReleaseJoin, queue
  <2>. QED
    BY <2>1, AtSame DEF NoLostWakeup
<1>5. CASE ReleaseStore
  BY <1>5 DEF ReleaseStore, NoLostWakeup
<1>6. CASE ReleaseNotify
  <2>1. At({"waiting"})' = {}
    BY <1>6 DEF ReleaseNotify, At
  <2>. QED
    BY <2>1 DEF NoLostWakeup
<1>7. CASE UNCHANGED vars
  <2>1. UNCHANGED <<tasks, notifying, pc, isClose>>
    BY <1>7 DEF vars
  <2>. QED
    BY <2>1, AtSame DEF NoLostWakeup
<1>. QED
  BY <1>1, <1>2, <1>3, <1>4, <1>5, <1>6, <1>7, WakeWork DEF Next, Release

\* WakeupsKept: however many workers and tasks there are, a task never lies in
\* the queue of an open pool while a worker sleeps and nobody is bound to fetch
\* it (ThreadPool::Commit against the wait in ThreadPool::Create).
THEOREM WakeupsKept == Spec => []NoLostWakeup
<1>1. Init => Shape /\ NoLostWakeup
  BY ShapeInit, WakeInit
<1>2. Shape /\ NoLostWakeup /\ [Next]_vars => (Shape /\ NoLostWakeup)'
  BY ShapeStep, WakeStep
<1>. QED
  BY <1>1, <1>2, PTL DEF Spec

-----------------------------------------------------------------------------
\* The count of free workers.

Occupied == {"running", "ran"}
FreeExact == freeSize = Cardinality(Workers) - Cardinality(At(Occupied))

\* The places of a worker that runs a task, and the others.
LEMMA OccupiedMembers ==
  /\ "running" \in Occupied /\ "ran" \in Occupied
  /\ "lock" \notin Occupied /\ "blocking" \notin Occupied /\ "waiting" \notin Occupied
  /\ "chosen" \notin Occupied /\ "popping" \notin Occupied /\ "claimed" \notin Occupied
  /\ "exited" \notin Occupied
BY DEF Occupied

\* The count of free workers is exact at the start.
LEMMA FreeInit == Init => FreeExact
<1> SUFFICES ASSUME Init PROVE FreeExact
  OBVIOUS
<1>1. At(Occupied) = {}
  BY DEF Init, At, Occupied
<1>2. Cardinality(Workers) \in Nat /\ Cardinality(At(Occupied)) = 0
  BY <1>1, WorkersAssumption, FS_CardinalityType, FS_EmptySet
<1>. QED
  BY <1>2 DEF Init, FreeExact

\* Every action keeps it exact.
LEMMA FreeStep == Shape /\ FreeExact /\ [Next]_vars => FreeExact'
<1> SUFFICES ASSUME Shape, FreeExact, [Next]_vars PROVE FreeExact'
  OBVIOUS
<1> USE DEF Shape
<1>0. Cardinality(At(Occupied)) \in Nat /\ Cardinality(Workers) \in Nat
  BY AtFinite, WorkersAssumption, FS_CardinalityType
<1>1. CASE UNCHANGED <<pc, freeSize>>
  BY <1>1, AtSame DEF FreeExact
<1>2. ASSUME NEW w \in Workers, NEW x, pc' = [pc EXCEPT ![w] = x], freeSize' = freeSize,
             pc[w] \notin Occupied, x \notin Occupied
      PROVE  FreeExact'
  BY <1>2, AtMoves DEF FreeExact
<1>3. ASSUME NEW w \in Workers, Work(w) \/ Spurious(w) PROVE FreeExact'
  <2>1. CASE Look(w)
    <3>1. /\ pc' = [pc EXCEPT ![w] = "chosen"] \/ pc' = [pc EXCEPT ![w] = "blocking"]
          /\ pc[w] = "lock" /\ freeSize' = freeSize
      BY <2>1 DEF Look
    <3>. QED
      BY <1>2, <3>1, OccupiedMembers
  <2>2. CASE Block(w) \/ Spurious(w) \/ Pop(w)
    BY <1>2, <2>2, OccupiedMembers DEF Block, Spurious, Pop
  <2>3. CASE Decide(w)
    <3>1. /\ pc' = [pc EXCEPT ![w] = "exited"] \/ pc' = [pc EXCEPT ![w] = "popping"]
          /\ pc[w] = "chosen" /\ freeSize' = freeSize
      BY <2>3 DEF Decide
    <3>. QED
      BY <1>2, <3>1, OccupiedMembers
  <2>4. CASE Run(w)
    <3>1. Cardinality(At(Occupied)') = Cardinality(At(Occupied)) + 1
      BY <2>4, AtMoves, OccupiedMembers DEF Run
    <3>. QED
      BY <1>0, <2>4, <3>1 DEF Run, FreeExact
  <2>5. CASE Finish(w)
    <3>1. Cardinality(At(Occupied)') = Cardinality(At(Occupied))
      BY <2>5, AtMoves, OccupiedMembers DEF Finish
    <3>. QED
      BY <2>5, <3>1 DEF Finish, FreeExact
  <2>6. CASE Free(w)
    <3>1. Cardinality(At(Occupied)') = Cardinality(At(Occupied)) - 1
      BY <2>6, AtMoves, OccupiedMembers DEF Free
    <3>. QED
      BY <1>0, <2>6, <3>1 DEF Free, FreeExact
  <2>. QED
    BY <1>3, <2>1, <2>2, <2>3, <2>4, <2>5, <2>6 DEF Work
<1>4. ASSUME NEW t \in Tasks, Push(t) \/ Notify(t) PROVE FreeExact'
  <2>1. CASE UNCHANGED pc
    BY <1>1, <1>4, <2>1 DEF Push, Notify
  <2>2. CASE ~UNCHANGED pc
    <3>1. PICK w \in At({"waiting"}) : pc' = [pc EXCEPT ![w] = "lock"]
      BY <1>4, <2>2 DEF Push, Notify
    <3>2. w \in Workers /\ pc[w] = "waiting" /\ freeSize' = freeSize
      BY <1>4, <3>1 DEF At, Push, Notify
    <3>. QED
      BY <1>2, <3>1, <3>2, OccupiedMembers
  <2>. QED
    BY <2>1, <2>2
<1>5. CASE Wait \/ ReleaseCheck \/ ReleaseStore \/ ReleaseJoin \/ UNCHANGED vars
  BY <1>1, <1>5 DEF Wait, WaitCall, PollTasks, PollFree, ReleaseCheck, ReleaseStore,
                    ReleaseJoin, vars
<1>6. CASE ReleaseNotify
  <2>1. At(Occupied)' = At(Occupied)
    BY <1>6 DEF ReleaseNotify, At, Occupied
  <2>. QED
    BY <1>6, <2>1 DEF ReleaseNotify, FreeExact
<1>. QED
  BY <1>3, <1>4, <1>5, <1>6 DEF Next, Release

-----------------------------------------------------------------------------
\* What a Wait that returns may rely on.

Running == {job[w] : w \in At({"running"})}

WaitInv ==
  /\ asked \subseteq committed
  /\ waiter \in {"free", "returned"} => asked \intersect Queued = {}
  /\ begun \subseteq finished \union Running
  /\ waiter = "returned" => begun \subseteq finished

\* The invariant of the waits holds at the start.
LEMMA WaitInit == Init => WaitInv
BY DEF Init, WaitInv

\* Every action keeps it.
LEMMA WaitStep == Shape /\ FreeExact /\ WaitInv /\ [Next]_vars => WaitInv'
<1> SUFFICES ASSUME Shape, FreeExact, WaitInv, [Next]_vars PROVE WaitInv'
  OBVIOUS
<1> USE DEF Shape
<1>1. ASSUME UNCHANGED <<committed, finished, waiter, asked, begun>>,
             Queued' \subseteq Queued, Running \subseteq Running'
      PROVE  WaitInv'
  BY <1>1 DEF WaitInv
<1>2. ASSUME NEW w \in Workers, Look(w) \/ Block(w) \/ Spurious(w) \/ Decide(w) \/ Run(w) \/ Free(w)
      PROVE  WaitInv'
  <2>1. UNCHANGED <<tasks, committed, finished, waiter, asked, begun, job>>
    BY <1>2 DEF Look, Block, Spurious, Decide, Run, Free, queue, wait, history
  <2>2. At({"running"}) \subseteq At({"running"})'
    BY <1>2 DEF Look, Block, Spurious, Decide, Run, Free, At, Ranges
  <2>. QED
    BY <1>1, <2>1, <2>2 DEF Queued, Running
<1>3. ASSUME NEW w \in Workers, Pop(w) PROVE WaitInv'
  <2>1. Queued' \subseteq Queued
    BY <1>3, HeadTailProperties, LenProperties DEF Pop, Queued, Seen, Ranges
  <2>2. Running \subseteq Running'
    BY <1>3 DEF Pop, Running, At, Ranges
  <2>. QED
    BY <1>1, <1>3, <2>1, <2>2 DEF Pop, wait
<1>4. ASSUME NEW w \in Workers, Finish(w) PROVE WaitInv'
  <2>1. UNCHANGED <<tasks, committed, waiter, asked, begun>> /\ Queued' = Queued
    BY <1>4 DEF Finish, queue, wait, Queued
  <2>2. finished' = finished \union {job[w]}
    BY <1>4 DEF Finish
  <2>3. \A v \in At({"running"}) : v # w => v \in At({"running"})' /\ job'[v] = job[v]
    BY <1>4 DEF Finish, At, Ranges
  <2>4. Running \subseteq Running' \union {job[w]}
    BY <2>3 DEF Running
  <2>. QED
    BY <2>1, <2>2, <2>4 DEF WaitInv
<1>5. ASSUME NEW t \in Tasks, Push(t) PROVE WaitInv'
  <2>1. Queued' = Queued \union {t}
    BY <1>5, AppendProperties, LenProperties DEF Push, Queued, Ranges
  <2>2. Running' = Running
    BY <1>5 DEF Push, Running, At
  <2>. QED
    BY <1>5, <2>1, <2>2 DEF Push, WaitInv, wait, history
<1>6. ASSUME NEW t \in Tasks, Notify(t) PROVE WaitInv'
  <2>1. UNCHANGED <<tasks, committed, finished, waiter, asked, begun, job>>
    BY <1>6 DEF Notify, wait, history
  <2>2. At({"running"}) \subseteq At({"running"})'
    BY <1>6 DEF Notify, At, Ranges
  <2>. QED
    BY <1>1, <2>1, <2>2 DEF Queued, Running
<1>7. CASE WaitCall
  <2>1. Queued' = Queued /\ Running' = Running
    BY <1>7 DEF WaitCall, Queued, Running, At, queue
  <2>. QED
    BY <1>7, <2>1 DEF WaitCall, WaitInv, Running, queue, history
<1>8. CASE PollTasks
  <2>1. Queued' = Queued /\ Running' = Running /\ (tasks = <<>> => Queued = {})
    BY <1>8 DEF PollTasks, Queued, Running, At, queue
  <2>. QED
    BY <1>8, <2>1 DEF PollTasks, WaitInv, queue, history
<1>9. CASE PollFree
  <2>1. Queued' = Queued /\ Running' = Running
    BY <1>9 DEF PollFree, Queued, Running, At, queue
  <2>2. freeSize = Cardinality(Workers) => Running = {}
    <3>1. /\ IsFiniteSet(At(Occupied)) /\ Cardinality(At(Occupied)) \in Nat
          /\ Cardinality(Workers) \in Nat
      BY AtFinite, WorkersAssumption, FS_CardinalityType
    <3>2. freeSize = Cardinality(Workers) => At(Occupied) = {}
      BY <3>1, FS_EmptySet DEF FreeExact
    <3>. QED
      BY <3>2 DEF Running, At, Occupied
  <2>. QED
    BY <1>9, <2>1, <2>2 DEF PollFree, WaitInv, queue, history
<1>10. CASE ReleaseCheck \/ ReleaseStore \/ ReleaseNotify \/ ReleaseJoin \/ UNCHANGED vars
  <2>1. UNCHANGED <<tasks, committed, finished, waiter, asked, begun, job>>
    BY <1>10 DEF ReleaseCheck, ReleaseStore, ReleaseNotify, ReleaseJoin, queue, wait, history, vars
  <2>2. At({"running"}) \subseteq At({"running"})'
    BY <1>10 DEF ReleaseCheck, ReleaseStore, ReleaseNotify, ReleaseJoin, At, Ranges, vars
  <2>. QED
    BY <1>1, <2>1, <2>2 DEF Queued, Running
<1>. QED
  BY <1>2, <1>3, <1>4, <1>5, <1>6, <1>7, <1>8, <1>9, <1>10 DEF Next, Work, Wait, Release

\* PoolTypes: every variable keeps to its range; the count of free workers is
\* exact up to the two steps around a task, so it never leaves 0.._pool.size().
THEOREM PoolTypes == Spec => []TypeOK
<1>1. Init => Shape /\ FreeExact
  BY ShapeInit, FreeInit
<1>2. Shape /\ FreeExact /\ [Next]_vars => (Shape /\ FreeExact)'
  BY ShapeStep, FreeStep
<1>3. Shape /\ FreeExact => TypeOK
  <2> SUFFICES ASSUME Shape, FreeExact PROVE TypeOK
    OBVIOUS
  <2>1. /\ Cardinality(At(Occupied)) \in Nat /\ Cardinality(Workers) \in Nat
        /\ Cardinality(At(Occupied)) <= Cardinality(Workers)
    BY AtFinite, WorkersAssumption, FS_CardinalityType, FS_Subset DEF At
  <2>2. freeSize \in 0..Cardinality(Workers)
    BY <2>1 DEF FreeExact
  <2>. QED
    BY <2>2 DEF Shape, Ranges, TypeOK
<1>. QED
  BY <1>1, <1>2, <1>3, PTL DEF Spec

\* WaitsCover: what a Wait that has returned promises, for any pool: everything
\* committed before it was popped, and what was running then has returned.
THEOREM WaitsCover == Spec => []WaitCovers
<1>1. Init => Shape /\ FreeExact /\ WaitInv
  BY ShapeInit, FreeInit, WaitInit
<1>2. Shape /\ FreeExact /\ WaitInv /\ [Next]_vars => (Shape /\ FreeExact /\ WaitInv)'
  BY ShapeStep, FreeStep, WaitStep
<1>3. WaitInv => WaitCovers
  BY DEF WaitInv, WaitCovers
<1>. QED
  BY <1>1, <1>2, <1>3, PTL DEF Spec

-----------------------------------------------------------------------------
\* Where a task is.

\* At the start there is no task.
LEMMA TasksKeptInit == Init => TasksKept
<1> SUFFICES ASSUME Init PROVE TasksKept
  OBVIOUS
<1>1. At({"claimed", "running"}) = {} /\ Queued = {} /\ DOMAIN tasks = {}
  BY DEF Init, At, Queued
<1>. QED
  BY <1>1 DEF Init, TasksKept

\* Steps that leave the queue, the jobs and their holders alone.
LEMMA KeptFrame ==
  ASSUME TasksKept, UNCHANGED <<tasks, job, committed, finished>>,
         At({"claimed", "running"})' = At({"claimed", "running"})
  PROVE  TasksKept'
BY DEF TasksKept, Queued

\* Every action keeps the tasks.
LEMMA KeptStep == Shape /\ TasksKept /\ [Next]_vars => TasksKept'
<1> SUFFICES ASSUME Shape, TasksKept, [Next]_vars PROVE TasksKept'
  OBVIOUS
<1> USE DEF Shape
<1> DEFINE busy == At({"claimed", "running"})
<1>1. ASSUME NEW w \in Workers, Look(w) \/ Block(w) \/ Spurious(w) \/ Decide(w) \/ Run(w) \/ Free(w)
      PROVE  TasksKept'
  <2>1. UNCHANGED <<tasks, job, committed, finished>>
    BY <1>1 DEF Look, Block, Spurious, Decide, Run, Free, queue, history
  <2>2. busy' = busy
    BY <1>1 DEF Look, Block, Spurious, Decide, Run, Free, At, Ranges
  <2>. QED
    BY <2>1, <2>2, KeptFrame
<1>2. ASSUME NEW t \in Tasks, Notify(t) PROVE TasksKept'
  <2>1. UNCHANGED <<tasks, job, committed, finished>>
    BY <1>2 DEF Notify, history
  <2>2. busy' = busy
    BY <1>2 DEF Notify, At, Ranges
  <2>. QED
    BY <2>1, <2>2, KeptFrame
<1>3. CASE Wait \/ Release \/ UNCHANGED vars
  <2>1. UNCHANGED <<tasks, job, committed, finished>>
    BY <1>3 DEF Wait, WaitCall, PollTasks, PollFree, Release, ReleaseCheck, ReleaseStore,
                ReleaseNotify, ReleaseJoin, queue, history, vars
  <2>2. busy' = busy
    BY <1>3 DEF Wait, WaitCall, PollTasks, PollFree, Release, ReleaseCheck, ReleaseStore,
                ReleaseNotify, ReleaseJoin, At, Ranges, vars
  <2>. QED
    BY <2>1, <2>2, KeptFrame
<1>4. ASSUME NEW t \in Tasks, Push(t) PROVE TasksKept'
  <2>1. /\ DOMAIN tasks' = 1..Len(tasks) + 1 /\ DOMAIN tasks = 1..Len(tasks)
        /\ Len(tasks) \in Nat /\ tasks'[Len(tasks) + 1] = t
        /\ \A k \in 1..Len(tasks) : tasks'[k] = tasks[k]
    BY <1>4, AppendProperties, LenProperties DEF Push, Ranges
  <2>2. Queued' = Queued \union {t} /\ t \notin Queued
    BY <1>4, <2>1 DEF Push, Queued, TasksKept
  <2>3. busy' = busy /\ UNCHANGED <<job, finished>> /\ committed' = committed \union {t}
    BY <1>4 DEF Push, At, history
  <2>4. t \notin finished /\ \A w \in busy : job[w] # t
    BY <1>4 DEF Push, TasksKept
  <2>5. \A i, j \in DOMAIN tasks' : tasks'[i] = tasks'[j] => i = j
    BY <2>1, <2>2 DEF Queued, TasksKept
  <2>. QED
    BY <2>2, <2>3, <2>4, <2>5 DEF TasksKept
<1>5. ASSUME NEW w \in Workers, Pop(w) PROVE TasksKept'
  <2>1. /\ tasks # <<>> /\ DOMAIN tasks' = 1..Len(tasks) - 1 /\ DOMAIN tasks = 1..Len(tasks)
        /\ Len(tasks) \in Nat \ {0} /\ Head(tasks) = tasks[1]
        /\ \A k \in 1..Len(tasks) - 1 : tasks'[k] = tasks[k + 1]
    BY <1>5, HeadTailProperties, LenProperties, EmptySeq DEF Pop, Ranges, Seen
  <2> DEFINE h == tasks[1]
  <2>2. job' = [job EXCEPT ![w] = h] /\ pc' = [pc EXCEPT ![w] = "claimed"] /\ pc[w] = "popping"
    BY <1>5, <2>1 DEF Pop
  <2>3. busy' = busy \union {w} /\ w \notin busy
    BY <2>2 DEF At, Ranges
  <2>4. Queued' = Queued \ {h} /\ h \in Queued
    <3>1. ASSUME NEW i \in DOMAIN tasks' PROVE tasks'[i] \in Queued /\ tasks'[i] # h
      <4>1. i + 1 \in DOMAIN tasks /\ 1 \in DOMAIN tasks /\ i + 1 # 1 /\ tasks'[i] = tasks[i + 1]
        BY <2>1, <3>1
      <4>. QED
        BY <4>1 DEF Queued, TasksKept
    <3>2. ASSUME NEW i \in DOMAIN tasks, tasks[i] # h PROVE tasks[i] \in Queued'
      <4>1. i - 1 \in DOMAIN tasks' /\ tasks'[i - 1] = tasks[i]
        BY <2>1, <3>2
      <4>. QED
        BY <4>1 DEF Queued
    <3>3. h \in Queued
      BY <2>1 DEF Queued
    <3>. QED
      BY <3>1, <3>2, <3>3 DEF Queued
  <2>5. \A i, j \in DOMAIN tasks' : tasks'[i] = tasks'[j] => i = j
    BY <2>1 DEF TasksKept
  <2>6. UNCHANGED <<committed, finished>>
    BY <1>5 DEF Pop
  <2>7. job'[w] = h /\ \A v \in busy : v # w /\ job'[v] = job[v]
    BY <2>2, <2>3 DEF Ranges, At
  <2> HIDE DEF h
  <2>. QED
    BY <2>3, <2>4, <2>5, <2>6, <2>7 DEF TasksKept
<1>6. ASSUME NEW w \in Workers, Finish(w) PROVE TasksKept'
  <2>1. /\ UNCHANGED <<tasks, committed>> /\ Queued' = Queued
        /\ finished' = finished \union {job[w]}
    BY <1>6 DEF Finish, Queued, queue
  <2>2. busy' = busy \ {w} /\ w \in busy
    BY <1>6 DEF Finish, At, Ranges
  <2>3. \A v \in busy : v # w => job'[v] = job[v]
    BY <1>6 DEF Finish, Ranges, At
  <2>. QED
    BY <2>1, <2>2, <2>3 DEF TasksKept
<1>. QED
  BY <1>1, <1>2, <1>3, <1>4, <1>5, <1>6 DEF Next, Work

\* TasksConserved: no interleaving of any number of committers and workers loses
\* a committed task or lets two workers run it.
THEOREM TasksConserved == Spec => []TasksKept
<1>1. Init => Shape /\ TasksKept
  BY ShapeInit, TasksKeptInit
<1>2. Shape /\ TasksKept /\ [Next]_vars => (Shape /\ TasksKept)'
  BY ShapeStep, KeptStep
<1>. QED
  BY <1>1, <1>2, PTL DEF Spec

-----------------------------------------------------------------------------
\* Closing.

LateInv ==
  /\ ~isClose => late = 0
  /\ isClose => late + Cardinality(At({"popping"})) <= 1

\* No task is late at the start.
LEMMA LateInit == Init => LateInv
BY DEF Init, LateInv

\* Every action keeps the bound.
LEMMA LateStep == Shape /\ LateInv /\ [Next]_vars => LateInv'
<1> SUFFICES ASSUME Shape, LateInv, [Next]_vars PROVE LateInv'
  OBVIOUS
<1> USE DEF Shape
<1> DEFINE P == {"popping"}
<1>0. Cardinality(At(P)) \in Nat /\ IsFiniteSet(At(P)) /\ late \in Nat
  BY AtFinite DEF Ranges
<1>1. CASE UNCHANGED <<isClose, late>> /\ At(P)' = At(P)
  BY <1>1 DEF LateInv
<1>2. ASSUME NEW w \in Workers, Look(w) \/ Block(w) \/ Spurious(w) \/ Run(w) \/ Finish(w) \/ Free(w)
      PROVE  LateInv'
  <2>1. UNCHANGED <<isClose, late>> /\ At(P)' = At(P)
    BY <1>2 DEF Look, Block, Spurious, Run, Finish, Free, At, Ranges, history
  <2>. QED
    BY <1>1, <2>1
<1>3. ASSUME NEW t \in Tasks, Push(t) \/ Notify(t) PROVE LateInv'
  <2>1. UNCHANGED <<isClose, late>> /\ At(P)' = At(P)
    BY <1>3 DEF Push, Notify, At, Ranges, history
  <2>. QED
    BY <1>1, <2>1
<1>4. CASE Wait \/ ReleaseCheck \/ ReleaseNotify \/ ReleaseJoin \/ UNCHANGED vars
  <2>1. UNCHANGED <<isClose, late>> /\ At(P)' = At(P)
    BY <1>4 DEF Wait, WaitCall, PollTasks, PollFree, ReleaseCheck, ReleaseNotify, ReleaseJoin,
                At, Ranges, history, vars
  <2>. QED
    BY <1>1, <2>1
<1>5. CASE ReleaseStore
  <2>1. isClose' /\ late' = late /\ At(P)' = At(P)
    BY <1>5 DEF ReleaseStore, At, history
  <2>2. Cardinality(At(P)) <= 1
    <3>1. \A v, w \in At(P) : v = w
      BY DEF Seen, At
    <3>2. At(P) = {} \/ \E v : At(P) = {v}
      BY <3>1
    <3>3. CASE At(P) = {}
      <4>1. Cardinality(At(P)) = 0
        BY <3>3, FS_EmptySet, Zenon
      <4>. QED
        BY <4>1
    <3>4. CASE \E v : At(P) = {v}
      <4>1. Cardinality(At(P)) = 1
        BY <3>4, FS_Singleton, Zenon
      <4>. QED
        BY <4>1
    <3>. QED
      BY <3>2, <3>3, <3>4
  <2>3. isClose => late + Cardinality(At(P)) <= 1
    BY DEF LateInv
  <2>4. ~isClose => late = 0
    BY DEF LateInv
  <2>. QED
    BY <1>0, <2>1, <2>2, <2>3, <2>4 DEF LateInv, Ranges
<1>6. ASSUME NEW w \in Workers, Decide(w) PROVE LateInv'
  <2>1. UNCHANGED <<isClose, late>>
    BY <1>6 DEF Decide, history
  <2>2. CASE isClose
    <3>1. At(P)' = At(P)
      BY <1>6, <2>2 DEF Decide, At, Ranges
    <3>. QED
      BY <1>1, <2>1, <3>1
  <2>3. CASE ~isClose
    BY <2>1, <2>3 DEF LateInv
  <2>. QED
    BY <2>2, <2>3
<1>7. ASSUME NEW w \in Workers, Pop(w) PROVE LateInv'
  <2>1. isClose' = isClose /\ late' = (IF isClose THEN late + 1 ELSE late)
        /\ pc' = [pc EXCEPT ![w] = "claimed"] /\ pc[w] = "popping"
    BY <1>7 DEF Pop
  <2>2. Cardinality(At(P)') = Cardinality(At(P)) - 1
    <3>1. "popping" \in P /\ "claimed" \notin P
      OBVIOUS
    <3> HIDE DEF P
    <3>. QED
      BY <2>1, <3>1, AtMoves
  <2>. QED
    BY <1>0, <2>1, <2>2 DEF LateInv
<1>. QED
  BY <1>2, <1>3, <1>4, <1>5, <1>6, <1>7 DEF Next, Work, Release

\* LatesBounded: however many workers race with Release, at most one task is
\* popped once _isClose is set (thread_poll.cpp:50-57).
THEOREM LatesBounded == Spec => []OneLate
<1>1. Init => Shape /\ LateInv
  BY ShapeInit, LateInit
<1>2. Shape /\ LateInv /\ [Next]_vars => (Shape /\ LateInv)'
  BY ShapeStep, LateStep
<1>3. Shape /\ LateInv => OneLate
  BY FS_EmptySet DEF Shape, Ranges, LateInv, OneLate
<1>. QED
  BY <1>1, <1>2, <1>3, PTL DEF Spec
=============================================================================
