----------------------------- MODULE ThreadPool -----------------------------
(***************************************************************************)
(* The thread pool of poll/thread_poll.h and thread_poll.cpp: workers that *)
(* wait on a condition variable, clients that commit tasks, one that polls *)
(* Wait and one that calls Release (the destructor calls it too).          *)
(*                                                                         *)
(* The mutex needs no variable: a worker holds it between Look and Block,  *)
(* Leave or Pop, and Commit holds it for the one step that pushes.         *)
(***************************************************************************)
EXTENDS Integers, Sequences, FiniteSets

CONSTANTS Workers,   \* the threads of _pool
          Tasks,     \* the tasks that may be committed, each once
          NoTask     \* what a worker without a task runs

ASSUME WorkersAssumption == IsFiniteSet(Workers)
ASSUME TasksAssumption == IsFiniteSet(Tasks) /\ NoTask \notin Tasks

VARIABLES tasks,      \* _tasks
          isClose,    \* _isClose
          freeSize,   \* _freeSize
          pc,         \* where each worker is in its loop
          job,        \* the task each worker has popped
          notifying,  \* tasks pushed by a Commit that has not notified yet
          release,    \* where the caller of Release is
          waiter,     \* where the caller of Wait is
          asked,      \* history: tasks committed when Wait was called
          begun,      \* history: tasks that were running when Wait was called
          committed,  \* history: every task committed
          finished,   \* history: every task that has returned
          late        \* history: tasks popped after _isClose was set

queue == <<tasks, notifying, committed>>
wait == <<waiter, asked, begun>>
history == <<finished, late>>
vars == <<tasks, isClose, freeSize, pc, job, notifying, release, waiter, asked,
          begun, committed, finished, late>>

At(S) == {w \in Workers : pc[w] \in S}
MutexFree == At({"blocking", "chosen", "popping"}) = {}
Queued == {tasks[i] : i \in DOMAIN tasks}

Init ==
  /\ tasks = <<>> /\ notifying = {} /\ committed = {}
  /\ isClose = FALSE
  /\ freeSize = Cardinality(Workers)
  /\ pc = [w \in Workers |-> "lock"]
  /\ job = [w \in Workers |-> NoTask]
  /\ release = "idle"
  /\ waiter = "idle" /\ asked = {} /\ begun = {}
  /\ finished = {} /\ late = 0

-----------------------------------------------------------------------------
\* Clients.

\* Commit pushes under the mutex and notifies after it has let it go.
Push(t) ==
  /\ t \notin committed
  /\ MutexFree
  /\ tasks' = Append(tasks, t)
  /\ notifying' = notifying \union {t}
  /\ committed' = committed \union {t}
  /\ UNCHANGED <<isClose, freeSize, pc, job, release, wait, history>>

\* Mutant: notify_one only for a queue that was empty.
NotifyFirst(t) ==
  /\ t \in notifying
  /\ notifying' = notifying \ {t}
  /\ IF At({"waiting"}) = {} \/ Len(tasks) > 1
     THEN UNCHANGED pc
     ELSE \E w \in At({"waiting"}) : pc' = [pc EXCEPT ![w] = "lock"]
  /\ UNCHANGED <<tasks, committed, isClose, freeSize, job, release, wait, history>>

\* notify_one wakes one waiting worker, if there is one.
Notify(t) ==
  /\ t \in notifying
  /\ notifying' = notifying \ {t}
  /\ IF At({"waiting"}) = {}
     THEN UNCHANGED pc
     ELSE \E w \in At({"waiting"}) : pc' = [pc EXCEPT ![w] = "lock"]
  /\ UNCHANGED <<tasks, committed, isClose, freeSize, job, release, wait, history>>

\* Wait begins; what it is asked for is fixed here.
WaitCall ==
  /\ waiter \in {"idle", "returned"}
  /\ waiter' = "tasks"
  /\ asked' = committed
  /\ begun' = {job[w] : w \in At({"running"})}
  /\ UNCHANGED <<queue, isClose, freeSize, pc, job, release, history>>

\* IsComplete reads _tasks.empty() without the mutex, then _freeSize.
PollTasks ==
  /\ waiter = "tasks"
  /\ waiter' = IF tasks = <<>> THEN "free" ELSE "tasks"
  /\ UNCHANGED <<queue, isClose, freeSize, pc, job, release, asked, begun, history>>

PollFree ==
  /\ waiter = "free"
  /\ waiter' = IF freeSize = Cardinality(Workers) THEN "returned" ELSE "tasks"
  /\ UNCHANGED <<queue, isClose, freeSize, pc, job, release, asked, begun, history>>

\* Release: load, store, notify_all, join; none of it under the mutex.
ReleaseCheck ==
  /\ release = "idle" /\ ~isClose
  /\ release' = "checked"
  /\ UNCHANGED <<queue, isClose, freeSize, pc, job, wait, history>>

ReleaseStore ==
  /\ release = "checked"
  /\ isClose' = TRUE
  /\ release' = "stored"
  /\ UNCHANGED <<queue, freeSize, pc, job, wait, history>>

\* notify_all reaches only the workers that are waiting now.
ReleaseNotify ==
  /\ release = "stored"
  /\ release' = "joining"
  /\ pc' = [w \in Workers |-> IF pc[w] = "waiting" THEN "lock" ELSE pc[w]]
  /\ UNCHANGED <<queue, isClose, freeSize, job, wait, history>>

ReleaseJoin ==
  /\ release = "joining"
  /\ At({"exited"}) = Workers
  /\ release' = "returned"
  /\ UNCHANGED <<queue, isClose, freeSize, pc, job, wait, history>>

-----------------------------------------------------------------------------
\* Workers.

\* Mutant: the predicate of wait does not ask for _isClose.
LookTasks(w) ==
  /\ pc[w] = "lock" /\ MutexFree
  /\ pc' = [pc EXCEPT ![w] = IF tasks # <<>> THEN "chosen" ELSE "blocking"]
  /\ UNCHANGED <<queue, isClose, freeSize, job, release, wait, history>>

\* The worker takes the mutex and evaluates the predicate of wait.
Look(w) ==
  /\ pc[w] = "lock" /\ MutexFree
  /\ pc' = [pc EXCEPT ![w] = IF tasks # <<>> \/ isClose THEN "chosen" ELSE "blocking"]
  /\ UNCHANGED <<queue, isClose, freeSize, job, release, wait, history>>

\* wait blocks and lets the mutex go in one step.
Block(w) ==
  /\ pc[w] = "blocking"
  /\ pc' = [pc EXCEPT ![w] = "waiting"]
  /\ UNCHANGED <<queue, isClose, freeSize, job, release, wait, history>>

\* A condition variable may wake up without a notification.
Spurious(w) ==
  /\ pc[w] = "waiting"
  /\ pc' = [pc EXCEPT ![w] = "lock"]
  /\ UNCHANGED <<queue, isClose, freeSize, job, release, wait, history>>

\* Mutant: the worker leaves only when the queue is empty.
DecideEmpty(w) ==
  /\ pc[w] = "chosen"
  /\ pc' = [pc EXCEPT ![w] = IF tasks = <<>> THEN "exited" ELSE "popping"]
  /\ UNCHANGED <<queue, isClose, freeSize, job, release, wait, history>>

\* The second look at _isClose: leave the loop, or go on to the pop.
Decide(w) ==
  /\ pc[w] = "chosen"
  /\ pc' = [pc EXCEPT ![w] = IF isClose THEN "exited" ELSE "popping"]
  /\ UNCHANGED <<queue, isClose, freeSize, job, release, wait, history>>

\* Mutant: the task is read but stays in the queue.
PopCopy(w) ==
  /\ pc[w] = "popping"
  /\ job' = [job EXCEPT ![w] = Head(tasks)]
  /\ late' = IF isClose THEN late + 1 ELSE late
  /\ pc' = [pc EXCEPT ![w] = "claimed"]
  /\ UNCHANGED <<queue, isClose, freeSize, release, wait, finished>>

\* front and pop, and the mutex is let go.
Pop(w) ==
  /\ pc[w] = "popping"
  /\ job' = [job EXCEPT ![w] = Head(tasks)]
  /\ tasks' = Tail(tasks)
  /\ late' = IF isClose THEN late + 1 ELSE late
  /\ pc' = [pc EXCEPT ![w] = "claimed"]
  /\ UNCHANGED <<notifying, committed, isClose, freeSize, release, wait, finished>>

\* Mutant: the worker is not taken off the free ones.
RunFree(w) ==
  /\ pc[w] = "claimed"
  /\ pc' = [pc EXCEPT ![w] = "running"]
  /\ UNCHANGED <<queue, isClose, freeSize, job, release, wait, history>>

\* --_freeSize, then the task runs.
Run(w) ==
  /\ pc[w] = "claimed"
  /\ freeSize' = freeSize - 1
  /\ pc' = [pc EXCEPT ![w] = "running"]
  /\ UNCHANGED <<queue, isClose, job, release, wait, history>>

Finish(w) ==
  /\ pc[w] = "running"
  /\ finished' = finished \union {job[w]}
  /\ job' = [job EXCEPT ![w] = NoTask]
  /\ pc' = [pc EXCEPT ![w] = "ran"]
  /\ UNCHANGED <<queue, isClose, freeSize, release, wait, late>>

\* ++_freeSize, and back to the head of the loop.
Free(w) ==
  /\ pc[w] = "ran"
  /\ freeSize' = freeSize + 1
  /\ pc' = [pc EXCEPT ![w] = "lock"]
  /\ UNCHANGED <<queue, isClose, job, release, wait, history>>

Work(w) ==
  \/ Look(w) \/ Block(w) \/ Decide(w) \/ Pop(w) \/ Run(w) \/ Finish(w) \/ Free(w)

Release == ReleaseCheck \/ ReleaseStore \/ ReleaseNotify \/ ReleaseJoin
Wait == WaitCall \/ PollTasks \/ PollFree

Next ==
  \/ \E w \in Workers : Work(w) \/ Spurious(w)
  \/ \E t \in Tasks : Push(t) \/ Notify(t)
  \/ Wait
  \/ Release

Spec == Init /\ [][Next]_vars

\* Threads are scheduled, tasks return, and a Release or a Commit once begun
\* goes on; nobody has to commit, and nothing wakes up without cause.
FairSpec ==
  /\ Spec
  /\ \A w \in Workers : WF_vars(Work(w))
  /\ \A t \in Tasks : WF_vars(Notify(t))
  /\ WF_vars(ReleaseStore) /\ WF_vars(ReleaseNotify) /\ WF_vars(ReleaseJoin)

-----------------------------------------------------------------------------
\* Properties.

TypeOK ==
  /\ tasks \in Seq(Tasks)
  /\ isClose \in BOOLEAN
  /\ freeSize \in 0..Cardinality(Workers)
  /\ pc \in [Workers -> {"lock", "blocking", "waiting", "chosen", "popping",
                         "claimed", "running", "ran", "exited"}]
  /\ job \in [Workers -> Tasks \union {NoTask}]
  /\ notifying \subseteq Tasks /\ committed \subseteq Tasks /\ finished \subseteq Tasks
  /\ release \in {"idle", "checked", "stored", "joining", "returned"}
  /\ waiter \in {"idle", "tasks", "free", "returned"}
  /\ asked \subseteq Tasks /\ begun \subseteq Tasks
  /\ late \in Nat

\* TasksKept: a committed task is in exactly one place: once in the queue, in
\* the hands of one worker, or finished; none is lost and none runs twice.
TasksKept ==
  LET busy == At({"claimed", "running"})
  IN  /\ committed = Queued \union finished \union {job[w] : w \in busy}
      /\ \A i, j \in DOMAIN tasks : tasks[i] = tasks[j] => i = j
      /\ \A v, w \in busy : job[v] = job[w] => v = w
      /\ \A w \in busy : job[w] \notin Queued \union finished
      /\ Queued \intersect finished = {}

\* NoLostWakeup: while a worker sleeps, every queued task has a notification
\* under way or a worker that is awake and on its way to the queue (Commit
\* notifies after unlocking; the predicate is evaluated under the mutex).
NoLostWakeup ==
  ~isClose /\ At({"waiting"}) # {} =>
    Len(tasks) <= Cardinality(notifying) + Cardinality(At({"lock", "chosen", "popping"}))

\* WaitCovers: when Wait returns, every task committed before the call has been
\* popped, and every task that ran at the call has returned.  A task that was
\* popped and not yet started is not covered: IsComplete does not see it.
WaitCovers ==
  waiter = "returned" => asked \intersect Queued = {} /\ begun \subseteq finished

\* OneLate: Release and the workers race on _isClose, and no more than one task
\* is popped after it is set; the rest of the queue is never run.
OneLate == late + Cardinality(IF isClose THEN At({"popping"}) ELSE {}) <= 1

\* ReleaseReturns: Release returns, if no worker was asleep or about to fall
\* asleep when it had notified: a worker between the predicate and the block
\* misses notify_all and is waited for in vain.
ReleaseReturns ==
  release = "joining" /\ At({"blocking", "waiting"}) = {} ~> release = "returned"
=============================================================================
