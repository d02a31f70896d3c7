------------------------------ MODULE LockQueue ------------------------------
(***************************************************************************)
(* The waits of lock_container/: LockQueue, and LockList, which has the    *)
(* same calls under other names.  Every call holds _mutex throughout, so   *)
(* that it is one action, but for a wait, which lets the mutex go.         *)
(* A wait without a time waits for a predicate.  A wait with a time does   *)
(* not: any wake-up that is no timeout takes the front, and the front of   *)
(* an empty queue is undefined.                                            *)
(***************************************************************************)
EXTENDS Naturals

CONSTANTS Waiters,
          MaxItems   \* bound: items in the queue

VARIABLES items,     \* how many _queue holds; which they are makes no difference to a wait
          at,        \* where each thread is
          timed,     \* whether its wait has a time
          broken     \* front() or pop() of an empty queue

queue == <<items, at, timed, broken>>

\* A thread is "out" of the queue, "asleep" in a wait, "called" by a notification since
\* which nobody has taken anything, or "woken" in any other way.
Places == {"out", "asleep", "called", "woken"}
Awake(t) == at[t] \in {"called", "woken"}

QueueInit == items = 0 /\ at = [t \in Waiters |-> "out"] /\ timed = [t \in Waiters |-> FALSE] /\ broken = FALSE

\* Mutant: notify_one.
PushOne(t) ==
  /\ at[t] = "out" /\ items < MaxItems
  /\ items' = items + 1
  /\ \/ at' = at /\ \A u \in Waiters : at[u] # "asleep"
     \/ \E u \in Waiters : at[u] = "asleep" /\ at' = [at EXCEPT ![u] = "called"]
  /\ UNCHANGED <<timed, broken>>

\* Push, with notify_all.
Push(t) ==
  /\ at[t] = "out" /\ items < MaxItems
  /\ items' = items + 1
  /\ at' = [u \in Waiters |-> IF at[u] = "asleep" THEN "called" ELSE at[u]]
  /\ UNCHANGED <<timed, broken>>

\* Thread t takes the front and returns.
TakeFront(t) ==
  /\ items > 0 /\ items' = items - 1
  /\ at' = [u \in Waiters |-> IF u = t THEN "out" ELSE IF at[u] = "called" THEN "woken" ELSE at[u]]
  /\ UNCHANGED <<timed, broken>>

\* TryPop and the waits, where they find an item at once; Pop, which must not be called
\* of an empty queue.
TryPop(t) == at[t] = "out" /\ TakeFront(t)

\* A wait that finds the queue empty.
Wait(t, time) ==
  /\ at[t] = "out" /\ items = 0
  /\ at' = [at EXCEPT ![t] = "asleep"] /\ timed' = [timed EXCEPT ![t] = time]
  /\ UNCHANGED <<items, broken>>

\* The predicate of WaitAndPop.
Recheck(t) ==
  /\ Awake(t) /\ ~timed[t] /\ items = 0
  /\ at' = [at EXCEPT ![t] = "asleep"]
  /\ UNCHANGED <<items, timed, broken>>

\* What a wait does when it is woken before its time is up, if it has one.
WaitAndPop(t) == Awake(t) /\ TakeFront(t)

TimedPop(t) == Awake(t) /\ timed[t] /\ items = 0 /\ broken' = TRUE /\ UNCHANGED <<items, at, timed>>

\* wait_for says timeout, which it may to a thread that was notified as well.
TimeOut(t) ==
  /\ at[t] # "out" /\ timed[t]
  /\ at' = [at EXCEPT ![t] = "out"]
  /\ UNCHANGED <<items, timed, broken>>

SpuriousWake(t) ==
  /\ at[t] = "asleep"
  /\ at' = [at EXCEPT ![t] = "woken"]
  /\ UNCHANGED <<items, timed, broken>>

Resume(t) == ~broken /\ (Recheck(t) \/ WaitAndPop(t) \/ TimedPop(t) \/ TimeOut(t))

QueueCall(t) == ~broken /\ (Push(t) \/ TryPop(t) \/ \E time \in BOOLEAN : Wait(t, time))

QueueNext == \E t \in Waiters : QueueCall(t) \/ Resume(t) \/ (~broken /\ SpuriousWake(t))

QueueSpec == QueueInit /\ [][QueueNext]_queue

\* A thread that can go on is scheduled, and the time of a wait passes.
QueueFairness == \A t \in Waiters : WF_queue(Resume(t))

-----------------------------------------------------------------------------
\* Properties.

\* WaitersCalled: nobody sleeps beside an item; and a thread that a push has woken finds
\* one, unless somebody else took it first, so that the undefined front() of a timed wait
\* needs either a second consumer or a spurious wake-up.
WaitersCalled ==
  \A t \in Waiters :
    /\ at[t] = "asleep" => items = 0
    /\ at[t] = "called" => items > 0

\* WaitsEnd: a wait with a time returns, and one without does so unless the queue runs
\* empty; a queue that broke ends the process.
WaitsEnd ==
  \A t \in Waiters :
    /\ at[t] # "out" /\ timed[t] ~> at[t] = "out" \/ broken
    /\ at[t] # "out" /\ items > 0 ~> at[t] = "out" \/ items = 0 \/ broken
=============================================================================
