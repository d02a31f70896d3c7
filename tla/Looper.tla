------------------------------- MODULE Looper -------------------------------
(***************************************************************************)
(* The message loop of message_queue/: Message::Send, the main looper that *)
(* is made on demand and destroyed by StopMainLooper, the sorted list of   *)
(* messages and the worker thread that runs their handlers.                *)
(*                                                                         *)
(* Loopers are reached through shared pointers: a looper is destroyed by   *)
(* the thread that gives up the last one, be it a client, StopMainLooper   *)
(* under main_looper_mutex_, or a handler on the looper's own thread.      *)
(*                                                                         *)
(* The mutex of a list needs no variable: its worker holds it between Look *)
(* and Block or Next, everybody else for one step.                         *)
(***************************************************************************)
EXTENDS Integers, Sequences, FiniteSets, SequencesExt

CONSTANTS Clients,   \* threads that are not a looper's worker
          Loopers,   \* looper objects; each also names its worker thread
          Messages,  \* messages, each sent once
          Delays,    \* arguments of Send, in milliseconds
          MaxTime,   \* bound: the clock stops here
          None       \* the null pointer; no thread

ASSUME ThreadsAssumption ==
  /\ IsFiniteSet(Loopers) /\ IsFiniteSet(Clients)
  /\ Clients \intersect Loopers = {}
  /\ None \notin Clients \union Loopers \union Messages
ASSUME DelaysAssumption == Delays \subseteq Nat /\ MaxTime \in Nat

VARIABLES now,      \* MonotonicMilliseconds
          main,     \* main_looper_
          mutex,    \* who holds main_looper_mutex_ while it destroys a looper
          running,  \* _running of each looper
          list,     \* _message_queue of each looper
          when,     \* _when of each message
          pc,       \* where each worker is in Loop
          job,      \* the message each worker runs
          call,     \* where each thread is in a call of the API
          hold,     \* the shared pointer to a looper on each thread's stack
          sending,  \* the message of a thread's call; None in Exit
          stops,    \* bound: calls of StopMainLooper so far
          sent, handled, dropped,  \* history: messages
          arrived   \* history: messages in the order they were enqueued

messages == <<when, sent, dropped>>
workers == <<pc, job, handled>>
vars == <<now, main, mutex, running, list, call, hold, sending, stops, arrived,
          messages, workers>>

Threads == Clients \union Loopers
Unused == {l \in Loopers : pc[l] = "none"}
Fresh == CHOOSE l \in Loopers : pc[l] = "none"   \* nothing tells unused loopers apart
Queued(l) == {list[l][i] : i \in DOMAIN list[l]}
Owners(l) == {p \in Threads : hold[p] = l}

Init ==
  /\ now = 0 /\ main = None /\ mutex = None /\ stops = 0
  /\ running = [l \in Loopers |-> FALSE]
  /\ list = [l \in Loopers |-> <<>>]
  /\ when = [m \in Messages |-> 0]
  /\ pc = [l \in Loopers |-> "none"]
  /\ job = [l \in Loopers |-> None]
  /\ call = [p \in Threads |-> "idle"]
  /\ hold = [p \in Threads |-> None]
  /\ sending = [p \in Threads |-> None]
  /\ sent = {} /\ handled = {} /\ dropped = {} /\ arrived = <<>>

-----------------------------------------------------------------------------
\* Calls of the API, by clients and by handlers.

CanCall(p) == call[p] = "idle" /\ (p \in Loopers => pc[p] = "running")

\* Message::Send stamps the message; PostHandler sends one with a zero stamp.
Send(p, m, delay) ==
  /\ CanCall(p) /\ m \notin sent
  /\ when' = [when EXCEPT ![m] = IF delay = 0 THEN 0 ELSE delay + now]
  /\ sent' = sent \union {m}
  /\ sending' = [sending EXCEPT ![p] = m]
  /\ call' = [call EXCEPT ![p] = "get"]
  /\ UNCHANGED <<now, main, mutex, running, list, hold, stops, arrived, dropped, workers>>

\* MainLooper()->Exit()
ExitCall(p) ==
  /\ CanCall(p)
  /\ call' = [call EXCEPT ![p] = "get"]
  /\ UNCHANGED <<now, main, mutex, running, list, hold, sending, stops, arrived,
                 messages, workers>>

\* MainLooper makes the looper if there is none, and with it its thread.
MainLooper(p) ==
  /\ call[p] = "get" /\ mutex = None
  /\ IF main = None
     THEN \E l \in Unused :
            /\ l = Fresh /\ main' = l
            /\ running' = [running EXCEPT ![l] = TRUE]
            /\ pc' = [pc EXCEPT ![l] = "test"]
     ELSE UNCHANGED <<main, running, pc>>
  /\ hold' = [hold EXCEPT ![p] = main']
  /\ call' = [call EXCEPT ![p] = IF sending[p] = None THEN "exit" ELSE "enqueue"]
  /\ UNCHANGED <<now, mutex, list, sending, stops, arrived, messages, job, handled>>

\* Mutant: the new message goes before those of its own time.
EnqueueBefore(p) ==
  LET l == hold[p]
      m == sending[p]
      i == Cardinality({k \in DOMAIN list[l] : when[list[l][k]] < when[m]})
  IN  /\ call[p] = "enqueue" /\ pc[l] \notin {"blocking", "popping"}
      /\ list' = [list EXCEPT ![l] = InsertAt(@, i + 1, m)]
      /\ arrived' = Append(arrived, m)
      /\ sending' = [sending EXCEPT ![p] = None]
      /\ call' = [call EXCEPT ![p] = "drop"]
      /\ UNCHANGED <<now, main, mutex, running, hold, stops, messages, workers>>

\* MessageQueue::Enqueue inserts before the first message that is due later.
\* It uses insert of std::list, which notifies nobody.
Enqueue(p) ==
  LET l == hold[p]
      m == sending[p]
      later == {k \in DOMAIN list[l] : when[list[l][k]] > when[m]}
      i == IF later = {} THEN Len(list[l]) + 1 ELSE Min(later)
  IN  /\ call[p] = "enqueue" /\ pc[l] \notin {"blocking", "popping"}
      /\ list' = [list EXCEPT ![l] = InsertAt(@, i, m)]
      /\ arrived' = Append(arrived, m)
      /\ sending' = [sending EXCEPT ![p] = None]
      /\ call' = [call EXCEPT ![p] = "drop"]
      /\ UNCHANGED <<now, main, mutex, running, hold, stops, messages, workers>>

Exit(p) ==
  /\ call[p] = "exit"
  /\ running' = [running EXCEPT ![hold[p]] = FALSE]
  /\ call' = [call EXCEPT ![p] = "drop"]
  /\ UNCHANGED <<now, main, mutex, list, hold, sending, stops, arrived, messages, workers>>

\* The temporary shared pointer dies, and the looper with it if it was the last.
Drop(p) ==
  LET last == main # hold[p] /\ Owners(hold[p]) = {p}
  IN  /\ call[p] = "drop"
      /\ call' = [call EXCEPT ![p] = IF last THEN "destroy" ELSE "idle"]
      /\ hold' = [hold EXCEPT ![p] = IF last THEN @ ELSE None]
      /\ UNCHANGED <<now, main, mutex, running, list, sending, stops, arrived,
                     messages, workers>>

StopCall(p) ==
  /\ CanCall(p) /\ stops < Cardinality(Loopers) - 1
  /\ stops' = stops + 1
  /\ call' = [call EXCEPT ![p] = "unset"]
  /\ UNCHANGED <<now, main, mutex, running, list, hold, sending, arrived,
                 messages, workers>>

\* Mutant: the looper dies with main_looper_, whoever else still uses it.
UnsetDestroys(p) ==
  /\ call[p] = "unset" /\ mutex = None
  /\ main' = None
  /\ IF main # None
     THEN /\ mutex' = p
          /\ hold' = [hold EXCEPT ![p] = main]
          /\ call' = [call EXCEPT ![p] = "destroy"]
     ELSE /\ call' = [call EXCEPT ![p] = "idle"]
          /\ UNCHANGED <<mutex, hold>>
  /\ UNCHANGED <<now, running, list, sending, stops, arrived, messages, workers>>

\* StopMainLooper under its mutex: the assignment destroys the looper, if no
\* call holds it, before the mutex is let go.
Unset(p) ==
  /\ call[p] = "unset" /\ mutex = None
  /\ main' = None
  /\ IF main # None /\ Owners(main) = {}
     THEN /\ mutex' = p
          /\ hold' = [hold EXCEPT ![p] = main]
          /\ call' = [call EXCEPT ![p] = "destroy"]
     ELSE /\ call' = [call EXCEPT ![p] = "idle"]
          /\ UNCHANGED <<mutex, hold>>
  /\ UNCHANGED <<now, running, list, sending, stops, arrived, messages, workers>>

\* ~Looper: _running = false, then join, then the members.
Destroy(p) ==
  /\ call[p] = "destroy"
  /\ running' = [running EXCEPT ![hold[p]] = FALSE]
  /\ call' = [call EXCEPT ![p] = "join"]
  /\ UNCHANGED <<now, main, mutex, list, hold, sending, stops, arrived, messages, workers>>

\* Mutant: messages of the destroyed looper stay in its list.
JoinKeeps(p) ==
  LET l == hold[p]
  IN  /\ call[p] = "join" /\ l # p /\ pc[l] = "exited"
      /\ pc' = [pc EXCEPT ![l] = "gone"]
      /\ dropped' = dropped \union Queued(l)
      /\ mutex' = IF mutex = p THEN None ELSE mutex
      /\ hold' = [hold EXCEPT ![p] = None]
      /\ call' = [call EXCEPT ![p] = "idle"]
      /\ UNCHANGED <<now, main, list, running, sending, stops, arrived, when, sent, job, handled>>

\* The thread has ended: what is left in the list dies with it.
Join(p) ==
  LET l == hold[p]
  IN  /\ call[p] = "join" /\ l # p /\ pc[l] = "exited"
      /\ pc' = [pc EXCEPT ![l] = "gone"]
      /\ dropped' = dropped \union Queued(l)
      /\ list' = [list EXCEPT ![l] = <<>>]
      /\ mutex' = IF mutex = p THEN None ELSE mutex
      /\ hold' = [hold EXCEPT ![p] = None]
      /\ call' = [call EXCEPT ![p] = "idle"]
      /\ UNCHANGED <<now, main, running, sending, stops, arrived, when, sent, job, handled>>

\* A handler destroyed its own looper: join throws out of the destructor and
\* the process is terminated.
JoinSelf(p) ==
  /\ call[p] = "join" /\ hold[p] = p
  /\ call' = [call EXCEPT ![p] = "terminated"]
  /\ UNCHANGED <<now, main, mutex, running, list, hold, sending, stops, arrived,
                 messages, workers>>

-----------------------------------------------------------------------------
\* The worker of looper l: Loop, MessageQueue::Next, LockList::WaitPopFront.

Step(l, from, to) == pc[l] = from /\ pc' = [pc EXCEPT ![l] = to]
Apart == <<now, main, mutex, running, call, hold, sending, stops, arrived, messages>>

\* Mutant: the loop does not look at _running.
TestDeaf(l) ==
  /\ Step(l, "test", "look")
  /\ UNCHANGED <<list, job, handled, Apart>>

Test(l) ==
  /\ Step(l, "test", IF running[l] THEN "look" ELSE "exited")
  /\ UNCHANGED <<list, job, handled, Apart>>

\* Mutant: wait without a predicate.
LookBlind(l) ==
  /\ Step(l, "look", "blocking")
  /\ UNCHANGED <<list, job, handled, Apart>>

\* The predicate of wait, under the mutex; it does not look at _running.
Look(l) ==
  /\ Step(l, "look", IF list[l] = <<>> THEN "blocking" ELSE "popping")
  /\ UNCHANGED <<list, job, handled, Apart>>

Block(l) ==
  /\ Step(l, "blocking", "waiting")
  /\ UNCHANGED <<list, job, handled, Apart>>

\* Nothing notifies this condition variable; it may still wake up.
Spurious(l) ==
  /\ Step(l, "waiting", "look")
  /\ UNCHANGED <<list, job, handled, Apart>>

\* Next takes the first message, due or not; its handlers begin.
Next(l) ==
  /\ Step(l, "popping", "running")
  /\ job' = [job EXCEPT ![l] = Head(list[l])]
  /\ list' = [list EXCEPT ![l] = Tail(@)]
  /\ UNCHANGED <<handled, Apart>>

\* Message::Run returns, and the message is released.
Handled(l) ==
  /\ call[l] = "idle"
  /\ Step(l, "running", "test")
  /\ handled' = handled \union {job[l]}
  /\ job' = [job EXCEPT ![l] = None]
  /\ UNCHANGED <<list, Apart>>

Tick ==
  /\ now < MaxTime
  /\ now' = now + 1
  /\ UNCHANGED <<main, mutex, running, list, call, hold, sending, stops, arrived,
                 messages, workers>>

Terminated == \E p \in Threads : call[p] = "terminated"

Call(p) ==
  \/ MainLooper(p) \/ Enqueue(p) \/ Exit(p) \/ Drop(p) \/ Unset(p)
  \/ Destroy(p) \/ Join(p) \/ JoinSelf(p)

Work(l) == Test(l) \/ Look(l) \/ Block(l) \/ Next(l) \/ Handled(l)

Steps ==
  /\ ~Terminated
  /\ \/ \E p \in Threads :
          \/ \E m \in Messages, delay \in Delays : Send(p, m, delay)
          \/ ExitCall(p)
          \/ StopCall(p)
          \/ Call(p)
     \/ \E l \in Loopers : Work(l) \/ Spurious(l)
     \/ Tick

Spec == Init /\ [][Steps]_vars

\* Threads are scheduled and calls go on once begun; a handler returns, however
\* many calls it makes before; and a worker that wakes up without cause again
\* and again does not keep the mutex of its list from Enqueue for ever.  Messages
\* are sent once: for each to be enqueued and handled it is enough that one is.
Fairness ==
  /\ \A p \in Clients : WF_vars(~Terminated /\ Call(p))
  /\ \A l \in Loopers : WF_vars(~Terminated /\ (Call(l) \/ Work(l)))
  /\ SF_vars(~Terminated /\ \E p \in Threads : Enqueue(p))
  /\ SF_vars(~Terminated /\ \E l \in Loopers : Handled(l))

-----------------------------------------------------------------------------
\* Properties.

Before(m, n) == \E i, j \in DOMAIN arrived : i < j /\ arrived[i] = m /\ arrived[j] = n

\* QueueOrdered: of two messages that wait in one looper the one due first is
\* handled first, and of two due at the same time the one enqueued first.
QueueOrdered ==
  \A l \in Loopers : \A i, j \in DOMAIN list[l] :
    i < j => LET m == list[l][i]
                 n == list[l][j]
             IN  when[m] < when[n] \/ (when[m] = when[n] /\ Before(m, n))

Alive(l) == pc[l] \notin {"none", "gone"}
Destroyers(l) == {p \in Owners(l) : call[p] \in {"destroy", "join", "terminated"}}

\* LooperOwned: a looper exists exactly as long as somebody can use it: it is
\* the main looper, a call in progress holds it, or one thread destroys it, and
\* then nobody else holds it.  Two loopers run handlers at the same time only
\* while a call that began before StopMainLooper holds the older one.
LooperOwned ==
  \A l \in Loopers :
    /\ Alive(l) <=> main = l \/ Owners(l) # {}
    /\ Destroyers(l) # {} => main # l /\ Cardinality(Owners(l)) = 1
    /\ ~Alive(l) => list[l] = <<>>

InCall == {sending[p] : p \in {q \in Threads : call[q] \in {"get", "enqueue"}}} \ {None}
Running == {l \in Loopers : pc[l] = "running"}

\* MessagesKept: a message that was sent is in the hands of its sender, in one
\* list once, run by one worker, handled, or lost with its looper; StopMainLooper
\* and the calls that race with it neither lose others nor run one twice.
MessagesKept ==
  LET places == <<InCall, UNION {Queued(l) : l \in Loopers}, {job[l] : l \in Running},
                  handled, dropped>>
  IN  /\ sent = UNION {places[k] : k \in DOMAIN places}
      /\ \A j, k \in DOMAIN places : j # k => places[j] \intersect places[k] = {}
      /\ \A k, l \in Loopers : k # l => Queued(k) \intersect Queued(l) = {}
      /\ \A l \in Loopers : Cardinality(Queued(l)) = Len(list[l])

Asleep(l) == pc[l] \in {"blocking", "waiting"} \/ (pc[l] = "look" /\ list[l] = <<>>)

\* Delivered: a message in the list of a worker that is awake is handed to its
\* handlers, or the looper is stopped.  A worker asleep in Next is not woken by
\* Enqueue, so nothing is said of it.
Delivered ==
  \A m \in Messages :
    (\E l \in Loopers : m \in Queued(l) /\ ~Asleep(l))
      ~> Terminated \/ \A l \in Loopers : m \in Queued(l) => ~running[l]

\* Whom a thread waits for: who holds the mutex of the main looper, or the worker it joins.
WaitsFor(p) ==
  IF call[p] = "join" THEN {hold[p]}
  ELSE IF call[p] \in {"get", "unset"} THEN {mutex} \ {None} ELSE {}

\* The thread waits, for others that wait in their turn, for one that sleeps in Next or for
\* one another.
Stuck(p) ==
  \E knot \in SUBSET Threads :
    /\ p \in knot
    /\ \A q \in knot : WaitsFor(q) \subseteq knot /\ (WaitsFor(q) # {} \/ (q \in Loopers /\ Asleep(q)))

\* StopReturns: a thread that joins a worker which is not asleep in Next comes back, unless
\* the worker runs a handler that is stuck itself.  Such a handler calls MainLooper or
\* StopMainLooper while their mutex is held by a thread that joins it, that joins a worker
\* asleep, or that joins another handler of this kind; or it destroys such a looper itself.
StopReturns ==
  \A p \in Threads :
    call[p] = "join" /\ ~Asleep(hold[p]) ~>
      call[p] # "join" \/ (pc[hold[p]] = "running" /\ Stuck(hold[p])) \/ Terminated
=============================================================================
