-------------------------------- MODULE Actor --------------------------------
(***************************************************************************)
(* The actors of actor/: Active, a queue of events with a thread that      *)
(* dispatches them, and Handle, which knows the actors subscribed to each  *)
(* signal and publishes an event to all of them.                           *)
(*                                                                         *)
(* One owner thread registers, starts and stops the actors; _work_thread   *)
(* and _actors have no lock.  Clients subscribe, publish and push at any   *)
(* time.  Hsm::Dispatch is empty, so an actor makes no calls of its own.   *)
(*                                                                         *)
(* Deque pushes and notifies in one critical section and Pop looks and     *)
(* waits in one, so each is a step and its mutex needs no variable.        *)
(***************************************************************************)
EXTENDS Integers, Sequences, FiniteSets

CONSTANTS Actives,    \* the Active objects
          Clients,    \* threads that publish
          Events,     \* events, each published or pushed once
          SignalOf,   \* [Events -> signals]: Event::_signal
          EmptyEvent, \* StdEventPtr[EVENT_EMPTY]
          None,       \* no client, no event, no actor
          MaxActors,  \* bound: calls of RegisterActor
          MaxStops    \* bound: calls of Stop

Signals == {SignalOf[e] : e \in Events}

ASSUME NamesAssumption ==
  /\ None \notin Actives \union Clients \union Events
  /\ EmptyEvent \notin Events
  /\ DOMAIN SignalOf = Events
  /\ MaxActors \in Nat /\ MaxStops \in Nat

VARIABLES subscribed,  \* _subscribe_map, as a set of actors per signal
          mutex,       \* Handle::_mutex: the client that publishes
          event, left, \* what each client publishes, and the actors not reached yet
          actors,      \* _actors
          queue, running,
          pc,          \* where each actor's thread is; "none" without a thread
          step, target,\* where the owner is in a call, and the actor it is for
          index,       \* Handle::start: actors still to be started
          stops,       \* bound: calls of Stop so far
          used,        \* history: events published or pushed
          audience,    \* history: who was subscribed when an event was published
          seen         \* history: the events each actor has dispatched

handle == <<subscribed, mutex, event, left, audience>>
owner == <<actors, step, target, index, stops>>
vars == <<handle, owner, queue, running, pc, used, seen>>

Init ==
  /\ subscribed = [s \in Signals |-> {}]
  /\ mutex = None
  /\ event = [p \in Clients |-> None] /\ left = [p \in Clients |-> {}]
  /\ actors = <<>> /\ step = "idle" /\ target = None /\ index = 0 /\ stops = 0
  /\ queue = [a \in Actives |-> <<>>]
  /\ running = [a \in Actives |-> TRUE]
  /\ pc = [a \in Actives |-> "none"]
  /\ used = {} /\ audience = [e \in Events |-> {}]
  /\ seen = [a \in Actives |-> <<>>]

-----------------------------------------------------------------------------
\* Deque: notify_one wakes the one thread that pops.

Woken(a) == [pc EXCEPT ![a] = IF @ = "waiting" THEN "pop" ELSE @]
Push(a, e) == queue' = [queue EXCEPT ![a] = Append(@, e)] /\ pc' = Woken(a)

\* Active::PushBack and PushFront, called by anyone.
PushBack(a, e) ==
  /\ e \notin used
  /\ used' = used \union {e}
  /\ Push(a, e)
  /\ audience' = [audience EXCEPT ![e] = {a}]
  /\ UNCHANGED <<subscribed, mutex, event, left, owner, running, seen>>

\* Mutant: PushFront does not notify.
PushFrontQuiet(a, e) ==
  /\ e \notin used
  /\ used' = used \union {e}
  /\ queue' = [queue EXCEPT ![a] = <<e>> \o @]
  /\ audience' = [audience EXCEPT ![e] = {a}]
  /\ UNCHANGED <<subscribed, mutex, event, left, owner, running, pc, seen>>

PushFront(a, e) ==
  /\ e \notin used
  /\ used' = used \union {e}
  /\ queue' = [queue EXCEPT ![a] = <<e>> \o @]
  /\ pc' = Woken(a)
  /\ audience' = [audience EXCEPT ![e] = {a}]
  /\ UNCHANGED <<subscribed, mutex, event, left, owner, running, seen>>

-----------------------------------------------------------------------------
\* Handle.

Subscribe(a, s) ==
  /\ mutex = None
  /\ subscribed' = [subscribed EXCEPT ![s] = @ \union {a}]
  /\ UNCHANGED <<mutex, event, left, audience, owner, queue, running, pc, used, seen>>

UnSubscribe(a, s) ==
  /\ mutex = None
  /\ subscribed' = [subscribed EXCEPT ![s] = @ \ {a}]
  /\ UNCHANGED <<mutex, event, left, audience, owner, queue, running, pc, used, seen>>

Announce(p, e) ==
  /\ event[p] = None /\ e \notin used
  /\ event' = [event EXCEPT ![p] = e]
  /\ used' = used \union {e}
  /\ left' = [left EXCEPT ![p] = subscribed[SignalOf[e]]]
  /\ audience' = [audience EXCEPT ![e] = subscribed[SignalOf[e]]]
  /\ UNCHANGED <<subscribed, owner, queue, running, pc, seen>>

\* Mutant: Publish copies the set and does not keep the mutex.
PublishUnlocked(p, e) == Announce(p, e) /\ UNCHANGED mutex

\* Publish takes the mutex and finds the actors of the signal.
Publish(p, e) == mutex = None /\ Announce(p, e) /\ mutex' = p

\* Mutant: only actors that have a thread are given the event.
DeliverStarted(p) ==
  /\ \E a \in left[p] :
       /\ IF pc[a] = "none" THEN UNCHANGED <<queue, pc>> ELSE Push(a, event[p])
       /\ left' = [left EXCEPT ![p] = @ \ {a}]
  /\ UNCHANGED <<subscribed, mutex, event, audience, owner, running, used, seen>>

\* One turn of the loop over the set, which is ordered by address.
Deliver(p) ==
  /\ \E a \in left[p] :
       /\ Push(a, event[p])
       /\ left' = [left EXCEPT ![p] = @ \ {a}]
  /\ UNCHANGED <<subscribed, mutex, event, audience, owner, running, used, seen>>

Published(p) ==
  /\ event[p] # None /\ left[p] = {}
  /\ event' = [event EXCEPT ![p] = None]
  /\ mutex' = IF mutex = p THEN None ELSE mutex
  /\ UNCHANGED <<subscribed, left, audience, owner, queue, running, pc, used, seen>>

-----------------------------------------------------------------------------
\* The owner: RegisterActor, Handle::start, Active::Start and Stop.

Free == step = "idle"
Idle == step' = "idle" /\ target' = None

\* Initialize does nothing.
RegisterActor(a) ==
  /\ Free /\ Len(actors) < MaxActors
  /\ actors' = Append(actors, a)
  /\ UNCHANGED <<handle, step, target, index, stops, queue, running, pc, used, seen>>

\* Start replaces _work_thread; a thread that was not joined terminates the
\* process.
Launch(a) ==
  /\ running' = [running EXCEPT ![a] = TRUE]
  /\ pc' = [pc EXCEPT ![a] = IF @ = "none" THEN "test" ELSE "terminated"]

Start(a) ==
  /\ Free
  /\ Launch(a)
  /\ UNCHANGED <<handle, owner, queue, used, seen>>

StartAll ==
  /\ Free /\ actors # <<>>
  /\ step' = "start" /\ index' = 1
  /\ UNCHANGED <<handle, actors, target, stops, queue, running, pc, used, seen>>

StartNext ==
  /\ step = "start"
  /\ Launch(actors[index])
  /\ IF index < Len(actors)
     THEN index' = index + 1 /\ UNCHANGED <<step, target>>
     ELSE index' = 0 /\ Idle
  /\ UNCHANGED <<handle, actors, stops, queue, used, seen>>

Stop(a) ==
  /\ Free /\ stops < MaxStops
  /\ stops' = stops + 1
  /\ running' = [running EXCEPT ![a] = FALSE]
  /\ step' = "size" /\ target' = a
  /\ UNCHANGED <<handle, actors, index, queue, pc, used, seen>>

\* Mutant: the queue is asked for its size the wrong way round.
StopSizeInverted ==
  /\ step = "size"
  /\ step' = IF queue[target] # <<>> THEN "push" ELSE "join"
  /\ UNCHANGED <<handle, actors, target, index, stops, queue, running, pc, used, seen>>

\* Size and the push of EVENT_EMPTY are two critical sections.
StopSize ==
  /\ step = "size"
  /\ step' = IF queue[target] = <<>> THEN "push" ELSE "join"
  /\ UNCHANGED <<handle, actors, target, index, stops, queue, running, pc, used, seen>>

StopPush ==
  /\ step = "push"
  /\ Push(target, EmptyEvent)
  /\ step' = "join"
  /\ UNCHANGED <<handle, actors, target, index, stops, running, used, seen>>

StopJoin ==
  /\ step = "join" /\ pc[target] \in {"none", "exited"}
  /\ pc' = [pc EXCEPT ![target] = "none"]
  /\ Idle
  /\ UNCHANGED <<handle, actors, index, stops, queue, running, used, seen>>

-----------------------------------------------------------------------------
\* The thread of an actor.

Test(a) ==
  /\ pc[a] = "test"
  /\ pc' = [pc EXCEPT ![a] = IF running[a] THEN "pop" ELSE "exited"]
  /\ UNCHANGED <<handle, owner, queue, running, used, seen>>

\* Pop waits, or takes the first event, which Dispatch consumes.
Pop(a) ==
  /\ pc[a] = "pop"
  /\ IF queue[a] = <<>>
     THEN pc' = [pc EXCEPT ![a] = "waiting"] /\ UNCHANGED <<queue, seen>>
     ELSE /\ pc' = [pc EXCEPT ![a] = "test"]
          /\ queue' = [queue EXCEPT ![a] = Tail(@)]
          /\ seen' = IF Head(queue[a]) = EmptyEvent THEN seen
                     ELSE [seen EXCEPT ![a] = Append(@, Head(queue[a]))]
  /\ UNCHANGED <<handle, owner, running, used>>

Spurious(a) ==
  /\ pc[a] = "waiting"
  /\ pc' = [pc EXCEPT ![a] = "pop"]
  /\ UNCHANGED <<handle, owner, queue, running, used, seen>>

Terminated == \E a \in Actives : pc[a] = "terminated"

Client ==
  \/ \E a \in Actives, e \in Events : PushBack(a, e) \/ PushFront(a, e)
  \/ \E a \in Actives, s \in Signals : Subscribe(a, s) \/ UnSubscribe(a, s)
  \/ \E p \in Clients, e \in Events : Publish(p, e)

Owner ==
  \/ \E a \in Actives : RegisterActor(a) \/ Start(a) \/ Stop(a)
  \/ StartAll \/ StartNext \/ StopSize \/ StopPush \/ StopJoin

Next ==
  /\ ~Terminated
  /\ \/ Client
     \/ \E p \in Clients : Deliver(p) \/ Published(p)
     \/ Owner
     \/ \E a \in Actives : Test(a) \/ Pop(a) \/ Spurious(a)

Spec == Init /\ [][Next]_vars

\* Threads are scheduled; Stop and Publish go on once begun.
FairSpec ==
  /\ Spec
  /\ \A a \in Actives : WF_vars(~Terminated /\ (Test(a) \/ Pop(a)))
  /\ WF_vars(~Terminated /\ (StartNext \/ StopSize \/ StopPush \/ StopJoin))
  /\ \A p \in Clients : WF_vars(~Terminated /\ (Deliver(p) \/ Published(p)))

-----------------------------------------------------------------------------
\* Properties.

\* The events actor a has been given, in the order in which it dispatches them.
Path(a) == seen[a] \o queue[a]
Times(a, e) == Cardinality({i \in DOMAIN Path(a) : Path(a)[i] = e})
Precedes(a, e, f) ==
  \E i, j \in DOMAIN Path(a) : i < j /\ Path(a)[i] = e /\ Path(a)[j] = f

\* OrderAgrees: events that reach two actors reach them in the same order, as
\* long as nobody uses PushFront or the direct PushBack, which name one actor
\* (Publish keeps Handle::_mutex until every actor has been reached).
OrderAgrees ==
  \A a, b \in Actives, e, f \in Events :
    a # b /\ {a, b} \subseteq audience[e] \intersect audience[f] =>
      ~(Precedes(a, e, f) /\ Precedes(b, f, e))

\* EventsKept: a published event reaches every actor that was subscribed when
\* Publish began, once, whether its thread runs or not, and nobody else; those
\* it still has to reach are subscribed now, so that an actor is given nothing
\* once UnSubscribe has returned.
EventsKept ==
  /\ \A a \in Actives, e \in Events :
       Times(a, e) =
         IF a \in audience[e] /\ \A p \in Clients : event[p] = e => a \notin left[p]
         THEN 1 ELSE 0
  /\ \A p \in Clients : left[p] # {} => left[p] \subseteq subscribed[SignalOf[event[p]]]

\* Dispatched: an event in the queue of an actor that runs is dispatched, or the
\* actor is stopped.
Dispatched ==
  \A a \in Actives, e \in Events :
    pc[a] # "none" /\ (\E i \in DOMAIN queue[a] : queue[a][i] = e) ~>
      (\E i \in DOMAIN seen[a] : seen[a][i] = e) \/ ~running[a] \/ Terminated

\* StopReturns: Stop returns whatever the thread was doing: _running is cleared
\* before the queue is looked at, and an empty queue is given EVENT_EMPTY.
StopReturns == step = "join" ~> step # "join" \/ Terminated
=============================================================================
