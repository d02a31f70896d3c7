------------------------------ MODULE Handlers ------------------------------
(***************************************************************************)
(* The handlers of a Builder: a LockList that Run walks with ForEach,      *)
(* calling each one while it holds the recursive mutex of the list.  Other *)
(* threads wait; the handler that runs may change the list under the loop, *)
(* whose iterator stands on the node that holds the handler.  A node is    *)
(* named by the number of its registration; the list is only pushed at the *)
(* back, so that its order is that of the numbers.                         *)
(***************************************************************************)
EXTENDS Naturals, FiniteSets

CONSTANTS Handlers,
          Runners,     \* the threads that use the Builder
          NoThread,
          MaxNodes     \* bound: registrations in all

VARIABLES handlers, \* _handler_list: the handler of each node in it
          nodes,    \* the nodes made so far
          owner,    \* the thread inside ForEach, which holds the mutex
          current,  \* the node its iterator stands on
          ran,      \* the nodes this ForEach has called
          self,     \* the handler that runs has removed its own node
          broken    \* the iterator was advanced from a freed node

builder == <<handlers, nodes, owner, current, ran, self, broken>>

BuilderInit ==
  /\ handlers = [n \in {} |-> NoThread] /\ nodes = 0
  /\ owner = NoThread /\ current = 0 /\ ran = {}
  /\ self = FALSE /\ broken = FALSE

In(n) == n \in DOMAIN handlers

\* The mutex is free, or t holds it already.
Locks(t) == owner \in {NoThread, t}

\* PushBack
RegisterHandler(t, h) ==
  /\ Locks(t) /\ nodes < MaxNodes
  /\ nodes' = nodes + 1
  /\ handlers' = [n \in DOMAIN handlers \union {nodes'} |-> IF n = nodes' THEN h ELSE handlers[n]]
  /\ UNCHANGED <<owner, current, ran, self, broken>>

\* Mutant: list::remove without the mutex.
RemoveUnlocked(t, gone) ==
  /\ handlers' = [n \in {m \in DOMAIN handlers : handlers[m] \notin gone} |-> handlers[n]]
  /\ UNCHANGED <<nodes, owner, current, ran, broken>>
  /\ self' = (self \/ (owner = t /\ ~In(current)'))

\* UnRegisterHandler: Remove of one handler, wherever it was registered, or Clear.
UnRegisterHandler(t, gone) == Locks(t) /\ RemoveUnlocked(t, gone)

\* The call of the first of the nodes left, or the end of the loop.
CallFirst(t, left) ==
  /\ IF left = {}
     THEN owner' = NoThread /\ current' = 0 /\ ran' = {}
     ELSE /\ owner' = t
          /\ current' \in left /\ \A n \in left : current' <= n
          /\ ran' = ran \union {current'}
  /\ self' = FALSE
  /\ UNCHANGED <<handlers, nodes, broken>>

\* Run: ForEach takes the mutex; a list without a handler is left at once.
Run(t) == owner = NoThread /\ DOMAIN handlers # {} /\ CallFirst(t, DOMAIN handlers)

\* Mutant: the loop counts its calls instead of following the nodes.
NextHandlerCounted(t) ==
  /\ owner = t /\ In(current)
  /\ CallFirst(t, {n \in DOMAIN handlers :
                     Cardinality({m \in DOMAIN handlers : m < n}) >= Cardinality(ran)})

\* The handler returns and the iterator moves on.
NextHandler(t) == owner = t /\ In(current) /\ CallFirst(t, {n \in DOMAIN handlers : n > current})

\* The iterator moves on from a node that is freed, and with it the handler that has
\* just run, if the list held its last pointer: undefined, and not followed further.
NextFreed(t) ==
  /\ owner = t /\ ~In(current)
  /\ broken' = TRUE
  /\ UNCHANGED <<handlers, nodes, owner, current, ran, self>>

BuilderNext ==
  /\ ~broken
  /\ \E t \in Runners :
       \/ \E h \in Handlers : RegisterHandler(t, h) \/ UnRegisterHandler(t, {h})
       \/ UnRegisterHandler(t, Handlers)
       \/ Run(t) \/ NextHandler(t) \/ NextFreed(t)

BuilderSpec == BuilderInit /\ [][BuilderNext]_builder

-----------------------------------------------------------------------------
\* Properties.

\* RemovedBySelf: while a handler runs, no other thread frees its node: the iterator is
\* lost only to a handler that unregisters itself, or clears the list.
RemovedBySelf == owner # NoThread /\ ~In(current) => self

\* RunsAll: when Run returns, every handler still registered has been called by it, those
\* included that were registered by handlers on the way, in the order of registration and
\* once; whatever was unregistered meanwhile neither hides nor repeats another.
RunsAll ==
  [][owner # NoThread =>
       /\ owner' = NoThread => DOMAIN handlers \subseteq ran
       /\ ran' # ran /\ owner' # NoThread => \A n \in ran : n < current']_builder
=============================================================================
