----------------------------- MODULE LinkedList -----------------------------
(***************************************************************************)
(* The linked containers of efficient/ as memory: Queue, Stack and         *)
(* INSTWLinkList over TWLinkList.  All three are rings of nodes through a  *)
(* head; the functions next and prev are the two pointers of every node    *)
(* that exists.  Allocation may hand out a node that was freed before, and *)
(* the pointers of a freed node are gone (Null), so that a loop that reads *)
(* through one leaves the ring.  The loops that delete while they walk     *)
(* (Remove, the destructor) take one step per node.                        *)
(*                                                                         *)
(* An object is used by one thread; its copy constructors, which share the *)
(* head, are never called.                                                 *)
(***************************************************************************)
EXTENDS Naturals, FiniteSets, SequencesExt

CONSTANTS Nodes,    \* the addresses `new` can return
          Values,   \* what a node stores
          HeadNode,     \* the node _head points to
          Null      \* no pointer, no value

ASSUME HeadAssumption == HeadNode \notin Nodes /\ Null \notin Nodes \union {HeadNode}
ASSUME NullAssumption == Null \notin Values

VARIABLES kind,         \* which of the three classes the object has
          next, prev,   \* the pointers, by node
          data,         \* the value of each node; Null if it does not exist
          pc,           \* "idle", or the loop the caller is in, or "gone"
          iter,         \* iter of that loop
          match         \* the values that Remove deletes

vars == <<kind, next, prev, data, pc, iter, match>>

Live == {n \in Nodes : data[n] # Null}
Ring == Live \union {HeadNode}

-----------------------------------------------------------------------------
Init ==
  /\ kind \in {"queue", "stack", "list"}
  /\ next = [n \in Nodes \union {HeadNode} |-> IF n = HeadNode THEN HeadNode ELSE Null]
  /\ prev = next
  /\ data = [n \in Nodes |-> Null]
  /\ pc = "idle" /\ iter = HeadNode /\ match = {}

\* InsertTWLinkList: the new node n goes between p and x.
Insert(n, p, x) ==
  /\ next' = [next EXCEPT ![n] = x, ![p] = n]
  /\ prev' = [prev EXCEPT ![x] = n, ![n] = p]

\* DestroyNode, then delete; q and r are the neighbours that are joined.
Unlink(n, q, r) ==
  /\ next' = [next EXCEPT ![q] = r, ![n] = Null]
  /\ prev' = [prev EXCEPT ![r] = q, ![n] = Null]
  /\ data' = [data EXCEPT ![n] = Null]

New(n, v) ==
  /\ pc = "idle"
  /\ n \notin Live
  /\ data' = [data EXCEPT ![n] = v]
  /\ UNCHANGED <<kind, pc, iter, match>>

\* Queue::Push, Stack::Push and INSTWLinkList::PushFront
PushFront(n, v) == New(n, v) /\ Insert(n, HeadNode, next[HeadNode])

PushBack(n, v) == kind = "list" /\ New(n, v) /\ Insert(n, prev[HeadNode], HeadNode)

\* Mutant: the loop variable starts at the end that Push fills.
QueuePopNewest ==
  /\ kind = "queue"
  /\ pc \in {"idle", "destroy"}
  /\ next[HeadNode] # HeadNode
  /\ Unlink(next[HeadNode], HeadNode, next[next[HeadNode]])
  /\ UNCHANGED <<kind, pc, iter, match>>

\* Both overloads of Pop; an empty container returns false.
QueuePop ==
  /\ kind = "queue"
  /\ pc \in {"idle", "destroy"}
  /\ prev[HeadNode] # HeadNode
  /\ Unlink(prev[HeadNode], prev[prev[HeadNode]], HeadNode)
  /\ UNCHANGED <<kind, pc, iter, match>>

StackPop ==
  /\ kind = "stack"
  /\ pc \in {"idle", "destroy"}
  /\ next[HeadNode] # HeadNode
  /\ Unlink(next[HeadNode], HeadNode, next[next[HeadNode]])
  /\ UNCHANGED <<kind, pc, iter, match>>

-----------------------------------------------------------------------------
(* The loops of INSTWLinkList.                                             *)

\* Remove(value): values has one element; Remove(pr): those pr accepts.
RemoveStart(loop, values) ==
  /\ kind = "list" /\ pc = "idle"
  /\ loop = "first" => \E v \in Values : values = {v}
  /\ pc' = loop /\ match' = values /\ iter' = next[HeadNode]
  /\ UNCHANGED <<kind, next, prev, data>>

Leave ==
  /\ pc' = "idle" /\ iter' = HeadNode /\ match' = {}

LoopEnd ==
  /\ pc \in {"first", "all"}
  /\ iter = HeadNode
  /\ Leave
  /\ UNCHANGED <<kind, next, prev, data>>

LoopKeep ==
  /\ pc \in {"first", "all"}
  /\ iter # HeadNode /\ data[iter] \notin match
  /\ iter' = next[iter]
  /\ UNCHANGED <<kind, next, prev, data, pc, match>>

\* Mutant: the node is deleted before its _next is read.
LoopDeleteFirst ==
  /\ pc \in {"first", "all"}
  /\ iter # HeadNode /\ data[iter] \in match
  /\ Unlink(iter, prev[iter], next[iter])
  /\ IF pc = "first" THEN Leave ELSE iter' = Null /\ UNCHANGED <<pc, match>>
  /\ UNCHANGED kind

\* Remove(value) returns after the first match; Remove(pr) goes on.
LoopDelete ==
  /\ pc \in {"first", "all"}
  /\ iter # HeadNode /\ data[iter] \in match
  /\ Unlink(iter, prev[iter], next[iter])
  /\ IF pc = "first" THEN Leave ELSE iter' = next[iter] /\ UNCHANGED <<pc, match>>
  /\ UNCHANGED kind

-----------------------------------------------------------------------------
(* The destructors.  Those of Queue and Stack call Pop until it fails.     *)

Destruct ==
  /\ pc = "idle"
  /\ pc' = "destroy"
  /\ iter' = IF kind = "list" THEN next[HeadNode] ELSE HeadNode
  /\ UNCHANGED <<kind, next, prev, data, match>>

DestructNode ==
  /\ kind = "list" /\ pc = "destroy"
  /\ iter # HeadNode
  /\ Unlink(iter, prev[iter], next[iter])
  /\ iter' = next[iter]
  /\ UNCHANGED <<kind, pc, match>>

DestructEnd ==
  /\ pc = "destroy"
  /\ IF kind = "list" THEN iter = HeadNode
     ELSE IF kind = "queue" THEN prev[HeadNode] = HeadNode ELSE next[HeadNode] = HeadNode
  /\ pc' = "gone" /\ iter' = HeadNode
  /\ UNCHANGED <<kind, next, prev, data, match>>

Next ==
  \/ \E n \in Nodes, v \in Values : PushFront(n, v) \/ PushBack(n, v)
  \/ QueuePop \/ StackPop
  \/ \E loop \in {"first", "all"}, values \in SUBSET Values : RemoveStart(loop, values)
  \/ LoopEnd \/ LoopKeep \/ LoopDelete
  \/ Destruct \/ DestructNode \/ DestructEnd

Spec == Init /\ [][Next]_vars

-----------------------------------------------------------------------------
\* The nodes that Ergodic and Size visit when they follow _next.
Path ==
  LET path[i \in Nat] ==
        IF i = 0 THEN <<>>
        ELSE LET before == path[i - 1]
                 x == next[IF before = <<>> THEN HeadNode ELSE Last(before)]
             IN  IF x \in Live THEN Append(before, x) ELSE before
  IN  path[Cardinality(Live)]

\* Linked: both pointers of every node of the ring lead to a node of the ring,
\* each undoes the other, a value that does not exist is nowhere, and a loop that
\* deletes while it walks never stands on a freed node.
Linked ==
  /\ data \in [Nodes -> Values \union {Null}]
  /\ DOMAIN next = Nodes \union {HeadNode} /\ DOMAIN prev = Nodes \union {HeadNode}
  /\ \A n \in Ring : /\ next[n] \in Ring /\ prev[n] \in Ring
                     /\ prev[next[n]] = n /\ next[prev[n]] = n
  /\ iter \in Ring

\* AllFreed: the destructor leaves no node behind.
AllFreed == pc = "gone" => Live = {}

\* The contents as the class promises them: a queue is pushed at the front and
\* popped at the back.
Contents ==
  LET values == [i \in DOMAIN Path |-> data[Path[i]]]
  IN  IF kind = "queue" THEN Reverse(values) ELSE values

C == INSTANCE Container WITH items <- Contents, phase <- pc

\* RefinesContainer: the ring of nodes behaves as a queue, a stack or a list of
\* values: pops in the promised order, matches removed one by one from the front,
\* none left when Remove(pr) returns, and nothing left after the destructor.
RefinesContainer == C!Spec
=============================================================================
