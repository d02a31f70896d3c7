----------------------------- MODULE Container -----------------------------
(***************************************************************************)
(* What the containers of efficient/ promise: a Queue hands out its values *)
(* oldest first, a Stack newest first, and an INSTWLinkList keeps the      *)
(* order of its pushes at both ends and loses only what a Remove matches,  *)
(* first match first, and all matches if it is asked for all.              *)
(***************************************************************************)
EXTENDS SequencesExt

CONSTANTS Values

VARIABLES kind,    \* the class of the object: "queue", "stack" or "list"
          items,   \* what it holds, the next to be handed out first
          phase,   \* "idle", a Remove ("first" or "all"), "destroy" or "gone"
          match    \* the values that Remove deletes

vars == <<kind, items, phase, match>>

Init ==
  /\ kind \in {"queue", "stack", "list"}
  /\ items = <<>> /\ phase = "idle" /\ match = {}

Enqueue(v) ==
  /\ phase = "idle" /\ kind \in {"queue", "list"}
  /\ items' = Append(items, v)
  /\ UNCHANGED <<phase, match>>

Push(v) ==
  /\ phase = "idle" /\ kind \in {"stack", "list"}
  /\ items' = <<v>> \o items
  /\ UNCHANGED <<phase, match>>

TakeFirst ==
  /\ phase = "idle" => kind \in {"queue", "stack"}
  /\ phase \in {"idle", "destroy"} /\ items # <<>>
  /\ items' = Tail(items)
  /\ UNCHANGED <<phase, match>>

Begin(loop, values) ==
  /\ phase = "idle" /\ kind = "list"
  /\ phase' = loop /\ match' = values
  /\ UNCHANGED items

RemoveOne ==
  /\ phase \in {"first", "all"}
  /\ ToSet(items) \intersect match # {}
  /\ items' = RemoveFirstMatch(items, LAMBDA v : v \in match)
  /\ IF phase = "first" THEN phase' = "idle" /\ match' = {}
     ELSE UNCHANGED <<phase, match>>

End ==
  /\ phase \in {"first", "all"}
  /\ ToSet(items) \intersect match = {}
  /\ phase' = "idle" /\ match' = {}
  /\ UNCHANGED items

Close == phase = "idle" /\ phase' = "destroy" /\ UNCHANGED <<items, match>>

Closed ==
  /\ phase = "destroy" /\ items = <<>>
  /\ phase' = "gone"
  /\ UNCHANGED <<items, match>>

Next ==
  /\ \/ \E v \in Values : Enqueue(v) \/ Push(v)
     \/ TakeFirst
     \/ \E loop \in {"first", "all"}, values \in SUBSET Values : Begin(loop, values)
     \/ RemoveOne \/ End \/ Close \/ Closed
  /\ UNCHANGED kind

Spec == Init /\ [][Next]_vars
=============================================================================
