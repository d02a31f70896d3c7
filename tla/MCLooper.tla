------------------------------ MODULE MCLooper ------------------------------
(***************************************************************************)
(* The two sides of message_queue/ for the safety properties: Looper, with *)
(* two clients and two loopers, and the handlers of one Builder.  A        *)
(* behaviour takes the steps of one of them.                               *)
(***************************************************************************)
EXTENDS Looper, Handlers, TLC

VARIABLE part

MCDelays == {0, 1}
Symmetric == Permutations(Clients) \union Permutations(Messages)

MCInit == part \in {"looper", "builder"} /\ Init /\ BuilderInit

MCNext ==
  /\ UNCHANGED part
  /\ \/ part = "looper" /\ Steps /\ UNCHANGED builder
     \/ part = "builder" /\ BuilderNext /\ UNCHANGED vars

MCSpec == MCInit /\ [][MCNext]_<<part, vars, builder>>
=============================================================================
