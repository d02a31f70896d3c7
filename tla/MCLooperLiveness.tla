--------------------------- MODULE MCLooperLiveness ---------------------------
(***************************************************************************)
(* Liveness of what waits on a list: the workers of Looper and those who   *)
(* join them, and three threads of a LockQueue.  A behaviour takes the     *)
(* steps of one of them.  Looper is run twice: one client, two messages    *)
(* and a clock for what is delivered; two clients and two calls of         *)
(* StopMainLooper for what is joined, where the message is not c1's: only  *)
(* that tells the clients apart.                                           *)
(***************************************************************************)
EXTENDS Looper, LockQueue

CONSTANTS c1, c2, l1, l2, l3, m1, m2

VARIABLE part

NoDelay == {0}

MCInit == part \in {"delivery", "joins", "queue"} /\ Init /\ QueueInit

MCNext ==
  /\ UNCHANGED part
  /\ \/ part = "delivery" /\ Steps /\ call'[c2] = "idle" /\ stops' <= 1 /\ UNCHANGED queue
     \/ part = "joins" /\ Steps /\ sent' \subseteq {m1} /\ sending'[c1] = None /\ now' = 0 /\ UNCHANGED queue
     \/ part = "queue" /\ QueueNext /\ UNCHANGED vars

MCFairSpec == MCInit /\ [][MCNext]_<<part, vars, queue>> /\ Fairness /\ QueueFairness
=============================================================================
