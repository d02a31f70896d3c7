----------------------------- MODULE ByteBuffer -----------------------------
(***************************************************************************)
(* What an AnnularCache promises: a first-in first-out buffer of bounded   *)
(* capacity.  A push takes as much as fits and a pop gives as much as      *)
(* there is; both answer how much that was, the length of moved.bytes.     *)
(***************************************************************************)
EXTENDS Integers, Sequences

VARIABLES capacity, content,
          moved       \* the last call, the bytes it asked for and those it took or gave

vars == <<capacity, content, moved>>

Lesser(a, b) == IF a < b THEN a ELSE b

Init ==
  /\ capacity \in Nat \ {0}
  /\ content = <<>> /\ moved = [call |-> "none", asked |-> 0, bytes |-> <<>>]

Push ==
  /\ moved'.call = "push"
  /\ Len(moved'.bytes) = Lesser(moved'.asked, capacity - Len(content))
  /\ content' = content \o moved'.bytes
  /\ UNCHANGED capacity

Pop ==
  /\ moved'.call = "pop"
  /\ Len(moved'.bytes) = Lesser(moved'.asked, Len(content))
  /\ content = moved'.bytes \o content'
  /\ UNCHANGED capacity

Next == Push \/ Pop

Spec == Init /\ [][Next]_vars
=============================================================================
