------------------------------- MODULE MCActor -------------------------------
\* Actor with two actors, two clients and two or three events of one signal.
EXTENDS Actor, TLC

OneSignal == [e \in Events |-> "signal"]
Symmetric == Permutations(Actives) \union Permutations(Clients) \union Permutations(Events)
=============================================================================
