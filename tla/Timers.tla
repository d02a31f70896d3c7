------------------------------- MODULE Timers -------------------------------
(***************************************************************************)
(* What a TimerManager promises to the code that registers timers with it, *)
(* told without wheels, slots or a driver thread: a clock that counts      *)
(* ticks, and for every event at most one timer.  The clock never runs     *)
(* ahead of a timer that is due.                                           *)
(***************************************************************************)
EXTENDS Integers

CONSTANTS Events,     \* the ITimerEvent objects of the client
          Counts,     \* the repetition counts a timer can be started with
          Intervals   \* the intervals, in ticks

VARIABLES clock,      \* ticks the manager has executed
          timer       \* [Events -> [state, due, left, every]]

vars == <<clock, timer>>

\* A timer that is not armed has no due tick and no repetitions left to show.
Quiet(s) == [state |-> s, due |-> 0, left |-> 0, every |-> 0]
Armed(d, n, i) == [state |-> "armed", due |-> d, left |-> n, every |-> i]

Init == clock = 0 /\ timer = [e \in Events |-> Quiet("idle")]

\* Time passes only when no armed timer is overdue.
Tick ==
  /\ \A e \in Events : timer[e].state = "armed" => timer[e].due >= clock
  /\ clock' = clock + 1
  /\ UNCHANGED timer

Arm(e) ==
  /\ timer[e].state = "idle"
  /\ \E n \in Counts, i \in Intervals :
       timer' = [timer EXCEPT ![e] = Armed(clock + i, n, i)]
  /\ UNCHANGED clock

\* A timer fires in the first tick after its due tick; its last firing, or
\* the only one of a timer started with the count 0, stops it.
Fire(e) ==
  /\ timer[e].state = "armed"
  /\ timer[e].due < clock
  /\ timer' = [timer EXCEPT ![e] =
                 IF @.left <= 1 THEN Quiet("stopped")
                 ELSE Armed(@.due + @.every, @.left - 1, @.every)]
  /\ UNCHANGED clock

\* A paused timer never fires again: nothing resumes it.
Pause(e) ==
  /\ timer[e].state = "armed"
  /\ timer' = [timer EXCEPT ![e] = Quiet("paused")]
  /\ UNCHANGED clock

Cancel(e) ==
  /\ timer[e].state \in {"armed", "paused"}
  /\ timer' = [timer EXCEPT ![e] = Quiet("stopped")]
  /\ UNCHANGED clock

\* Only a stopped timer gives its event back for another start.
Forget(e) ==
  /\ timer[e].state = "stopped"
  /\ timer' = [timer EXCEPT ![e] = Quiet("idle")]
  /\ UNCHANGED clock

Shutdown ==
  /\ timer' = [e \in Events |-> Quiet("idle")]
  /\ UNCHANGED clock

Next ==
  \/ Tick
  \/ Shutdown
  \/ \E e \in Events :
       \/ Arm(e)
       \/ Fire(e)
       \/ Pause(e)
       \/ Cancel(e)
       \/ Forget(e)

Spec == Init /\ [][Next]_vars
=============================================================================
