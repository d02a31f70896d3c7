---------------------------- MODULE TimerManager ----------------------------
(***************************************************************************)
(* The hierarchical timing wheel of timer/manager.cpp and timer/node.cpp.  *)
(*                                                                         *)
(* The driver thread sleeps, reads the clock and executes one tick for     *)
(* every millisecond that has passed; a tick cascades the wheels, advances *)
(* _tickTime and serves the nodes of one slot of the near list.  Callbacks *)
(* run on the driver thread.  A call of the API is one action, taken while *)
(* the driver sleeps, from inside a callback, or after the driver has left *)
(* its loop; calls that overlap a tick are the subject of TimerRace.       *)
(***************************************************************************)
EXTENDS Integers, Sequences

CONSTANTS Events,      \* the ITimerEvent objects
          Counts,      \* counts passed to Start; -1 is stored as a uint64_t
          Intervals,   \* intervals passed to Start
          NearSize,    \* slots of the near list, 2^TIMER_NEAR_BITS
          WheelSize,   \* slots of a wheel, 2^TIMER_WHEEL_BITS
          CountRange,  \* values of the unsigned count, 2^64
          Elapsed,     \* milliseconds that may pass between two Updates
          MaxTime      \* bound: the clock stops here

ASSUME SizeAssumption ==
  /\ NearSize \in Nat /\ NearSize >= 2
  /\ WheelSize \in Nat /\ WheelSize >= 2
ASSUME InputAssumption ==
  /\ Counts \subseteq Int
  /\ Intervals \subseteq Nat
  /\ CountRange \in Nat \ {0}
  /\ Elapsed \subseteq Nat \ {0}
  /\ MaxTime \in Nat

VARIABLES tickTime, lastTime, running,
          slots,       \* _nearList (level 1) and _wheelList (levels 2 to 5)
          node,        \* the TimerNode of each event; NoNode if it is freed
          manager, normal, pause,   \* the keys of the three maps
          pc,          \* where the driver thread is
          todo,        \* ticks of the current Update not executed yet
          level,       \* the level Cascade is emptying
          spokes,      \* spokesList: nodes swapped out of a slot, not yet put back
          onStop       \* calls of OnStop the event has had since its last Start

driver == <<lastTime, todo, level>>
maps == <<manager, normal, pause>>
vars == <<tickTime, slots, node, maps, pc, spokes, onStop, running, driver>>

-----------------------------------------------------------------------------
\* The geometry of the wheel: level 1 is the near list.

Levels == 1..5
Size(l) == IF l = 1 THEN NearSize ELSE WheelSize

\* Ticks that one slot of level l spans; Unit(6) is the longest offset plus 1.
Unit(l) ==
  CASE l = 1 -> 1
    [] l = 2 -> NearSize
    [] l = 3 -> NearSize * WheelSize
    [] l = 4 -> NearSize * WheelSize * WheelSize
    [] l = 5 -> NearSize * WheelSize * WheelSize * WheelSize
    [] l = 6 -> NearSize * WheelSize * WheelSize * WheelSize * WheelSize

SlotIds == UNION {{l} \X (0..Size(l) - 1) : l \in Levels}
SlotOf(l, t) == <<l, (t \div Unit(l)) % Size(l)>>

\* The level AddNode chooses for an offset that is not negative.
LevelOf(offset) ==
  CASE offset < Unit(2) -> 1
    [] offset >= Unit(2) /\ offset < Unit(3) -> 2
    [] offset >= Unit(3) /\ offset < Unit(4) -> 3
    [] offset >= Unit(4) /\ offset < Unit(5) -> 4
    [] OTHER -> 5

\* AddNode: an expired node goes into the slot of the coming tick.
Place(expire, now) ==
  IF expire < now THEN SlotOf(1, now) ELSE SlotOf(LevelOf(expire - now), expire)

AddNode(s, e, expire) ==
  [s EXCEPT ![Place(expire, tickTime)] = Append(@, e)]

-----------------------------------------------------------------------------
\* TimerNode.

NewNode(c, i) ==
  [isValid |-> TRUE, isPause |-> FALSE, count |-> c % CountRange,
   expire |-> tickTime + i, interval |-> i, pauseTick |-> 0]
NoNode ==
  [isValid |-> FALSE, isPause |-> FALSE, count |-> 0,
   expire |-> 0, interval |-> 0, pauseTick |-> 0]

\* TimerNode::RevisedExpire where it does not divide by zero.
Late(n) == tickTime - n.expire
RevisedExpire(n) ==
  IF Late(n) > n.interval
  THEN n.expire + (Late(n) \div n.interval) * n.interval
  ELSE n.expire

Init ==
  /\ tickTime = 0 /\ lastTime = 0 /\ running = TRUE
  /\ slots = [s \in SlotIds |-> <<>>]
  /\ node = [e \in Events |-> NoNode]
  /\ manager = {} /\ normal = {} /\ pause = {}
  /\ pc = "run" /\ todo = 0 /\ level = 1 /\ spokes = <<>>
  /\ onStop = [e \in Events |-> 0]

-----------------------------------------------------------------------------
\* The driver thread.

Least(a, b) == IF a < b THEN a ELSE b

\* sleep_for returns and Update reads the clock.
Update ==
  /\ pc = "sleep"
  /\ \E d \in Elapsed :
       LET ticks == Least(d, MaxTime - lastTime)
       IN  lastTime' = lastTime + ticks /\ todo' = ticks
  /\ pc' = "run"
  /\ UNCHANGED <<tickTime, running, slots, node, maps, level, spokes, onStop>>

\* Mutant: the driver does not look at _running.
UpdateDoneDeaf ==
  /\ pc = "run" /\ todo = 0
  /\ pc' = "sleep"
  /\ UNCHANGED <<tickTime, running, slots, node, maps, driver, spokes, onStop>>

\* The loop of Update is done; DriverThread reads _running.
UpdateDone ==
  /\ pc = "run" /\ todo = 0
  /\ pc' = IF running THEN "sleep" ELSE "exited"
  /\ UNCHANGED <<tickTime, running, slots, node, maps, driver, spokes, onStop>>

\* Mutant: no cascade.
BeginTickOnly ==
  /\ pc = "run" /\ todo > 0
  /\ pc' = "advance"
  /\ UNCHANGED <<tickTime, running, slots, node, maps, driver, spokes, onStop>>

\* Executes computes index and starts the cascade of wheel 0 if it is 0.
BeginTick ==
  /\ pc = "run" /\ todo > 0
  /\ IF tickTime % NearSize = 0
     THEN LET s == SlotOf(2, tickTime)
          IN  /\ pc' = "cascade" /\ level' = 2
              /\ spokes' = slots[s]
              /\ slots' = [slots EXCEPT ![s] = <<>>]
     ELSE pc' = "advance" /\ UNCHANGED <<level, spokes, slots>>
  /\ UNCHANGED <<tickTime, lastTime, running, node, maps, todo, onStop>>

\* Cascade puts the next node of the slot back, nearer to the near list.
CascadeNode ==
  /\ pc = "cascade" /\ spokes # <<>>
  /\ LET e == Head(spokes) IN slots' = AddNode(slots, e, node[e].expire)
  /\ spokes' = Tail(spokes)
  /\ UNCHANGED <<tickTime, running, node, maps, pc, driver, onStop>>

\* Cascade returns index == 0, which lets the next wheel cascade.
CascadeNext ==
  /\ pc = "cascade" /\ spokes = <<>>
  /\ IF SlotOf(level, tickTime)[2] = 0 /\ level < 5
     THEN LET s == SlotOf(level + 1, tickTime)
          IN  /\ level' = level + 1
              /\ spokes' = slots[s]
              /\ slots' = [slots EXCEPT ![s] = <<>>]
              /\ UNCHANGED pc
     ELSE pc' = "advance" /\ level' = 1 /\ UNCHANGED <<spokes, slots>>
  /\ UNCHANGED <<tickTime, lastTime, running, node, maps, todo, onStop>>

\* ++_tickTime, then the near slot of the tick is swapped out.
Advance ==
  /\ pc = "advance"
  /\ LET s == SlotOf(1, tickTime)
     IN  spokes' = slots[s] /\ slots' = [slots EXCEPT ![s] = <<>>]
  /\ tickTime' = tickTime + 1
  /\ pc' = "serve"
  /\ UNCHANGED <<lastTime, running, node, maps, todo, level, onStop>>

\* The loop over spokesList ends, and with it one Executes.
TickDone ==
  /\ pc = "serve" /\ spokes = <<>>
  /\ todo' = todo - 1
  /\ pc' = "run"
  /\ UNCHANGED <<tickTime, lastTime, running, slots, node, maps, level, spokes, onStop>>

\* A node that is no longer valid leaves the maps.
DropInvalid ==
  /\ pc = "serve" /\ spokes # <<>>
  /\ LET e == Head(spokes)
     IN  /\ ~node[e].isValid
         /\ manager' = manager \ {e}
         /\ normal' = normal \ {e}
         /\ pause' = pause \ {e}
         /\ node' = [node EXCEPT ![e] = NoNode]
  /\ spokes' = Tail(spokes)
  /\ UNCHANGED <<tickTime, running, slots, pc, driver, onStop>>

\* Mutant: a paused node that comes up is taken as resumed.
DropPausedKept ==
  /\ pc = "serve" /\ spokes # <<>>
  /\ node[Head(spokes)].isValid /\ node[Head(spokes)].isPause
  /\ node' = [node EXCEPT ![Head(spokes)].isPause = FALSE]
  /\ UNCHANGED <<tickTime, running, slots, maps, pc, driver, spokes, onStop>>

\* A paused node leaves the wheel and stays in the maps.
DropPaused ==
  /\ pc = "serve" /\ spokes # <<>>
  /\ node[Head(spokes)].isValid /\ node[Head(spokes)].isPause
  /\ spokes' = Tail(spokes)
  /\ UNCHANGED <<tickTime, running, slots, node, maps, pc, driver, onStop>>

\* TimerNode::Trigger up to the callback: OnTrigger, or OnStop(false) if no
\* repetition was asked for.
Trigger ==
  /\ pc = "serve" /\ spokes # <<>>
  /\ LET e == Head(spokes)
         n == node[e]
     IN  /\ n.isValid /\ ~n.isPause
         /\ IF n.count = 0
            THEN /\ node' = [node EXCEPT ![e].expire = @ + n.interval, ![e].isValid = FALSE]
                 /\ onStop' = [onStop EXCEPT ![e] = @ + 1]
                 /\ pc' = "stop"
            ELSE /\ node' = [node EXCEPT ![e].expire = @ + n.interval]
                 /\ pc' = "trigger"
                 /\ UNCHANGED onStop
  /\ UNCHANGED <<tickTime, running, slots, maps, driver, spokes>>

\* OnTrigger returns.  Whether the callback destroyed the timer is not asked.
AfterTrigger ==
  /\ pc = "trigger"
  /\ LET e == Head(spokes)
     IN  IF node[e].count = 1
         THEN /\ node' = [node EXCEPT ![e].count = 0, ![e].isValid = FALSE]
              /\ onStop' = [onStop EXCEPT ![e] = @ + 1]
              /\ pc' = "stop"
         ELSE /\ node' = [node EXCEPT ![e].count = @ - 1]
              /\ pc' = "requeue"
              /\ UNCHANGED onStop
  /\ UNCHANGED <<tickTime, running, slots, maps, driver, spokes>>

\* OnStop(false) returns.
AfterStop ==
  /\ pc = "stop"
  /\ pc' = "requeue"
  /\ UNCHANGED <<tickTime, running, slots, node, maps, driver, spokes, onStop>>

\* RevisedExpire and AddNode put the node back, the stopped one too: it leaves
\* the maps when its slot comes up again.  RevisedExpire divides by the
\* interval, so a late node with the interval 0 ends the process.
Requeue ==
  /\ pc = "requeue"
  /\ LET e == Head(spokes)
         n == node[e]
         t == RevisedExpire(n)
     IN  IF Late(n) > n.interval /\ n.interval = 0
         THEN pc' = "crashed" /\ UNCHANGED <<node, slots, spokes>>
         ELSE /\ node' = [node EXCEPT ![e].expire = t]
              /\ slots' = AddNode(slots, e, t)
              /\ spokes' = Tail(spokes)
              /\ pc' = "serve"
  /\ UNCHANGED <<tickTime, running, maps, driver, onStop>>

-----------------------------------------------------------------------------
\* The API.

Callable == pc \in {"sleep", "trigger", "stop", "exited"}

\* Start of an event that is not registered, with an interval the wheel holds.
Start(e, c, i) ==
  /\ Callable
  /\ e \notin manager /\ i < Unit(6)
  /\ node' = [node EXCEPT ![e] = NewNode(c, i)]
  /\ slots' = AddNode(slots, e, tickTime + i)
  /\ manager' = manager \union {e}
  /\ normal' = normal \union {e}
  /\ onStop' = [onStop EXCEPT ![e] = 0]
  /\ UNCHANGED <<tickTime, running, pause, pc, driver, spokes>>

\* AddNode throws: the node dies with the call and reports OnStop(true).
StartTooLong(e, i) ==
  /\ Callable
  /\ e \notin manager /\ i >= Unit(6)
  /\ onStop' = [onStop EXCEPT ![e] = 1]
  /\ UNCHANGED <<tickTime, running, slots, node, maps, pc, driver, spokes>>

\* Mutant: the event moves to _pause while its node is still in the wheel.
PauseFiled(e) ==
  /\ Callable
  /\ e \in normal
  /\ node' = IF node[e].isValid /\ ~node[e].isPause
             THEN [node EXCEPT ![e].isPause = TRUE, ![e].pauseTick = tickTime]
             ELSE node
  /\ normal' = normal \ {e}
  /\ pause' = pause \union {e}
  /\ UNCHANGED <<tickTime, running, slots, manager, pc, driver, spokes, onStop>>

\* TimerNode::Pause; the event is erased from _normal and inserted there again
\* from the erased iterator, whose freed tree node still holds the pair.
Pause(e) ==
  /\ Callable
  /\ e \in normal
  /\ node' = IF node[e].isValid /\ ~node[e].isPause
             THEN [node EXCEPT ![e].isPause = TRUE, ![e].pauseTick = tickTime]
             ELSE node
  /\ normal' = (normal \ {e}) \union {e}
  /\ UNCHANGED <<tickTime, running, slots, manager, pause, pc, driver, spokes, onStop>>

\* Resume looks in _pause, which nothing fills: it answers false.
Resume(e) ==
  /\ Callable
  /\ IF e \in pause
     THEN LET n == node[e]
              m == IF n.isValid /\ n.isPause
                   THEN [n EXCEPT !.isPause = FALSE,
                                  !.expire = tickTime + @ - n.pauseTick]
                   ELSE n
          IN  /\ node' = [node EXCEPT ![e] = m]
              /\ slots' = AddNode(slots, e, m.expire)
              /\ pause' = pause \ {e}
              /\ normal' = normal \union {e}
     ELSE UNCHANGED <<node, slots, pause, normal>>
  /\ UNCHANGED <<tickTime, running, manager, pc, driver, spokes, onStop>>

\* Mutant: TimerNode::Destroy without its test of _isValid.
DestroyAgain(e) ==
  /\ Callable
  /\ e \in manager
  /\ node' = [node EXCEPT ![e].isValid = FALSE]
  /\ onStop' = [onStop EXCEPT ![e] = @ + 1]
  /\ UNCHANGED <<tickTime, running, slots, maps, pc, driver, spokes>>

\* The node is only marked and reports OnStop(true) at once.
Destroy(e) ==
  /\ Callable
  /\ e \in manager /\ node[e].isValid
  /\ node' = [node EXCEPT ![e].isValid = FALSE]
  /\ onStop' = [onStop EXCEPT ![e] = @ + 1]
  /\ UNCHANGED <<tickTime, running, slots, maps, pc, driver, spokes>>

Stop ==
  /\ Callable
  /\ running' = FALSE
  /\ UNCHANGED <<tickTime, slots, node, maps, pc, driver, spokes, onStop>>

\* ~TimerManager once the driver is joined: every node is freed, and the ones
\* still valid report OnStop(true).
Destruct ==
  /\ pc = "exited"
  /\ onStop' = [e \in Events |-> onStop[e] + IF node[e].isValid THEN 1 ELSE 0]
  /\ node' = [e \in Events |-> NoNode]
  /\ slots' = [s \in SlotIds |-> <<>>]
  /\ manager' = {} /\ normal' = {} /\ pause' = {}
  /\ pc' = "gone"
  /\ UNCHANGED <<tickTime, running, driver, spokes>>

Driver ==
  \/ Update \/ UpdateDone \/ BeginTick \/ CascadeNode \/ CascadeNext \/ Advance
  \/ TickDone \/ DropInvalid \/ DropPaused \/ Trigger \/ AfterTrigger
  \/ AfterStop \/ Requeue

Client ==
  \/ \E e \in Events :
       \/ \E c \in Counts, i \in Intervals : Start(e, c, i)
       \/ \E i \in Intervals : StartTooLong(e, i)
       \/ Pause(e)
       \/ Resume(e)
       \/ Destroy(e)
  \/ Stop
  \/ Destruct

Next == Driver \/ Client

Spec == Init /\ [][Next]_vars

\* The driver thread is scheduled and callbacks return.
FairSpec == Spec /\ WF_vars(Driver)

-----------------------------------------------------------------------------
\* Properties.

InSlot(e, s) == \E k \in DOMAIN slots[s] : slots[s][k] = e
InSpokes(e) == \E k \in DOMAIN spokes : spokes[k] = e
Held(e) == InSpokes(e) \/ \E s \in SlotIds : InSlot(e, s)

TimerNodes ==
  [isValid : BOOLEAN, isPause : BOOLEAN, count : 0..CountRange - 1,
   expire : Nat, interval : Nat, pauseTick : Nat]

\* Every variable keeps to its range; pause is a map nothing is ever put into.
TypeOK ==
  /\ tickTime \in Nat /\ lastTime \in Nat /\ todo \in Nat
  /\ running \in BOOLEAN
  /\ slots \in [SlotIds -> Seq(Events)]
  /\ node \in [Events -> TimerNodes]
  /\ manager \subseteq Events /\ normal = manager /\ pause = {}
  /\ pc \in {"run", "sleep", "cascade", "advance", "serve", "trigger", "stop",
             "requeue", "exited", "crashed", "gone"}
  /\ level \in Levels
  /\ spokes \in Seq(Events)
  /\ pc \in {"trigger", "stop", "requeue"} => spokes # <<>>
  /\ onStop \in [Events -> Nat]

\* No node is in two places of the wheel (it would fire twice a period).
HeldOnce ==
  /\ \A s \in SlotIds : \A k \in DOMAIN slots[s] : \A t \in SlotIds : \A m \in DOMAIN slots[t] :
       slots[s][k] = slots[t][m] => s = t /\ k = m
  /\ \A k, m \in DOMAIN spokes : spokes[k] = spokes[m] => k = m
  /\ \A s \in SlotIds : \A k \in DOMAIN slots[s] : ~InSpokes(slots[s][k])

\* TimersHeld: no node is filed twice, only registered nodes are filed, and
\* every registered node that is not paused is filed somewhere, so that it can
\* still fire or, destroyed, leave the maps (AddNode, Cascade, Executes).
TimersHeld ==
  /\ HeldOnce
  /\ \A e \in Events :
       /\ Held(e) => e \in manager
       /\ e \in manager /\ ~node[e].isPause => Held(e)

\* StopReported: a registered timer is valid until OnStop is called, and then
\* never; OnStop comes a second time only to a timer whose last callback
\* destroyed it (Trigger does not look at _isValid again).
StopReported ==
  \A e \in Events :
    /\ e \in manager => (node[e].isValid <=> onStop[e] = 0)
    /\ onStop[e] > 1 => onStop[e] = 2 /\ node[e].count = 0

\* TicksAccounted: every millisecond read from the clock is one executed tick or
\* still to be executed; none is lost or executed twice between Updates.
TicksAccounted ==
  tickTime + todo =
    lastTime + IF pc \in {"serve", "trigger", "stop", "requeue", "crashed"} THEN 1 ELSE 0

\* The timer of e as its client sees it: while OnTrigger runs, the repetition
\* is already used up.
TimerOf(e) ==
  LET n == node[e]
      firing == pc = "trigger" /\ Head(spokes) = e
      quiet(s) == [state |-> s, due |-> 0, left |-> 0, every |-> 0]
  IN  CASE e \notin manager -> quiet("idle")
        [] e \in manager /\ (~n.isValid \/ (firing /\ n.count = 1)) -> quiet("stopped")
        [] e \in manager /\ n.isValid /\ ~(firing /\ n.count = 1) /\ n.isPause -> quiet("paused")
        [] OTHER -> [state |-> "armed", due |-> n.expire, every |-> n.interval,
                     left |-> n.count - IF firing THEN 1 ELSE 0]

Abstract == INSTANCE Timers WITH
  clock <- tickTime,
  timer <- [e \in Events |-> TimerOf(e)],
  Counts <- {c % CountRange : c \in Counts}

\* RefinesTimers: the wheel implements the timers of Timers.tla: each fires in
\* the tick after it is due, as often as it was asked to, and never after it was
\* paused or destroyed.
RefinesTimers == Abstract!Spec

Due(e, d) ==
  e \in manager /\ node[e].isValid /\ ~node[e].isPause /\ node[e].expire = d

\* TimerServed: a timer that is due while the driver lives does not stay so: it
\* fires, or the client pauses or destroys it (or a zero interval ends it all).
TimerServed ==
  \A e \in Events, d \in 0..MaxTime - 1 :
    Due(e, d) ~> ~Due(e, d) \/ ~running \/ pc = "crashed"

\* StopJoins: after Stop the driver leaves its loop, so that the destructor's
\* join returns, whatever the timers still do.
StopJoins == ~running ~> pc \in {"exited", "gone", "crashed"}
=============================================================================
