------------------------------ MODULE TimerRace ------------------------------
(***************************************************************************)
(* A client thread that starts and destroys timers while the driver is in  *)
(* the middle of a tick.  Only AddNode takes _lock.  The driver swaps      *)
(* slots out and increments _tickTime without it, Start reads _tickTime    *)
(* twice and the maps belong to nobody, so that the steps of TimerManager  *)
(* interleave with those of a call.                                        *)
(* A push_back that meets a swap of the same vector, and an insertion that *)
(* meets an erasure in the same map, are undefined: the element gets in or *)
(* is lost, and the process may end.                                       *)
(***************************************************************************)
EXTENDS TimerManager

VARIABLES call,    \* the call under way: at which step, for which event and slot
          filed,   \* how the node of each event was put into the wheel by Start
          stray    \* events whose node was lost, or dropped before they were registered

race == <<call, filed, stray>>

Idle == [at |-> "idle"]
NotFiled == [level |-> 0]

RaceInit == Init /\ call = Idle /\ filed = [e \in Events |-> NotFiled] /\ stray = {}

-----------------------------------------------------------------------------
\* The driver, with the increment and the swap as two steps.

\* The slot that the driver swaps out in its next step; <<>> if it swaps none.
Swapped ==
  CASE pc = "run" /\ todo > 0 /\ tickTime % NearSize = 0 -> SlotOf(2, tickTime)
    [] pc = "cascade" /\ spokes = <<>> /\ level < 5 /\ SlotOf(level, tickTime)[2] = 0 ->
         SlotOf(level + 1, tickTime)
    [] pc = "swap" -> SlotOf(1, tickTime - 1)
    [] OTHER -> <<>>

\* ++_tickTime
Count ==
  /\ pc = "advance"
  /\ tickTime' = tickTime + 1
  /\ pc' = "swap"
  /\ UNCHANGED <<running, slots, node, maps, driver, spokes, onStop, race>>

\* Mutant: the index is computed again after the increment.
SwapCurrent ==
  /\ pc = "swap"
  /\ LET s == SlotOf(1, tickTime) IN spokes' = slots[s] /\ slots' = [slots EXCEPT ![s] = <<>>]
  /\ pc' = "serve"
  /\ UNCHANGED <<tickTime, running, node, maps, driver, onStop, race>>

\* _nearList[index].swap, with the index computed before the increment.
Swap ==
  /\ pc = "swap"
  /\ LET s == SlotOf(1, tickTime - 1) IN spokes' = slots[s] /\ slots' = [slots EXCEPT ![s] = <<>>]
  /\ pc' = "serve"
  /\ UNCHANGED <<tickTime, running, node, maps, driver, onStop, race>>

\* Erasing an event that Start has not registered yet does nothing.
Drop ==
  /\ DropInvalid
  /\ LET e == Head(spokes)
     IN  /\ stray' = IF e \in manager THEN stray ELSE stray \union {e}
         /\ filed' = [filed EXCEPT ![e] = NotFiled]
  /\ UNCHANGED call

Serve ==
  /\ Trigger
  /\ filed' = [filed EXCEPT ![Head(spokes)] = NotFiled]
  /\ UNCHANGED <<call, stray>>

Locked == call.at = "push"

DriverStep ==
  \/ /\ Update \/ UpdateDone \/ BeginTick \/ CascadeNext \/ TickDone \/ AfterTrigger \/ AfterStop
     /\ UNCHANGED race
  \/ (CascadeNode \/ Requeue) /\ ~Locked /\ UNCHANGED race
  \/ Count \/ Swap \/ Drop \/ Serve

-----------------------------------------------------------------------------
\* The client.

\* The event is in no map; its node takes the expiry from _tickTime.
StartCall(e, c, i) ==
  /\ call = Idle /\ e \notin manager /\ i < Unit(6)
  /\ node' = [node EXCEPT ![e] = NewNode(c, i)]
  /\ onStop' = [onStop EXCEPT ![e] = 0]
  /\ call' = [at |-> "add", event |-> e]
  /\ UNCHANGED <<tickTime, running, slots, maps, pc, driver, spokes, filed, stray>>

\* AddNode takes _lock and reads _tickTime again to choose the slot.
Choose ==
  /\ call.at = "add"
  /\ LET e == call.event
     IN  call' = [at |-> "push", event |-> e, slot |-> Place(node[e].expire, tickTime)]
  /\ UNCHANGED <<vars, filed, stray>>

\* push_back, which may meet the swap, and the release of _lock.
PushBack ==
  /\ Locked
  /\ LET e == call.event
         meets == call.slot = Swapped
     IN  /\ \/ /\ slots' = [slots EXCEPT ![call.slot] = Append(@, e)]
               /\ filed' = [filed EXCEPT ![e] = [level |-> call.slot[1], tick |-> tickTime,
                                                 swapping |-> pc = "swap" /\ meets]]
               /\ UNCHANGED <<pc, stray>>
            \/ /\ meets
               /\ pc' \in {pc, "crashed"} /\ stray' = stray \union {e}
               /\ UNCHANGED <<slots, filed>>
         /\ call' = [at |-> "register", event |-> e]
  /\ UNCHANGED <<tickTime, running, node, maps, driver, spokes, onStop>>

\* Mutant: an event whose node has ended meanwhile is not registered.
RegisterValid ==
  /\ call.at = "register"
  /\ manager' = manager \union IF node[call.event].isValid THEN {call.event} ELSE {}
  /\ normal' = manager'
  /\ call' = Idle
  /\ UNCHANGED <<tickTime, running, slots, node, pause, pc, driver, spokes, onStop, filed, stray>>

\* The driver is about to erase an event from the maps.
Erasing == pc = "serve" /\ spokes # <<>> /\ ~node[Head(spokes)].isValid

\* Register puts the event into both maps; a map that the driver erases from at the
\* same time may break.
Register ==
  /\ call.at = "register"
  /\ manager' = manager \union {call.event}
  /\ normal' = normal \union {call.event}
  /\ pc' \in {pc} \union IF Erasing THEN {"crashed"} ELSE {}
  /\ call' = Idle
  /\ UNCHANGED <<tickTime, running, slots, node, pause, driver, spokes, onStop, filed, stray>>

\* TimerNode::Destroy tests _isValid ...
DestroyTest(e) ==
  /\ call = Idle /\ e \in manager /\ node[e].isValid
  /\ call' = [at |-> "destroy", event |-> e]
  /\ UNCHANGED <<vars, filed, stray>>

\* ... clears it and reports OnStop(true), to a node that may be freed by now.
DestroySet ==
  /\ call.at = "destroy"
  /\ LET e == call.event
     IN  IF e \in manager
         THEN /\ node' = [node EXCEPT ![e].isValid = FALSE]
              /\ onStop' = [onStop EXCEPT ![e] = @ + 1]
              /\ UNCHANGED pc
         ELSE pc' \in {pc, "crashed"} /\ UNCHANGED <<node, onStop>>
  /\ call' = Idle
  /\ UNCHANGED <<tickTime, running, slots, maps, driver, spokes, filed, stray>>

ClientStep ==
  \/ \E e \in Events :
       \/ \E c \in Counts, i \in Intervals : StartCall(e, c, i)
       \/ DestroyTest(e)
  \/ Choose \/ PushBack \/ Register \/ DestroySet

RaceNext == DriverStep \/ (pc # "crashed" /\ ClientStep)

RaceSpec == RaceInit /\ [][RaceNext]_<<vars, race>>

-----------------------------------------------------------------------------
\* Properties.

\* RacedInTime: Start may be overtaken by the driver.  A node filed in the very tick
\* that gave it its expiry fires in the tick it is due.  One that the driver overtook
\* on its way fires late, but before the slot it was put into has come round once more.
\* Only a node pushed between the increment of _tickTime and the swap of the near slot
\* fires early, a whole turn of the near list.
RacedInTime ==
  [][\A e \in Events :
       (pc = "serve" /\ pc' \in {"trigger", "stop"} /\ e = Head(spokes) /\ filed[e] # NotFiled) =>
         LET f == filed[e]
             n == node[e]
             tick == tickTime - 1
             from == IF f.tick > n.expire THEN f.tick ELSE n.expire
         IN  IF f.swapping
             THEN tick = n.expire - NearSize \/ tick >= n.expire
             ELSE /\ tick \in n.expire..from + Size(f.level) * Unit(f.level)
                  /\ f.tick = n.expire - n.interval => tick = n.expire]_<<vars, race>>

\* RacedHeld: between calls a registered event has its node in the wheel, once, unless
\* the driver dropped the node before Start registered the event or the push was lost:
\* such an event stays registered for ever, and Start refuses it.
RacedHeld ==
  pc # "crashed" =>
    /\ HeldOnce
    /\ \A e \in Events :
         /\ Held(e) => e \in manager \/ (call # Idle /\ call.event = e)
         /\ e \in manager => (Held(e) <=> e \notin stray)
=============================================================================
