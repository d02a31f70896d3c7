---------------------------- MODULE TimerManagerProofs ------------------------
(***************************************************************************)
(* TimerManager and TimerRace for wheels of every size, any set of events  *)
(* and any clock: no node is lost, the wheel implements Timers.tla, and    *)
(* calls that overlap a tick lose none but those that are named.           *)
(***************************************************************************)
EXTENDS TimerRace, SequenceTheorems, TLAPS

-----------------------------------------------------------------------------
\* The geometry of the wheel.

\* A product of positive numbers is positive.
LEMMA ProductPositive ==
  ASSUME NEW a \in Nat \ {0}, NEW b \in Nat \ {0}
  PROVE  a * b \in Nat \ {0}
  BY SMT

\* Every level's slots span a positive number of ticks.
LEMMA UnitPositive ==
  ASSUME NEW l \in 1..6
  PROVE  Unit(l) \in Nat \ {0}
<1>1. NearSize \in Nat \ {0} /\ WheelSize \in Nat \ {0}
  BY SizeAssumption
<1>2. NearSize * WheelSize \in Nat \ {0}
  BY <1>1, ProductPositive
<1>3. NearSize * WheelSize * WheelSize \in Nat \ {0}
  BY <1>1, <1>2, ProductPositive
<1>4. NearSize * WheelSize * WheelSize * WheelSize \in Nat \ {0}
  BY <1>1, <1>3, ProductPositive
<1>5. NearSize * WheelSize * WheelSize * WheelSize * WheelSize \in Nat \ {0}
  BY <1>1, <1>4, ProductPositive
<1>6. l = 1 \/ l = 2 \/ l = 3 \/ l = 4 \/ l = 5 \/ l = 6
  BY SMT
<1>7. CASE l = 1  BY <1>7 DEF Unit
<1>8. CASE l = 2  BY <1>1, <1>8 DEF Unit
<1>9. CASE l = 3  BY <1>2, <1>9 DEF Unit
<1>10. CASE l = 4  BY <1>3, <1>10 DEF Unit
<1>11. CASE l = 5  BY <1>4, <1>11 DEF Unit
<1>12. CASE l = 6  BY <1>5, <1>12 DEF Unit
<1>. QED
  BY <1>6, <1>7, <1>8, <1>9, <1>10, <1>11, <1>12

\* A quotient of naturals and a remainder are in their ranges.
LEMMA DivMod ==
  ASSUME NEW t \in Nat, NEW u \in Nat \ {0}, NEW m \in Nat \ {0}
  PROVE  t \div u \in Nat /\ (t \div u) % m \in 0..m - 1
  BY SMT

\* The slot of a tick is a slot of the level.
LEMMA SlotOfType ==
  ASSUME NEW l \in Levels, NEW t \in Nat
  PROVE  SlotOf(l, t) \in SlotIds
<1>1. Unit(l) \in Nat \ {0}
  BY UnitPositive DEF Levels
<1>2. Size(l) \in Nat \ {0}
  BY SizeAssumption DEF Size
<1>3. (t \div Unit(l)) % Size(l) \in 0..Size(l) - 1
  BY <1>1, <1>2, DivMod
<1>4. SlotOf(l, t) \in {l} \X (0..Size(l) - 1)
  BY <1>3, Zenon DEF SlotOf
<1>. QED
  BY <1>4, Zenon DEF SlotIds

\* AddNode always finds a slot for an expiry the wheel holds.
LEMMA PlaceType ==
  ASSUME NEW x \in Nat, NEW now \in Nat
  PROVE  Place(x, now) \in SlotIds
<1>1. LevelOf(x - now) \in Levels
  BY SMT DEF LevelOf, Levels
<1>2. 1 \in Levels
  BY DEF Levels
<1>. QED
  BY <1>1, <1>2, SlotOfType, Zenon DEF Place

\* RevisedExpire never yields a negative expiry.
LEMMA RevisedType ==
  ASSUME NEW n, n.expire \in Nat, n.interval \in Nat, tickTime \in Nat,
         ~(Late(n) > n.interval /\ n.interval = 0)
  PROVE  RevisedExpire(n) \in Nat
<1>1. n.expire \in Nat /\ n.interval \in Nat
  OBVIOUS
<1>2. CASE Late(n) > n.interval
  <2>1. n.interval \in Nat \ {0} /\ Late(n) \in Nat
    BY <1>1, <1>2 DEF Late
  <2>2. Late(n) \div n.interval \in Nat
    BY <2>1, DivMod
  <2>3. (Late(n) \div n.interval) * n.interval \in Nat
    BY <1>1, <2>2
  <2>. QED
    BY <1>1, <1>2, <2>3 DEF RevisedExpire
<1>3. CASE ~(Late(n) > n.interval)
  BY <1>1, <1>3 DEF RevisedExpire
<1>. QED
  BY <1>2, <1>3

\* AddNode keeps the wheel a table of sequences of events.
LEMMA AddNodeType ==
  ASSUME NEW w \in [SlotIds -> Seq(Events)], NEW e \in Events,
         NEW x \in Nat, tickTime \in Nat
  PROVE  AddNode(w, e, x) \in [SlotIds -> Seq(Events)]
<1>1. Place(x, tickTime) \in SlotIds
  BY PlaceType
<1>2. Append(w[Place(x, tickTime)], e) \in Seq(Events)
  BY <1>1, AppendProperties
<1>. QED
  BY <1>1, <1>2, Zenon DEF AddNode

\* Swapping a slot out keeps the wheel a table of sequences.
LEMMA SwapType ==
  ASSUME NEW w \in [SlotIds -> Seq(Events)], NEW s \in SlotIds
  PROVE  w[s] \in Seq(Events) /\ [w EXCEPT ![s] = <<>>] \in [SlotIds -> Seq(Events)]
<1>1. <<>> \in Seq(Events)
  OBVIOUS
<1>. QED
  BY <1>1, Zenon

\* A new node counts in the unsigned range.
LEMMA NewNodeType ==
  ASSUME NEW c \in Counts, NEW i \in Intervals, tickTime \in Nat
  PROVE  NewNode(c, i) \in TimerNodes
<1>1. c \in Int /\ i \in Nat /\ CountRange \in Nat \ {0}
  BY InputAssumption
<1>2. c % CountRange \in 0..CountRange - 1
  BY <1>1
<1>3. tickTime + i \in Nat
  BY <1>1
<1>. QED
  BY <1>1, <1>2, <1>3 DEF NewNode, TimerNodes

-----------------------------------------------------------------------------
\* Type correctness.

\* The driver executes a tick only if one is due, and fires only a registered
\* node with repetitions left; a node that is valid is registered.
DriverBusy ==
  /\ lastTime <= MaxTime
  /\ pc \in {"cascade", "advance", "serve", "trigger", "stop", "requeue"} => todo > 0
  /\ \A e \in Events : node[e].isValid => e \in manager
  /\ pc = "trigger" => /\ Head(spokes) \in manager
                       /\ node[Head(spokes)].count # 0

TypeInv == TypeOK /\ DriverBusy

\* A freed node is in its range.
LEMMA NoNodeType == NoNode \in TimerNodes
BY InputAssumption DEF NoNode, TimerNodes

\* The constructor establishes the types.
LEMMA TypeInit == Init => TypeInv
BY NoNodeType, InputAssumption DEF Init, TypeInv, TypeOK, DriverBusy, Levels, NoNode

\* Every action keeps the types.
LEMMA TypeStep == TypeInv /\ [Next]_vars => TypeInv'
<1> SUFFICES ASSUME TypeInv, [Next]_vars PROVE TypeInv'
  OBVIOUS
<1> USE DEF TypeInv
<1>1. CASE Update
  <2>1. PICK d \in Elapsed : /\ lastTime' = lastTime + Least(d, MaxTime - lastTime)
                             /\ todo' = Least(d, MaxTime - lastTime)
    BY <1>1, Zenon DEF Update
  <2>2. d \in Nat /\ MaxTime - lastTime \in Nat
    BY InputAssumption DEF TypeOK, DriverBusy
  <2>3. Least(d, MaxTime - lastTime) \in 0..MaxTime - lastTime
    BY <2>2 DEF Least
  <2>. QED
    BY <1>1, <2>1, <2>3, InputAssumption DEF Update, TypeOK, DriverBusy, maps
<1>2. CASE UpdateDone
  BY <1>2 DEF UpdateDone, TypeOK, DriverBusy, maps, driver
<1>3. CASE BeginTick
  <2>1. SlotOf(2, tickTime) \in SlotIds
    BY SlotOfType DEF TypeOK, Levels
  <2>2. /\ slots' \in [SlotIds -> Seq(Events)] /\ spokes' \in Seq(Events)
        /\ level' \in Levels /\ pc' \in {"cascade", "advance"} /\ todo' > 0
    <3>1. CASE tickTime % NearSize = 0
      <4>1. /\ slots' = [slots EXCEPT ![SlotOf(2, tickTime)] = <<>>]
            /\ spokes' = slots[SlotOf(2, tickTime)]
            /\ level' = 2 /\ pc' = "cascade"
        BY <1>3, <3>1, Zenon DEF BeginTick
      <4>2. todo' > 0 /\ 2 \in Levels
        BY <1>3 DEF BeginTick, Levels
      <4>. QED
        BY <2>1, <4>1, <4>2, SwapType, Zenon DEF TypeOK
    <3>2. CASE tickTime % NearSize # 0
      BY <1>3, <3>2 DEF BeginTick, TypeOK
    <3>. QED
      BY <3>1, <3>2
  <2>. QED
    BY <1>3, <2>2 DEF BeginTick, TypeOK, DriverBusy, maps
<1>4. CASE CascadeNode
  <2>1. Head(spokes) \in Events /\ Tail(spokes) \in Seq(Events)
    BY <1>4, HeadTailProperties DEF CascadeNode, TypeOK
  <2>2. node[Head(spokes)].expire \in Nat
    BY <2>1 DEF TypeOK, TimerNodes
  <2>3. slots' \in [SlotIds -> Seq(Events)]
    BY <1>4, <2>1, <2>2, AddNodeType DEF CascadeNode, TypeOK
  <2>. QED
    BY <1>4, <2>1, <2>3 DEF CascadeNode, TypeOK, DriverBusy, maps, driver
<1>5. CASE CascadeNext
  <2>1. level + 1 \in Levels => SlotOf(level + 1, tickTime) \in SlotIds
    BY SlotOfType DEF TypeOK
  <2>2. /\ slots' \in [SlotIds -> Seq(Events)] /\ spokes' \in Seq(Events)
        /\ level' \in Levels /\ pc' \in {"cascade", "advance"}
    <3>1. CASE SlotOf(level, tickTime)[2] = 0 /\ level < 5
      <4>1. /\ slots' = [slots EXCEPT ![SlotOf(level + 1, tickTime)] = <<>>]
            /\ spokes' = slots[SlotOf(level + 1, tickTime)]
            /\ level' = level + 1 /\ pc' = "cascade"
        BY <1>5, <3>1, Zenon DEF CascadeNext
      <4>2. level + 1 \in Levels
        BY <3>1 DEF TypeOK, Levels
      <4>. QED
        BY <2>1, <4>1, <4>2, SwapType, Zenon DEF TypeOK
    <3>2. CASE ~(SlotOf(level, tickTime)[2] = 0 /\ level < 5)
      <4>1. UNCHANGED <<slots, spokes>> /\ level' = 1 /\ pc' = "advance"
        BY <1>5, <3>2, Zenon DEF CascadeNext
      <4>. QED
        BY <4>1 DEF TypeOK, Levels
    <3>. QED
      BY <3>1, <3>2
  <2>. QED
    BY <1>5, <2>2 DEF CascadeNext, TypeOK, DriverBusy, maps
<1>6. CASE Advance
  <2>1. SlotOf(1, tickTime) \in SlotIds
    BY SlotOfType DEF TypeOK, Levels
  <2>. QED
    BY <1>6, <2>1 DEF Advance, TypeOK, DriverBusy, maps
<1>7. CASE TickDone
  BY <1>7 DEF TickDone, TypeOK, DriverBusy, maps
<1>8. CASE DropInvalid
  <2>1. Head(spokes) \in Events /\ Tail(spokes) \in Seq(Events)
    BY <1>8, HeadTailProperties DEF DropInvalid, TypeOK
  <2>2. node' \in [Events -> TimerNodes]
    BY <1>8, <2>1, NoNodeType DEF DropInvalid, TypeOK
  <2>3. \A e \in Events : node'[e].isValid => e \in manager'
    BY <1>8, <2>1 DEF DropInvalid, TypeOK, DriverBusy, NoNode
  <2>. QED
    BY <1>8, <2>1, <2>2, <2>3 DEF DropInvalid, TypeOK, DriverBusy, driver
<1>9. CASE DropPaused
  <2>1. Tail(spokes) \in Seq(Events)
    BY <1>9, HeadTailProperties DEF DropPaused, TypeOK
  <2>. QED
    BY <1>9, <2>1 DEF DropPaused, TypeOK, DriverBusy, maps, driver
<1>10. CASE Trigger
  <2>1. Head(spokes) \in Events
    BY <1>10, HeadTailProperties DEF Trigger, TypeOK
  <2>2. node[Head(spokes)] \in TimerNodes
    BY <2>1 DEF TypeOK
  <2>3. node[Head(spokes)].expire + node[Head(spokes)].interval \in Nat
    BY <2>2 DEF TimerNodes
  <2>4. node' \in [Events -> TimerNodes] /\ onStop' \in [Events -> Nat]
    <3> DEFINE n == node[Head(spokes)]
    <3>1. /\ [n EXCEPT !.expire = n.expire + n.interval] \in TimerNodes
          /\ [n EXCEPT !.expire = n.expire + n.interval, !.isValid = FALSE] \in TimerNodes
      BY <2>2, <2>3 DEF TimerNodes
    <3>2. \/ node' = [node EXCEPT ![Head(spokes)] =
                        [n EXCEPT !.expire = n.expire + n.interval]]
          \/ node' = [node EXCEPT ![Head(spokes)] =
                        [n EXCEPT !.expire = n.expire + n.interval, !.isValid = FALSE]]
      BY <1>10, <2>1, <2>2, Zenon DEF Trigger
    <3>3. onStop' \in [Events -> Nat]
      <4>1. \/ onStop' = [onStop EXCEPT ![Head(spokes)] = onStop[Head(spokes)] + 1]
            \/ onStop' = onStop
        BY <1>10, Zenon DEF Trigger
      <4>. QED
        BY <2>1, <4>1 DEF TypeOK
    <3>. QED
      BY <2>1, <3>1, <3>2, <3>3, Zenon DEF TypeOK
  <2>5. \A x \in Events : node'[x].isValid => node[x].isValid
    BY <1>10, <2>1, <2>2 DEF Trigger, TypeOK, TimerNodes
  <2>6. /\ pc' = "stop" \/ (pc' = "trigger" /\ node[Head(spokes)].count # 0)
        /\ node'[Head(spokes)].count = node[Head(spokes)].count
        /\ Head(spokes) \in manager
    BY <1>10, <2>1, <2>2 DEF Trigger, TypeOK, DriverBusy, TimerNodes
  <2>. QED
    BY <1>10, <2>4, <2>5, <2>6 DEF Trigger, TypeOK, DriverBusy, maps, driver
<1>11. CASE AfterTrigger
  <2>1. Head(spokes) \in Events /\ spokes # <<>>
    BY <1>11, HeadTailProperties DEF AfterTrigger, TypeOK
  <2>2. node[Head(spokes)] \in TimerNodes /\ node[Head(spokes)].count # 0
    BY <1>11, <2>1 DEF AfterTrigger, TypeOK, DriverBusy
  <2>3. /\ 0 \in 0..CountRange - 1
        /\ node[Head(spokes)].count - 1 \in 0..CountRange - 1
    BY <2>2, InputAssumption DEF TimerNodes
  <2>4. node' \in [Events -> TimerNodes] /\ onStop' \in [Events -> Nat]
    <3> DEFINE n == node[Head(spokes)]
    <3>1. /\ [n EXCEPT !.count = n.count - 1] \in TimerNodes
          /\ [n EXCEPT !.count = 0, !.isValid = FALSE] \in TimerNodes
      BY <2>2, <2>3 DEF TimerNodes
    <3>2. \/ node' = [node EXCEPT ![Head(spokes)] = [n EXCEPT !.count = n.count - 1]]
          \/ node' = [node EXCEPT ![Head(spokes)] = [n EXCEPT !.count = 0, !.isValid = FALSE]]
      BY <1>11, <2>1, <2>2, Zenon DEF AfterTrigger
    <3>3. onStop' \in [Events -> Nat]
      <4>1. \/ onStop' = [onStop EXCEPT ![Head(spokes)] = onStop[Head(spokes)] + 1]
            \/ onStop' = onStop
        BY <1>11, Zenon DEF AfterTrigger
      <4>. QED
        BY <2>1, <4>1 DEF TypeOK
    <3>. QED
      BY <2>1, <3>1, <3>2, <3>3, Zenon DEF TypeOK
  <2>5. \A x \in Events : node'[x].isValid => node[x].isValid
    BY <1>11, <2>1, <2>2 DEF AfterTrigger, TypeOK, TimerNodes
  <2>6. pc' \in {"stop", "requeue"}
    BY <1>11 DEF AfterTrigger
  <2>. QED
    BY <1>11, <2>1, <2>4, <2>5, <2>6 DEF AfterTrigger, TypeOK, DriverBusy, maps, driver
<1>12. CASE AfterStop
  BY <1>12 DEF AfterStop, TypeOK, DriverBusy, maps, driver
<1>13. CASE Requeue
  <2>1. Head(spokes) \in Events /\ Tail(spokes) \in Seq(Events)
    BY <1>13, HeadTailProperties DEF Requeue, TypeOK
  <2>2. CASE pc' = "crashed"
    BY <1>13, <2>2 DEF Requeue, TypeOK, DriverBusy, maps, driver
  <2>3. CASE pc' # "crashed"
    <3> DEFINE t == RevisedExpire(node[Head(spokes)])
    <3>1. /\ ~(/\ Late(node[Head(spokes)]) > node[Head(spokes)].interval
               /\ node[Head(spokes)].interval = 0)
          /\ node' = [node EXCEPT ![Head(spokes)].expire = t]
          /\ slots' = AddNode(slots, Head(spokes), t)
          /\ spokes' = Tail(spokes)
          /\ pc' = "serve"
      BY <1>13, <2>3 DEF Requeue
    <3>2. t \in Nat
      BY <2>1, <3>1, RevisedType DEF TypeOK, TimerNodes
    <3>3. slots' \in [SlotIds -> Seq(Events)]
      BY <2>1, <3>1, <3>2, AddNodeType DEF TypeOK
    <3> HIDE DEF t
    <3>4. node' \in [Events -> TimerNodes]
      BY <2>1, <3>1, <3>2 DEF TypeOK, TimerNodes
    <3>. QED
      BY <1>13, <2>1, <3>1, <3>3, <3>4 DEF Requeue, TypeOK, DriverBusy, TimerNodes, maps, driver
  <2>. QED
    BY <2>2, <2>3
<1>14. ASSUME NEW e \in Events, NEW c \in Counts, NEW i \in Intervals, Start(e, c, i)
       PROVE  TypeInv'
  <2>1. NewNode(c, i) \in TimerNodes
    BY NewNodeType DEF TypeOK
  <2>2. tickTime + i \in Nat
    BY InputAssumption DEF TypeOK
  <2>3. slots' \in [SlotIds -> Seq(Events)]
    BY <1>14, <2>2, AddNodeType DEF Start, TypeOK
  <2>4. pc = "trigger" => Head(spokes) # e
    BY <1>14 DEF Start, DriverBusy
  <2>5. pc = "trigger" => Head(spokes) \in Events
    BY HeadTailProperties DEF TypeOK
  <2>. QED
    BY <1>14, <2>1, <2>3, <2>4, <2>5 DEF Start, TypeOK, DriverBusy, driver
<1>15. ASSUME NEW e \in Events, NEW i \in Intervals, StartTooLong(e, i)
       PROVE  TypeInv'
  BY <1>15 DEF StartTooLong, TypeOK, DriverBusy, maps, driver
<1>16. ASSUME NEW e \in Events, Pause(e)
       PROVE  TypeInv'
  <2>1. node' \in [Events -> TimerNodes]
    BY <1>16 DEF Pause, TypeOK, TimerNodes
  <2>2. \A x \in Events : node'[x].isValid = node[x].isValid /\ node'[x].count = node[x].count
    BY <1>16 DEF Pause, TypeOK, TimerNodes
  <2>3. pc = "trigger" => Head(spokes) \in Events
    BY HeadTailProperties DEF TypeOK
  <2>. QED
    BY <1>16, <2>1, <2>2, <2>3 DEF Pause, TypeOK, DriverBusy, driver
<1>17. ASSUME NEW e \in Events, Resume(e)
       PROVE  TypeInv'
  BY <1>17 DEF Resume, TypeOK, DriverBusy, driver
<1>18. ASSUME NEW e \in Events, Destroy(e)
       PROVE  TypeInv'
  <2>1. node' \in [Events -> TimerNodes]
    BY <1>18 DEF Destroy, TypeOK, TimerNodes
  <2>2. \A x \in Events : /\ node'[x].isValid => node[x].isValid
                           /\ node'[x].count = node[x].count
    BY <1>18 DEF Destroy, TypeOK, TimerNodes
  <2>3. pc = "trigger" => Head(spokes) \in Events
    BY HeadTailProperties DEF TypeOK
  <2>. QED
    BY <1>18, <2>1, <2>2, <2>3 DEF Destroy, TypeOK, DriverBusy, maps, driver
<1>19. CASE Stop
  BY <1>19 DEF Stop, TypeOK, DriverBusy, maps, driver
<1>20. CASE Destruct
  BY <1>20, NoNodeType DEF Destruct, TypeOK, DriverBusy, NoNode, driver
<1>21. CASE UNCHANGED vars
  BY <1>21 DEF vars, TypeOK, DriverBusy, maps, driver
<1>. QED
  BY <1>1, <1>2, <1>3, <1>4, <1>5, <1>6, <1>7, <1>8, <1>9, <1>10, <1>11, <1>12,
     <1>13, <1>14, <1>15, <1>16, <1>17, <1>18, <1>19, <1>20, <1>21
  DEF Next, Driver, Client

\* TypeInv holds in every reachable state.
LEMMA TypeInvariant == Spec => []TypeInv
BY TypeInit, TypeStep, PTL DEF Spec

\* TypesHold: in every reachable state every variable is in its range, whatever
\* the sizes of the wheels; nothing is ever filed in _pause (manager.cpp:65-78).
THEOREM TypesHold == Spec => []TypeOK
BY TypeInvariant, PTL DEF TypeInv

-----------------------------------------------------------------------------
\* Conservation: no node is lost or duplicated.

Filed == slots \in [SlotIds -> Seq(Events)] /\ spokes \in Seq(Events) /\ HeldOnce

\* The elements of a sequence after Append and after Tail.
LEMMA AppendElements ==
  ASSUME NEW q \in Seq(Events), NEW e \in Events
  PROVE  /\ DOMAIN Append(q, e) = 1..Len(q) + 1 /\ DOMAIN q = 1..Len(q) /\ Len(q) \in Nat
         /\ \A k \in 1..Len(q) : Append(q, e)[k] = q[k]
         /\ Append(q, e)[Len(q) + 1] = e
BY AppendProperties, LenProperties

\* The elements of the tail are those behind the first.
LEMMA TailElements ==
  ASSUME NEW q \in Seq(Events), q # <<>>
  PROVE  /\ DOMAIN Tail(q) = 1..Len(q) - 1 /\ DOMAIN q = 1..Len(q) /\ Len(q) \in Nat \ {0}
         /\ \A k \in 1..Len(q) - 1 : Tail(q)[k] = q[k + 1]
         /\ Head(q) = q[1] /\ Head(q) \in Events
<1>1. Len(q) \in Nat /\ DOMAIN q = 1..Len(q) /\ Len(q) # 0
  BY LenProperties, EmptySeq
<1>2. Tail(q) \in Seq(Events) /\ Len(Tail(q)) = Len(q) - 1
  BY HeadTailProperties
<1>. QED
  BY <1>1, <1>2, HeadTailProperties, LenProperties

\* Emptying a slot into spokes moves every node of it and keeps the others.
LEMMA SwapKeeps ==
  ASSUME Filed, spokes = <<>>, NEW s \in SlotIds,
         slots' = [slots EXCEPT ![s] = <<>>], spokes' = slots[s]
  PROVE  HeldOnce' /\ \A e \in Events : Held(e)' <=> Held(e)
<1>1. /\ DOMAIN slots'[s] = {} /\ DOMAIN spokes = {}
      /\ \A t \in SlotIds : t # s => slots'[t] = slots[t]
  BY DEF Filed
<1>2. HeldOnce'
  BY <1>1 DEF Filed, HeldOnce, InSpokes
<1>3. ASSUME NEW e \in Events PROVE Held(e)' <=> Held(e)
  BY <1>1 DEF Filed, Held, InSlot, InSpokes
<1>. QED
  BY <1>2, <1>3

\* Leaving spokes takes a node out of the wheel: it was there only once.
LEMMA DropKeeps ==
  ASSUME Filed, spokes # <<>>, slots' = slots, spokes' = Tail(spokes)
  PROVE  HeldOnce' /\ \A e \in Events : Held(e)' <=> (Held(e) /\ e # Head(spokes))
<1>1. /\ DOMAIN spokes' = 1..Len(spokes) - 1 /\ DOMAIN spokes = 1..Len(spokes)
      /\ Len(spokes) \in Nat \ {0} /\ Head(spokes) = spokes[1]
      /\ \A k \in 1..Len(spokes) - 1 : spokes'[k] = spokes[k + 1]
  BY TailElements DEF Filed
<1>2. \A e : InSpokes(e)' <=> (InSpokes(e) /\ e # Head(spokes))
  <2>1. ASSUME NEW e, InSpokes(e)' PROVE InSpokes(e) /\ e # Head(spokes)
    BY <1>1, <2>1 DEF Filed, HeldOnce, InSpokes
  <2>2. ASSUME NEW e, InSpokes(e), e # Head(spokes) PROVE InSpokes(e)'
    <3>1. PICK k \in 1..Len(spokes) : spokes[k] = e
      BY <1>1, <2>2 DEF InSpokes
    <3>2. k - 1 \in 1..Len(spokes) - 1 /\ spokes'[k - 1] = e
      BY <1>1, <2>2, <3>1
    <3>. QED
      BY <1>1, <3>2 DEF InSpokes
  <2>. QED
    BY <2>1, <2>2
<1>3. HeldOnce'
  <2>1. \A k, m \in DOMAIN spokes' : spokes'[k] = spokes'[m] => k = m
    BY <1>1 DEF Filed, HeldOnce
  <2>. QED
    BY <1>2, <2>1 DEF Filed, HeldOnce
<1>4. ASSUME NEW e \in Events PROVE Held(e)' <=> (Held(e) /\ e # Head(spokes))
  <2>1. InSpokes(Head(spokes))
    BY <1>1 DEF InSpokes
  <2>. QED
    BY <1>2, <2>1 DEF Filed, HeldOnce, Held, InSlot
<1>. QED
  BY <1>3, <1>4

\* AddNode files a node that was nowhere, once.
LEMMA FileKeeps ==
  ASSUME Filed, NEW e \in Events, ~Held(e), NEW p \in SlotIds,
         slots' = [slots EXCEPT ![p] = Append(slots[p], e)], spokes' = spokes
  PROVE  HeldOnce' /\ \A x \in Events : Held(x)' <=> (Held(x) \/ x = e)
<1>1. /\ DOMAIN slots'[p] = 1..Len(slots[p]) + 1 /\ DOMAIN slots[p] = 1..Len(slots[p])
      /\ Len(slots[p]) \in Nat /\ slots'[p][Len(slots[p]) + 1] = e
      /\ \A k \in 1..Len(slots[p]) : slots'[p][k] = slots[p][k]
      /\ \A t \in SlotIds : t # p => slots'[t] = slots[t]
  BY AppendElements DEF Filed
<1>2. \A t \in SlotIds : \A k \in DOMAIN slots'[t] :
        \/ k \in DOMAIN slots[t] /\ slots'[t][k] = slots[t][k] /\ slots'[t][k] # e
        \/ t = p /\ k = Len(slots[p]) + 1 /\ slots'[t][k] = e
  BY <1>1 DEF Held, InSlot
<1>3. HeldOnce'
  <2>1. ASSUME NEW s \in SlotIds, NEW k \in DOMAIN slots'[s],
               NEW t \in SlotIds, NEW m \in DOMAIN slots'[t], slots'[s][k] = slots'[t][m]
        PROVE  s = t /\ k = m
    BY <1>2, <2>1 DEF Filed, HeldOnce
  <2>2. ASSUME NEW s \in SlotIds, NEW k \in DOMAIN slots'[s]
        PROVE  ~InSpokes(slots'[s][k])
    BY <1>2, <2>2 DEF Filed, HeldOnce, Held, InSpokes
  <2>. QED
    BY <2>1, <2>2 DEF Filed, HeldOnce, InSpokes
<1>4. ASSUME NEW x \in Events PROVE Held(x)' <=> (Held(x) \/ x = e)
  BY <1>1, <1>2 DEF Held, InSlot, InSpokes
<1>. QED
  BY <1>3, <1>4

\* AddNode files the first node of spokes again, once.
LEMMA RefileKeeps ==
  ASSUME Filed, spokes # <<>>, NEW p \in SlotIds, spokes' = Tail(spokes),
         slots' = [slots EXCEPT ![p] = Append(slots[p], Head(spokes))]
  PROVE  HeldOnce' /\ \A x \in Events : Held(x)' <=> Held(x)
<1> DEFINE e == Head(spokes)
<1>1. /\ DOMAIN spokes' = 1..Len(spokes) - 1 /\ DOMAIN spokes = 1..Len(spokes)
      /\ Len(spokes) \in Nat \ {0} /\ e = spokes[1] /\ e \in Events
      /\ \A k \in 1..Len(spokes) - 1 : spokes'[k] = spokes[k + 1]
  BY TailElements DEF Filed
<1>0. slots' = [slots EXCEPT ![p] = Append(slots[p], e)]
  OBVIOUS
<1> HIDE DEF e
<1>2. \A x : (\E k \in DOMAIN spokes' : spokes'[k] = x) <=> (InSpokes(x) /\ x # e)
  <2>1. ASSUME NEW k \in DOMAIN spokes' PROVE InSpokes(spokes'[k]) /\ spokes'[k] # e
    <3>1. k \in 1..Len(spokes) - 1 /\ k + 1 \in DOMAIN spokes /\ 1 \in DOMAIN spokes
      BY <1>1, <2>1
    <3>2. spokes'[k] = spokes[k + 1] /\ spokes[k + 1] # spokes[1]
      BY <1>1, <3>1 DEF Filed, HeldOnce
    <3>. QED
      BY <1>1, <3>1, <3>2 DEF InSpokes
  <2>2. ASSUME NEW x, InSpokes(x), x # e PROVE \E k \in DOMAIN spokes' : spokes'[k] = x
    <3>1. PICK k \in 1..Len(spokes) : spokes[k] = x
      BY <1>1, <2>2 DEF InSpokes
    <3>2. k - 1 \in 1..Len(spokes) - 1 /\ spokes'[k - 1] = x
      BY <1>1, <2>2, <3>1
    <3>. QED
      BY <1>1, <3>2
  <2>. QED
    BY <2>1, <2>2
<1>3. \A t \in SlotIds : \A k \in DOMAIN slots[t] : slots[t][k] # e
  <2>1. InSpokes(e)
    BY <1>1 DEF InSpokes
  <2>. QED
    BY <2>1 DEF Filed, HeldOnce
<1>4. /\ DOMAIN slots'[p] = 1..Len(slots[p]) + 1 /\ DOMAIN slots[p] = 1..Len(slots[p])
      /\ Len(slots[p]) \in Nat /\ slots'[p][Len(slots[p]) + 1] = e
      /\ \A k \in 1..Len(slots[p]) : slots'[p][k] = slots[p][k]
      /\ \A t \in SlotIds : t # p => slots'[t] = slots[t]
  BY <1>0, <1>1, AppendElements DEF Filed
<1>5. \A t \in SlotIds : \A k \in DOMAIN slots'[t] :
        \/ k \in DOMAIN slots[t] /\ slots'[t][k] = slots[t][k] /\ slots'[t][k] # e
        \/ t = p /\ k = Len(slots[p]) + 1 /\ slots'[t][k] = e
  BY <1>3, <1>4
<1>6. HeldOnce'
  <2>1. ASSUME NEW s \in SlotIds, NEW k \in DOMAIN slots'[s],
               NEW t \in SlotIds, NEW m \in DOMAIN slots'[t], slots'[s][k] = slots'[t][m]
        PROVE  s = t /\ k = m
    BY <1>5, <2>1 DEF Filed, HeldOnce
  <2>2. ASSUME NEW k \in DOMAIN spokes', NEW m \in DOMAIN spokes', spokes'[k] = spokes'[m]
        PROVE  k = m
    BY <1>1, <2>2 DEF Filed, HeldOnce
  <2>3. ASSUME NEW s \in SlotIds, NEW k \in DOMAIN slots'[s]
        PROVE  ~\E m \in DOMAIN spokes' : spokes'[m] = slots'[s][k]
    BY <1>2, <1>5, <2>3 DEF Filed, HeldOnce
  <2>. QED
    BY <2>1, <2>2, <2>3 DEF HeldOnce, InSpokes
<1>7. ASSUME NEW x \in Events PROVE Held(x)' <=> Held(x)
  <2>1. InSpokes(e)
    BY <1>1 DEF InSpokes
  <2>2. (\E s \in SlotIds : InSlot(x, s))' <=> (x = e \/ \E s \in SlotIds : InSlot(x, s))
    BY <1>4, <1>5 DEF InSlot
  <2>3. InSpokes(x)' <=> (InSpokes(x) /\ x # e)
    BY <1>2 DEF InSpokes
  <2>. QED
    BY <2>1, <2>2, <2>3, Zenon DEF Held
<1>. QED
  BY <1>6, <1>7

\* While the driver serves nothing, it holds nothing.
HeldInv ==
  /\ TimersHeld
  /\ pc \in {"run", "sleep", "advance", "exited", "gone"} => spokes = <<>>

\* At the start the wheel is empty.
LEMMA HeldInit == Init => HeldInv
<1> SUFFICES ASSUME Init PROVE HeldInv
  OBVIOUS
<1>1. /\ spokes = <<>> /\ manager = {} /\ \A s \in SlotIds : slots[s] = <<>>
  BY Zenon DEF Init
<1>2. /\ DOMAIN spokes = {} /\ \A s \in SlotIds : DOMAIN slots[s] = {}
  BY <1>1
<1>. QED
  BY <1>1, <1>2, Zenon DEF HeldInv, TimersHeld, HeldOnce, Held, InSlot, InSpokes

\* Steps that leave the places of all nodes alone.
LEMMA HeldSame ==
  ASSUME HeldOnce, slots' = slots, spokes' = spokes
  PROVE  HeldOnce' /\ \A e \in Events : Held(e)' <=> Held(e)
BY DEF HeldOnce, Held, InSlot, InSpokes

\* Steps that leave every node in its place and every registered event registered.
LEMMA HeldFrame ==
  ASSUME TimersHeld, HeldOnce', \A e \in Events : Held(e)' <=> Held(e),
         manager' = manager,
         \A e \in Events : node[e].isPause => node'[e].isPause
  PROVE  TimersHeld'
BY DEF TimersHeld

\* Every action keeps every registered node in its one place.
LEMMA HeldStep == TypeInv /\ HeldInv /\ [Next]_vars => HeldInv'
<1> SUFFICES ASSUME TypeInv, HeldInv, [Next]_vars PROVE HeldInv'
  OBVIOUS
<1>0. Filed /\ TimersHeld /\ HeldOnce
  BY DEF TypeInv, TypeOK, Filed, HeldInv, TimersHeld
<1>1. ASSUME UNCHANGED <<slots, spokes, node, manager>>,
             spokes = <<>> \/ pc' \notin {"run", "sleep", "advance", "exited", "gone"}
      PROVE  HeldInv'
  BY <1>0, <1>1, HeldSame, HeldFrame DEF HeldInv
<1>2. CASE Update \/ UpdateDone \/ TickDone \/ AfterStop
  BY <1>1, <1>2 DEF Update, UpdateDone, TickDone, AfterStop, HeldInv, maps
<1>3. CASE BeginTick
  <2>1. SlotOf(2, tickTime) \in SlotIds
    BY SlotOfType DEF TypeInv, TypeOK, Levels
  <2>2. CASE tickTime % NearSize = 0
    <3>1. /\ slots' = [slots EXCEPT ![SlotOf(2, tickTime)] = <<>>]
          /\ spokes' = slots[SlotOf(2, tickTime)] /\ spokes = <<>> /\ pc' = "cascade"
          /\ UNCHANGED <<node, manager>>
      BY <1>3, <2>2 DEF BeginTick, HeldInv, maps
    <3>. QED
      BY <1>0, <2>1, <3>1, SwapKeeps, HeldFrame DEF HeldInv
  <2>3. CASE tickTime % NearSize # 0
    BY <1>1, <1>3, <2>3 DEF BeginTick, HeldInv, maps
  <2>. QED
    BY <2>2, <2>3
<1>4. CASE CascadeNode
  <2>1. Head(spokes) \in Events /\ spokes # <<>>
    BY <1>4, HeadTailProperties DEF CascadeNode, TypeInv, TypeOK
  <2> DEFINE p == Place(node[Head(spokes)].expire, tickTime)
  <2>2. p \in SlotIds
    BY <2>1, PlaceType DEF TypeInv, TypeOK, TimerNodes
  <2>3. /\ slots' = [slots EXCEPT ![p] = Append(slots[p], Head(spokes))]
        /\ spokes' = Tail(spokes) /\ pc' = "cascade" /\ UNCHANGED <<node, manager>>
    BY <1>4, Zenon DEF CascadeNode, AddNode, maps
  <2> HIDE DEF p
  <2>. QED
    BY <1>0, <2>1, <2>2, <2>3, RefileKeeps, HeldFrame DEF HeldInv
<1>5. CASE CascadeNext
  <2>2. CASE SlotOf(level, tickTime)[2] = 0 /\ level < 5
    <3>1. level + 1 \in Levels
      BY <2>2 DEF TypeInv, TypeOK, Levels
    <3>2. SlotOf(level + 1, tickTime) \in SlotIds
      BY <3>1, SlotOfType DEF TypeInv, TypeOK
    <3>3. /\ slots' = [slots EXCEPT ![SlotOf(level + 1, tickTime)] = <<>>]
          /\ spokes' = slots[SlotOf(level + 1, tickTime)] /\ spokes = <<>>
          /\ pc' = "cascade" /\ UNCHANGED <<node, manager>>
      BY <1>5, <2>2, Zenon DEF CascadeNext, maps
    <3>. QED
      BY <1>0, <3>2, <3>3, SwapKeeps, HeldFrame DEF HeldInv
  <2>3. CASE ~(SlotOf(level, tickTime)[2] = 0 /\ level < 5)
    BY <1>1, <1>5, <2>3 DEF CascadeNext, HeldInv, maps
  <2>. QED
    BY <2>2, <2>3
<1>6. CASE Advance
  <2>1. SlotOf(1, tickTime) \in SlotIds
    BY SlotOfType DEF TypeInv, TypeOK, Levels
  <2>2. /\ slots' = [slots EXCEPT ![SlotOf(1, tickTime)] = <<>>]
        /\ spokes' = slots[SlotOf(1, tickTime)] /\ spokes = <<>> /\ pc' = "serve"
        /\ UNCHANGED <<node, manager>>
    BY <1>6 DEF Advance, HeldInv, maps
  <2>. QED
    BY <1>0, <2>1, <2>2, SwapKeeps, HeldFrame DEF HeldInv
<1>7. CASE DropInvalid
  <2>1. Head(spokes) \in Events /\ spokes # <<>>
    BY <1>7, HeadTailProperties DEF DropInvalid, TypeInv, TypeOK
  <2>2. HeldOnce' /\ \A e \in Events : Held(e)' <=> (Held(e) /\ e # Head(spokes))
    BY <1>0, <1>7, <2>1, DropKeeps DEF DropInvalid
  <2>3. /\ pc' = "serve" /\ manager' = manager \ {Head(spokes)}
        /\ \A e \in Events : e # Head(spokes) => node'[e] = node[e]
    BY <1>7, <2>1 DEF DropInvalid, TypeInv, TypeOK
  <2>. QED
    BY <1>0, <2>2, <2>3 DEF HeldInv, TimersHeld
<1>8. CASE DropPaused
  <2>1. Head(spokes) \in Events /\ spokes # <<>>
    BY <1>8, HeadTailProperties DEF DropPaused, TypeInv, TypeOK
  <2>2. HeldOnce' /\ \A e \in Events : Held(e)' <=> (Held(e) /\ e # Head(spokes))
    BY <1>0, <1>8, <2>1, DropKeeps DEF DropPaused
  <2>3. pc' = "serve" /\ UNCHANGED <<node, manager>> /\ node[Head(spokes)].isPause
    BY <1>8 DEF DropPaused, maps
  <2>. QED
    BY <1>0, <2>2, <2>3 DEF HeldInv, TimersHeld
<1>9. CASE Trigger \/ AfterTrigger
  <2>1. Head(spokes) \in Events /\ spokes # <<>>
    BY <1>9, HeadTailProperties DEF Trigger, AfterTrigger, TypeInv, TypeOK
  <2>2. \A e \in Events : node'[e].isPause = node[e].isPause
    <3> DEFINE h == Head(spokes)
               n == node[h]
               fired == [n EXCEPT !.expire = n.expire + n.interval]
               ended == [n EXCEPT !.expire = n.expire + n.interval, !.isValid = FALSE]
               counted == [n EXCEPT !.count = n.count - 1]
               spent == [n EXCEPT !.count = 0, !.isValid = FALSE]
    <3>0. n \in TimerNodes
      BY <2>1 DEF TypeInv, TypeOK
    <3>1. /\ fired.isPause = n.isPause /\ ended.isPause = n.isPause
          /\ counted.isPause = n.isPause /\ spent.isPause = n.isPause
      BY <3>0 DEF TimerNodes
    <3>2. \/ node' = [node EXCEPT ![h] = fired] \/ node' = [node EXCEPT ![h] = ended]
          \/ node' = [node EXCEPT ![h] = counted] \/ node' = [node EXCEPT ![h] = spent]
      BY <1>9, Zenon DEF Trigger, AfterTrigger
    <3> HIDE DEF fired, ended, counted, spent
    <3>. QED
      BY <2>1, <3>1, <3>2 DEF TypeInv, TypeOK
  <2>3. UNCHANGED <<slots, spokes, manager>> /\ pc' \in {"trigger", "stop", "requeue"}
    BY <1>9 DEF Trigger, AfterTrigger, maps
  <2>. QED
    BY <1>0, <2>2, <2>3, HeldSame, HeldFrame DEF HeldInv
<1>10. CASE Requeue
  <2>1. Head(spokes) \in Events /\ spokes # <<>>
    BY <1>10, HeadTailProperties DEF Requeue, TypeInv, TypeOK
  <2>2. CASE pc' = "crashed"
    BY <1>1, <1>10, <2>2 DEF Requeue, maps
  <2>3. CASE pc' # "crashed"
    <3> DEFINE t == RevisedExpire(node[Head(spokes)])
               p == Place(t, tickTime)
    <3>1. /\ ~(/\ Late(node[Head(spokes)]) > node[Head(spokes)].interval
               /\ node[Head(spokes)].interval = 0)
          /\ node' = [node EXCEPT ![Head(spokes)].expire = t]
          /\ slots' = [slots EXCEPT ![p] = Append(slots[p], Head(spokes))]
          /\ spokes' = Tail(spokes)
          /\ pc' = "serve" /\ UNCHANGED manager
      BY <1>10, <2>3 DEF Requeue, AddNode, maps
    <3>2. t \in Nat
      BY <2>1, <3>1, RevisedType DEF TypeInv, TypeOK, TimerNodes
    <3> HIDE DEF t
    <3>3. p \in SlotIds
      BY <3>2, PlaceType DEF TypeInv, TypeOK
    <3>4. \A e \in Events : node'[e].isPause = node[e].isPause
      BY <2>1, <3>1 DEF TypeInv, TypeOK, TimerNodes
    <3> HIDE DEF p
    <3>. QED
      BY <1>0, <2>1, <3>1, <3>3, <3>4, RefileKeeps, HeldFrame DEF HeldInv
  <2>. QED
    BY <2>2, <2>3
<1>11. ASSUME NEW e \in Events, NEW c \in Counts, NEW i \in Intervals, Start(e, c, i)
       PROVE  HeldInv'
  <2> DEFINE p == Place(tickTime + i, tickTime)
  <2>1. p \in SlotIds
    BY PlaceType, InputAssumption DEF TypeInv, TypeOK
  <2>2. /\ slots' = [slots EXCEPT ![p] = Append(slots[p], e)] /\ spokes' = spokes
        /\ manager' = manager \union {e} /\ pc' = pc
        /\ \A x \in Events : x # e => node'[x] = node[x]
        /\ e \notin manager
    BY <1>11 DEF Start, AddNode, TypeInv, TypeOK
  <2> HIDE DEF p
  <2>3. ~Held(e)
    BY <1>0, <2>2 DEF TimersHeld
  <2>4. HeldOnce' /\ \A x \in Events : Held(x)' <=> (Held(x) \/ x = e)
    BY <1>0, <2>1, <2>2, <2>3, FileKeeps
  <2>. QED
    BY <1>0, <2>2, <2>4 DEF HeldInv, TimersHeld
<1>12. ASSUME NEW e \in Events, NEW i \in Intervals, StartTooLong(e, i)
       PROVE  HeldInv'
  BY <1>1, <1>12 DEF StartTooLong, HeldInv, maps
<1>13. ASSUME NEW e \in Events, Pause(e)
       PROVE  HeldInv'
  <2>1. \A x \in Events : node[x].isPause => node'[x].isPause
    BY <1>13 DEF Pause, TypeInv, TypeOK, TimerNodes
  <2>2. UNCHANGED <<slots, spokes, manager, pc>>
    BY <1>13 DEF Pause
  <2>. QED
    BY <1>0, <2>1, <2>2, HeldSame, HeldFrame DEF HeldInv
<1>14. ASSUME NEW e \in Events, Resume(e)
       PROVE  HeldInv'
  BY <1>1, <1>14 DEF Resume, HeldInv, TypeInv, TypeOK
<1>15. ASSUME NEW e \in Events, Destroy(e)
       PROVE  HeldInv'
  <2>1. \A x \in Events : node[x].isPause => node'[x].isPause
    BY <1>15 DEF Destroy, TypeInv, TypeOK, TimerNodes
  <2>2. UNCHANGED <<slots, spokes, manager, pc>>
    BY <1>15 DEF Destroy, maps
  <2>. QED
    BY <1>0, <2>1, <2>2, HeldSame, HeldFrame DEF HeldInv
<1>16. CASE Stop
  BY <1>1, <1>16 DEF Stop, HeldInv, maps
<1>17. CASE Destruct
  <2>1. /\ spokes' = <<>> /\ manager' = {} /\ \A s \in SlotIds : slots'[s] = <<>>
    BY <1>17 DEF Destruct, HeldInv
  <2>2. DOMAIN spokes' = {} /\ \A s \in SlotIds : DOMAIN slots'[s] = {}
    BY <2>1
  <2>. QED
    BY <2>1, <2>2, Zenon DEF HeldInv, TimersHeld, HeldOnce, Held, InSlot, InSpokes
<1>18. CASE UNCHANGED vars
  BY <1>1, <1>18 DEF vars, HeldInv, maps
<1>. QED
  BY <1>2, <1>3, <1>4, <1>5, <1>6, <1>7, <1>8, <1>9, <1>10, <1>11, <1>12,
     <1>13, <1>14, <1>15, <1>16, <1>17, <1>18
  DEF Next, Driver, Client

\* NodesConserved: whatever is started, paused, destroyed and fired, and however
\* wide the wheels are, no TimerNode is ever in two slots, and every registered
\* one that is not paused is in one (AddNode, Cascade, Executes).
THEOREM NodesConserved == Spec => []TimersHeld
<1>1. Init => TypeInv /\ HeldInv
  BY TypeInit, HeldInit
<1>2. TypeInv /\ HeldInv /\ [Next]_vars => (TypeInv /\ HeldInv)'
  BY TypeStep, HeldStep
<1>. QED
  BY <1>1, <1>2, PTL DEF Spec, HeldInv

-----------------------------------------------------------------------------
\* The clock.

\* The driver sleeps only when it has caught up.
SleepIdle == pc = "sleep" => todo = 0

\* TicksConserved: between reading the clock and sleeping again the driver
\* executes every millisecond that has passed, once (Update, Executes).
THEOREM TicksConserved == Spec => []TicksAccounted
<1>1. Init => TypeInv /\ TicksAccounted /\ SleepIdle
  BY TypeInit DEF Init, TicksAccounted, SleepIdle
<1>2. ASSUME TypeInv, TicksAccounted, SleepIdle, [Next]_vars
      PROVE  TicksAccounted' /\ SleepIdle'
  <2>1. tickTime \in Nat /\ lastTime \in Nat /\ todo \in Nat
    BY <1>2 DEF TypeInv, TypeOK
  <2>2. CASE Update
    <3>1. PICK d \in Elapsed : /\ lastTime' = lastTime + Least(d, MaxTime - lastTime)
                               /\ todo' = Least(d, MaxTime - lastTime)
      BY <2>2, Zenon DEF Update
    <3>2. Least(d, MaxTime - lastTime) \in Int
      BY <2>1, InputAssumption DEF Least
    <3>3. pc = "sleep" /\ pc' = "run" /\ tickTime' = tickTime
      BY <2>2 DEF Update
    <3>4. tickTime + todo = lastTime /\ todo = 0
      BY <1>2, <2>1, <3>3 DEF TicksAccounted, SleepIdle
    <3>. QED
      BY <1>2, <2>1, <3>1, <3>2, <3>3, <3>4 DEF TicksAccounted, SleepIdle
  <2>3. CASE UpdateDone \/ BeginTick \/ CascadeNode \/ CascadeNext
    BY <1>2, <2>3 DEF UpdateDone, BeginTick, CascadeNode, CascadeNext,
                      TicksAccounted, SleepIdle, driver
  <2>4. CASE Advance \/ TickDone
    BY <1>2, <2>1, <2>4 DEF Advance, TickDone, TicksAccounted, SleepIdle
  <2>5. CASE DropInvalid \/ DropPaused \/ Trigger \/ AfterTrigger \/ AfterStop \/ Requeue
    BY <1>2, <2>5 DEF DropInvalid, DropPaused, Trigger, AfterTrigger, AfterStop, Requeue,
                      TicksAccounted, SleepIdle, driver
  <2>6. CASE Client
    BY <1>2, <2>6 DEF Client, Start, StartTooLong, Pause, Resume, Destroy, Stop, Destruct,
                      TicksAccounted, SleepIdle, driver
  <2>7. CASE UNCHANGED vars
    BY <1>2, <2>7 DEF vars, TicksAccounted, SleepIdle, driver
  <2>. QED
    BY <1>2, <2>2, <2>3, <2>4, <2>5, <2>6, <2>7 DEF Next, Driver
<1>. QED
  BY <1>1, <1>2, TypeStep, PTL DEF Spec

-----------------------------------------------------------------------------
\* What the client is told.

\* Steps that change neither a node's validity and count nor its reports.
LEMMA ReportFrame ==
  ASSUME StopReported, UNCHANGED <<manager, onStop>>,
         \A e \in Events : /\ node'[e].isValid = node[e].isValid
                           /\ node'[e].count = node[e].count
  PROVE  StopReported'
BY DEF StopReported

\* Every action keeps the reports.
LEMMA ReportStep == TypeInv /\ StopReported /\ [Next]_vars => StopReported'
<1> SUFFICES ASSUME TypeInv, StopReported, [Next]_vars PROVE StopReported'
  OBVIOUS
<1> USE DEF TypeInv
<1> DEFINE h == Head(spokes)
<1>0. pc \in {"trigger", "stop", "requeue"} \/ spokes # <<>> => h \in Events
  BY HeadTailProperties DEF TypeOK
<1>1. CASE UNCHANGED <<node, manager, onStop>>
  BY <1>1, ReportFrame
<1>2. CASE Update \/ UpdateDone \/ BeginTick \/ CascadeNode \/ CascadeNext \/ Advance
           \/ TickDone \/ DropPaused \/ AfterStop \/ Stop \/ UNCHANGED vars
  BY <1>1, <1>2 DEF Update, UpdateDone, BeginTick, CascadeNode, CascadeNext, Advance,
                    TickDone, DropPaused, AfterStop, Stop, vars, maps
<1>3. CASE DropInvalid
  <2>1. /\ h \in Events /\ manager' = manager \ {h} /\ onStop' = onStop
        /\ \A e \in Events : e # h => node'[e] = node[e]
        /\ node'[h].count = 0
    BY <1>0, <1>3 DEF DropInvalid, TypeOK, NoNode
  <2>. QED
    BY <2>1 DEF StopReported
<1>4. CASE Trigger
  <2> DEFINE n == node[h]
             fired == [n EXCEPT !.expire = n.expire + n.interval]
             ended == [n EXCEPT !.expire = n.expire + n.interval, !.isValid = FALSE]
  <2>1. h \in Events /\ n \in TimerNodes /\ n.isValid /\ h \in manager /\ onStop[h] = 0
    BY <1>0, <1>4 DEF Trigger, TypeOK, DriverBusy, StopReported
  <2>2. fired.isValid = TRUE /\ ended.isValid = FALSE
    BY <2>1 DEF TimerNodes
  <2>3. /\ manager' = manager
        /\ \/ node' = [node EXCEPT ![h] = fired] /\ onStop' = onStop
           \/ node' = [node EXCEPT ![h] = ended] /\ onStop' = [onStop EXCEPT ![h] = onStop[h] + 1]
    BY <1>4, Zenon DEF Trigger, maps
  <2> HIDE DEF fired, ended, n
  <2>. QED
    BY <2>1, <2>2, <2>3 DEF StopReported, TypeOK
<1>5. CASE AfterTrigger
  <2>1. /\ h \in Events /\ h \in manager /\ node[h].count # 0
        /\ onStop[h] \in {0, 1} /\ (node[h].isValid <=> onStop[h] = 0)
    BY <1>0, <1>5 DEF AfterTrigger, TypeOK, DriverBusy, StopReported
  <2>2. /\ manager' = manager
        /\ \A e \in Events : e # h => node'[e] = node[e] /\ onStop'[e] = onStop[e]
    BY <1>5, <2>1 DEF AfterTrigger, TypeOK, maps
  <2>3. \/ /\ onStop'[h] = onStop[h] + 1 /\ node'[h].count = 0 /\ node'[h].isValid = FALSE
        \/ onStop'[h] = onStop[h] /\ node'[h].isValid = node[h].isValid
    BY <1>5, <2>1 DEF AfterTrigger, TypeOK, TimerNodes
  <2>. QED
    BY <2>1, <2>2, <2>3 DEF StopReported
<1>6. CASE Requeue
  <2> DEFINE m == [node[h] EXCEPT !.expire = RevisedExpire(node[h])]
  <2>0. h \in Events /\ node[h] \in TimerNodes
    BY <1>0, <1>6 DEF Requeue, TypeOK
  <2>1. node' = node \/ node' = [node EXCEPT ![h] = m]
    BY <1>6, Zenon DEF Requeue
  <2>2. m.isValid = node[h].isValid /\ m.count = node[h].count
    BY <2>0 DEF TimerNodes
  <2> HIDE DEF m
  <2>3. \A e \in Events : node'[e].isValid = node[e].isValid /\ node'[e].count = node[e].count
    BY <2>0, <2>1, <2>2 DEF TypeOK
  <2>. QED
    BY <1>6, <2>3, ReportFrame DEF Requeue, maps
<1>7. ASSUME NEW e \in Events, NEW c \in Counts, NEW i \in Intervals, Start(e, c, i)
      PROVE  StopReported'
  BY <1>7 DEF Start, StopReported, TypeOK, NewNode
<1>8. ASSUME NEW e \in Events, NEW i \in Intervals, StartTooLong(e, i)
      PROVE  StopReported'
  BY <1>8 DEF StartTooLong, StopReported, TypeOK, maps
<1>9. ASSUME NEW e \in Events, Pause(e) \/ Resume(e)
      PROVE  StopReported'
  <2> DEFINE m == [node[e] EXCEPT !.isPause = TRUE, !.pauseTick = tickTime]
  <2>0. m.isValid = node[e].isValid /\ m.count = node[e].count
    BY DEF TypeOK, TimerNodes
  <2>1. \A x \in Events : node'[x].isValid = node[x].isValid /\ node'[x].count = node[x].count
    <3>1. node' = node \/ node' = [node EXCEPT ![e] = m]
      BY <1>9 DEF Pause, Resume, TypeOK
    <3> HIDE DEF m
    <3>. QED
      BY <2>0, <3>1 DEF TypeOK
  <2>. QED
    BY <1>9, <2>1, ReportFrame DEF Pause, Resume
<1>10. ASSUME NEW e \in Events, Destroy(e)
       PROVE  StopReported'
  <2>1. e \in manager /\ node[e].isValid /\ onStop[e] = 0
    BY <1>10 DEF Destroy, StopReported
  <2>2. /\ manager' = manager /\ onStop'[e] = 1 /\ node'[e].isValid = FALSE
        /\ \A x \in Events : x # e => node'[x] = node[x] /\ onStop'[x] = onStop[x]
    BY <1>10, <2>1 DEF Destroy, TypeOK, TimerNodes, maps
  <2>. QED
    BY <2>1, <2>2 DEF StopReported
<1>11. CASE Destruct
  <2>1. /\ manager' = {}
        /\ \A e \in Events : node[e].isValid => onStop'[e] = onStop[e] + 1
        /\ \A e \in Events : ~node[e].isValid => onStop'[e] = onStop[e] + 0
        /\ \A e \in Events : node'[e].count = 0
    BY <1>11 DEF Destruct, NoNode, TypeOK
  <2>2. \A e \in Events : node[e].isValid => onStop[e] = 0
    BY DEF DriverBusy, StopReported
  <2>3. ASSUME NEW e \in Events PROVE onStop'[e] > 1 => onStop'[e] = 2 /\ node'[e].count = 0
    <3>1. onStop[e] \in Nat /\ (onStop[e] > 1 => onStop[e] = 2)
      BY DEF TypeOK, StopReported
    <3>2. CASE node[e].isValid
      BY <2>1, <2>2, <3>2
    <3>3. CASE ~node[e].isValid
      BY <2>1, <3>1, <3>3
    <3>. QED
      BY <3>2, <3>3
  <2>. QED
    BY <2>1, <2>3 DEF StopReported
<1>. QED
  BY <1>2, <1>3, <1>4, <1>5, <1>6, <1>7, <1>8, <1>9, <1>10, <1>11 DEF Next, Driver, Client

\* StopsReported: OnStop reaches a timer exactly when it becomes invalid, and a
\* second time only after its own last callback destroyed it (node.cpp:14-35).
THEOREM StopsReported == Spec => []StopReported
<1>1. Init => TypeInv /\ StopReported
  BY TypeInit DEF Init, StopReported
<1>. QED
  BY <1>1, TypeStep, ReportStep, PTL DEF Spec

-----------------------------------------------------------------------------
\* The tick in which the slot of level l that x belongs to comes up.
Turn(l, x) == (x \div Unit(l)) * Unit(l)

\* The cascade of the tick has been through the slot of level l that comes up in it.
Emptied(l) == l > 1 /\ (pc = "advance" \/ (pc = "cascade" /\ l <= level))

Stands(l, x) ==
  /\ tickTime <= Turn(l, x) /\ Turn(l, x) < tickTime + Unit(l + 1)
  /\ Emptied(l) => Turn(l, x) # tickTime

\* A node in the wheel stands in the slot of its expiry, whose turn has not passed and is
\* less than one round ahead.
Fits(s, x) == s = SlotOf(s[1], x) /\ Stands(s[1], x)
Placed == \A s \in SlotIds : \A k \in DOMAIN slots[s] : Fits(s, node[slots[s][k]].expire)

\* The nodes out of the wheel: in a cascade they are due before the slot's turn ends; those
\* that are served are due in this tick, and the one that has fired an interval later.
InHand ==
  \A k \in DOMAIN spokes :
    LET n == node[spokes[k]]
    IN  /\ pc = "cascade" => tickTime <= n.expire /\ n.expire < tickTime + Unit(level)
        /\ pc = "serve" \/ (pc \in {"trigger", "stop", "requeue"} /\ k > 1) => n.expire = tickTime - 1
        /\ pc \in {"trigger", "stop", "requeue"} /\ k = 1 => n.expire = tickTime - 1 + n.interval

Divides(l, t) == \E q \in Nat : t = q * Unit(l)

WheelInv ==
  /\ Placed /\ InHand
  /\ \A e \in Events : node[e].interval < Unit(6)
  /\ pc = "cascade" => level > 1 /\ tickTime = Turn(level, tickTime)

\* Multiples of u are at least u apart.
LEMMA Apart ==
  ASSUME NEW u \in Nat \ {0}, NEW a \in Int, NEW b \in Int, a < b
  PROVE  a * u + u <= b * u
<1>1. PICK d \in Nat : b = a + 1 + d
  <2>1. b - a - 1 \in Nat /\ b = a + 1 + (b - a - 1)
    OBVIOUS
  <2>. QED
    BY <2>1
<1>2. b * u = a * u + u + d * u
  BY <1>1
<1>3. d * u \in Nat /\ a * u \in Int
  OBVIOUS
<1>. QED
  BY <1>2, <1>3

\* Quotient and remainder.
LEMMA Quotient ==
  ASSUME NEW t \in Nat, NEW u \in Nat \ {0}
  PROVE  /\ t \div u \in Nat /\ t % u \in 0..u - 1 /\ (t \div u) * u \in Nat
         /\ t = (t \div u) * u + (t % u)
<1>1. t \div u \in Nat /\ t % u \in 0..u - 1
  BY SMT
<1>2. t = u * (t \div u) + (t % u)
  BY SMT
<1>3. (t \div u) * u \in Nat /\ u * (t \div u) = (t \div u) * u
  BY <1>1
<1>. QED
  BY <1>1, <1>2, <1>3

\* They are the only ones.
LEMMA QuotientUnique ==
  ASSUME NEW t \in Nat, NEW u \in Nat \ {0}, NEW q \in Nat, NEW r \in 0..u - 1, t = q * u + r
  PROVE  t \div u = q /\ t % u = r
<1>1. /\ t \div u \in Nat /\ t % u \in 0..u - 1 /\ (t \div u) * u \in Nat
      /\ t = (t \div u) * u + (t % u)
  BY Quotient
<1>2. q * u \in Nat
  OBVIOUS
<1>3. ~(q < t \div u)
  <2>1. q < t \div u => q * u + u <= (t \div u) * u
    BY <1>1, Apart
  <2>. QED
    BY <1>1, <1>2, <2>1
<1>4. ~(t \div u < q)
  <2>1. t \div u < q => (t \div u) * u + u <= q * u
    BY <1>1, Apart
  <2>. QED
    BY <1>1, <1>2, <2>1
<1>5. t \div u = q
  BY <1>1, <1>3, <1>4
<1>. QED
  BY <1>1, <1>2, <1>5

\* Numbers that are less than m apart have different remainders.
LEMMA SameRemainder ==
  ASSUME NEW a \in Nat, NEW b \in Nat, NEW m \in Nat \ {0}, a <= b, b < a + m, a % m = b % m
  PROVE  a = b
<1>1. /\ a \div m \in Nat /\ (a \div m) * m \in Nat /\ a = (a \div m) * m + (a % m)
      /\ b \div m \in Nat /\ (b \div m) * m \in Nat /\ b = (b \div m) * m + (b % m)
      /\ a % m \in 0..m - 1
  BY Quotient
<1>2. ~(a \div m < b \div m)
  <2>1. a \div m < b \div m => (a \div m) * m + m <= (b \div m) * m
    BY <1>1, Apart
  <2>. QED
    BY <1>1, <2>1
<1>3. ~(b \div m < a \div m)
  <2>1. b \div m < a \div m => (b \div m) * m + m <= (a \div m) * m
    BY <1>1, Apart
  <2>. QED
    BY <1>1, <2>1
<1>. QED
  BY <1>1, <1>2, <1>3

\* One slot of a level spans a whole round of the level below.
LEMMA UnitNext ==
  ASSUME NEW l \in Levels
  PROVE  /\ Unit(l + 1) = Unit(l) * Size(l)
         /\ Unit(l) \in Nat \ {0} /\ Unit(l + 1) \in Nat \ {0} /\ Size(l) \in Nat \ {0}
<1>1. NearSize \in Nat \ {0} /\ WheelSize \in Nat \ {0}
  BY SizeAssumption
<1>2. Unit(l) \in Nat \ {0} /\ Unit(l + 1) \in Nat \ {0} /\ Size(l) \in Nat \ {0}
  BY <1>1, UnitPositive DEF Levels, Size
<1>3. l = 1 \/ l = 2 \/ l = 3 \/ l = 4 \/ l = 5
  BY DEF Levels
<1>4. CASE l = 1  BY <1>1, <1>4 DEF Unit, Size
<1>5. CASE l = 2  BY <1>1, <1>5 DEF Unit, Size
<1>6. CASE l = 3  BY <1>1, <1>6 DEF Unit, Size
<1>7. CASE l = 4  BY <1>1, <1>7 DEF Unit, Size
<1>8. CASE l = 5  BY <1>1, <1>8 DEF Unit, Size
<1>. QED
  BY <1>2, <1>3, <1>4, <1>5, <1>6, <1>7, <1>8

\* A turn begins at or before x and lasts beyond it.
LEMMA TurnBounds ==
  ASSUME NEW l \in 1..6, NEW x \in Nat
  PROVE  /\ Turn(l, x) \in Nat /\ Turn(l, x) <= x /\ x < Turn(l, x) + Unit(l)
         /\ Divides(l, Turn(l, x)) /\ x \div Unit(l) \in Nat /\ Unit(l) \in Nat \ {0}
<1>1. Unit(l) \in Nat \ {0}
  BY UnitPositive
<1>2. /\ x \div Unit(l) \in Nat /\ x % Unit(l) \in 0..Unit(l) - 1 /\ (x \div Unit(l)) * Unit(l) \in Nat
      /\ x = (x \div Unit(l)) * Unit(l) + (x % Unit(l))
  BY <1>1, Quotient
<1>3. Divides(l, Turn(l, x))
  BY <1>2 DEF Turn, Divides
<1>4. PICK d \in Nat, r \in 0..Unit(l) - 1 : d = (x \div Unit(l)) * Unit(l) /\ x = d + r
  BY <1>2
<1>5. Turn(l, x) = d
  BY <1>4 DEF Turn
<1>6. d \in Nat /\ d <= x /\ x < d + Unit(l)
  BY <1>1, <1>4
<1>. QED
  BY <1>1, <1>2, <1>3, <1>5, <1>6

\* A tick in which a slot of the level comes up is its own turn.
LEMMA TurnOfTurn ==
  ASSUME NEW l \in 1..6, NEW t \in Nat
  PROVE  Divides(l, t) <=> Turn(l, t) = t
<1>1. ASSUME Divides(l, t) PROVE Turn(l, t) = t
  <2>1. PICK q \in Nat : t = q * Unit(l)
    BY <1>1 DEF Divides
  <2>2. Unit(l) \in Nat \ {0}
    BY UnitPositive
  <2>3. 0 \in 0..Unit(l) - 1 /\ t = q * Unit(l) + 0
    BY <2>1, <2>2
  <2>4. t \div Unit(l) = q
    BY <2>2, <2>3, QuotientUnique
  <2>. QED
    BY <2>1, <2>4 DEF Turn
<1>. QED
  BY <1>1, TurnBounds

\* A tick in which a slot of a level comes up is one in which those of the levels below do.
LEMMA DividesDown ==
  ASSUME NEW l \in Levels, NEW t \in Nat, Divides(l + 1, t)
  PROVE  Divides(l, t)
<1>1. PICK q \in Nat : t = q * Unit(l + 1)
  BY DEF Divides
<1>2. /\ Unit(l + 1) = Unit(l) * Size(l) /\ Unit(l) \in Nat \ {0} /\ Size(l) \in Nat \ {0}
  BY UnitNext
<1>3. q * Size(l) \in Nat /\ t = (q * Size(l)) * Unit(l)
  BY <1>1, <1>2
<1>. QED
  BY <1>3 DEF Divides

\* The same over several levels.
LEMMA DividesBelow ==
  ASSUME NEW l \in 1..6, NEW m \in 1..6, l <= m, NEW t \in Nat, Divides(m, t)
  PROVE  Divides(l, t)
<1>1. Divides(6, t) => Divides(5, t)
  BY DividesDown DEF Levels
<1>2. Divides(5, t) => Divides(4, t)
  BY DividesDown DEF Levels
<1>3. Divides(4, t) => Divides(3, t)
  BY DividesDown DEF Levels
<1>4. Divides(3, t) => Divides(2, t)
  BY DividesDown DEF Levels
<1>5. Divides(2, t) => Divides(1, t)
  BY DividesDown DEF Levels
<1>6. (l = 1 \/ l = 2 \/ l = 3 \/ l = 4 \/ l = 5 \/ l = 6) /\ (m = 1 \/ m = 2 \/ m = 3 \/ m = 4 \/ m = 5 \/ m = 6)
  OBVIOUS
<1>. QED
  BY <1>1, <1>2, <1>3, <1>4, <1>5, <1>6

\* The index of a level is 0 when the slot of the next one comes up, and only then.
LEMMA IndexZero ==
  ASSUME NEW l \in Levels, NEW t \in Nat, Divides(l, t)
  PROVE  SlotOf(l, t)[2] = 0 <=> Divides(l + 1, t)
<1>1. PICK q \in Nat : t = q * Unit(l)
  BY DEF Divides
<1>2. /\ Unit(l + 1) = Unit(l) * Size(l) /\ Unit(l) \in Nat \ {0} /\ Unit(l + 1) \in Nat \ {0}
      /\ Size(l) \in Nat \ {0} /\ l \in 1..6
  BY UnitNext DEF Levels
<1>3. t \div Unit(l) = q
  <2>1. 0 \in 0..Unit(l) - 1 /\ t = q * Unit(l) + 0
    BY <1>1, <1>2
  <2>. QED
    BY <1>2, <2>1, QuotientUnique
<1>4. SlotOf(l, t)[2] = q % Size(l)
  BY <1>3 DEF SlotOf
<1>5. ASSUME q % Size(l) = 0 PROVE Divides(l + 1, t)
  <2>0. /\ q \div Size(l) \in Nat /\ (q \div Size(l)) * Size(l) \in Nat
        /\ q = (q \div Size(l)) * Size(l) + (q % Size(l))
    BY <1>2, Quotient
  <2>1. q \div Size(l) \in Nat /\ q = (q \div Size(l)) * Size(l)
    BY <1>5, <2>0
  <2>2. t = (q \div Size(l)) * Unit(l + 1)
    <3>1. PICK d \in Nat : d = q \div Size(l)
      BY <2>1
    <3>2. t = (d * Size(l)) * Unit(l)
      BY <1>1, <2>1, <3>1
    <3>3. t = d * (Unit(l) * Size(l))
      BY <1>2, <3>2
    <3>. QED
      BY <1>2, <3>1, <3>3
  <2>. QED
    BY <2>1, <2>2 DEF Divides
<1>6. ASSUME Divides(l + 1, t) PROVE q % Size(l) = 0
  <2>1. PICK d \in Nat : t = d * Unit(l + 1)
    BY <1>6 DEF Divides
  <2>2. d * Size(l) \in Nat /\ t = (d * Size(l)) * Unit(l) + 0
    BY <1>2, <2>1
  <2>3. t \div Unit(l) = d * Size(l)
    <3>1. 0 \in 0..Unit(l) - 1
      BY <1>2
    <3>. QED
      BY <1>2, <2>2, <3>1, QuotientUnique
  <2>4. q = d * Size(l) + 0 /\ 0 \in 0..Size(l) - 1
    BY <1>2, <1>3, <2>2, <2>3
  <2>. QED
    BY <1>2, <2>4, QuotientUnique
<1>. QED
  BY <1>4, <1>5, <1>6

\* The cascade begins when the slots of the second level come up.
LEMMA NearZero ==
  ASSUME NEW t \in Nat
  PROVE  t % NearSize = 0 <=> Divides(2, t)
<1>1. Unit(1) = 1 /\ Size(1) = NearSize /\ 1 \in Levels /\ NearSize \in Nat \ {0}
  BY SizeAssumption DEF Unit, Size, Levels
<1>2. t = t * Unit(1)
  BY <1>1
<1>3. Divides(1, t)
  BY <1>2 DEF Divides
<1>4. t \div 1 = t
  BY SMT
<1>5. SlotOf(1, t)[2] = t % NearSize
  BY <1>1, <1>4 DEF SlotOf
<1>6. SlotOf(1, t)[2] = 0 <=> Divides(1 + 1, t)
  BY <1>1, <1>3, IndexZero
<1>. QED
  BY <1>5, <1>6

\* Of the ticks of one round only one has the slot that comes up now.
LEMMA OneTurn ==
  ASSUME NEW l \in Levels, NEW x \in Nat, NEW t \in Nat, Divides(l, t),
         t <= Turn(l, x), Turn(l, x) < t + Unit(l + 1)
  PROVE  SlotOf(l, x) = SlotOf(l, t) <=> Turn(l, x) = t
<1>1. /\ Unit(l + 1) = Unit(l) * Size(l) /\ Unit(l) \in Nat \ {0} /\ Size(l) \in Nat \ {0} /\ l \in 1..6
  BY UnitNext DEF Levels
<1>2. PICK u \in Nat \ {0}, m \in Nat \ {0} : u = Unit(l) /\ m = Size(l)
  BY <1>1
<1>3. PICK a \in Nat : t = a * u
  BY <1>2 DEF Divides
<1>4. PICK b \in Nat : b = x \div u
  BY <1>1, <1>2, TurnBounds
<1>5. Turn(l, x) = b * u
  BY <1>2, <1>4 DEF Turn
<1>6. t \div u = a
  <2>1. 0 \in 0..u - 1 /\ t = a * u + 0
    BY <1>3
  <2>. QED
    BY <2>1, QuotientUnique
<1>7. SlotOf(l, x) = <<l, b % m>> /\ SlotOf(l, t) = <<l, a % m>>
  BY <1>2, <1>4, <1>6 DEF SlotOf
<1>8. a <= b
  <2>1. b < a => b * u + u <= a * u
    BY Apart
  <2>2. b * u \in Nat /\ a * u \in Nat /\ a * u <= b * u
    BY <1>3, <1>5
  <2>. QED
    BY <2>1, <2>2
<1>9. b < a + m
  <2>1. a + m < b \/ a + m = b => (a + m) * u <= b * u
    <3>1. a + m < b => (a + m) * u + u <= b * u
      BY Apart
    <3>2. (a + m) * u \in Nat /\ b * u \in Nat
      OBVIOUS
    <3>. QED
      BY <3>1, <3>2
  <2>2. (a + m) * u = a * u + u * m
    OBVIOUS
  <2>3. b * u < a * u + u * m
    BY <1>1, <1>2, <1>3, <1>5
  <2>4. a * u + u * m \in Nat /\ b * u \in Nat
    OBVIOUS
  <2>. QED
    BY <2>1, <2>2, <2>3, <2>4
<1>10. a % m = b % m => a = b
  BY <1>8, <1>9, SameRemainder
<1>11. a * u = b * u => a = b
  <2>1. a < b => a * u + u <= b * u
    BY Apart
  <2>2. a * u \in Nat /\ b * u \in Nat
    OBVIOUS
  <2>. QED
    BY <1>8, <2>1, <2>2
<1>. QED
  BY <1>3, <1>5, <1>7, <1>10, <1>11

\* AddNode files a node that is not overdue in the slot of its expiry, at a level where
\* that slot comes up within a round; if it is not the near list, not in this tick.
LEMMA PlaceTurn ==
  ASSUME NEW x \in Nat, NEW t \in Nat, t <= x, x < t + Unit(6)
  PROVE  LET l == LevelOf(x - t)
         IN  /\ l \in Levels /\ Place(x, t) = SlotOf(l, x)
             /\ t <= Turn(l, x) /\ Turn(l, x) < t + Unit(l + 1)
             /\ l > 1 => t < Turn(l, x)
<1>1. PICK l : l = LevelOf(x - t)
  OBVIOUS
<1>2. /\ Unit(2) \in Nat /\ Unit(3) \in Nat /\ Unit(4) \in Nat /\ Unit(5) \in Nat /\ Unit(6) \in Nat
      /\ x - t \in Nat
  BY UnitPositive
<1>3. /\ l \in Levels /\ x - t < Unit(l + 1) /\ (l > 1 => Unit(l) <= x - t)
  BY <1>1, <1>2 DEF LevelOf, Levels
<1>4. PICK turn \in Nat, u \in Nat, v \in Nat :
        /\ turn = Turn(l, x) /\ u = Unit(l) /\ v = Unit(l + 1) /\ turn <= x /\ x < turn + u
  <2>1. l \in 1..6
    BY <1>3 DEF Levels
  <2>. QED
    BY <1>3, <2>1, TurnBounds, UnitNext
<1>5. l = 1 => Unit(l) = 1
  BY DEF Unit
<1>6. Place(x, t) = SlotOf(l, x)
  BY <1>1 DEF Place
<1>7. t <= turn /\ turn < t + v /\ (l > 1 => t < turn)
  BY <1>3, <1>4, <1>5 DEF Levels
<1>. QED
  BY <1>1, <1>3, <1>4, <1>6, <1>7

\* No slot spans more than the wheel.
LEMMA UnitLargest ==
  ASSUME NEW l \in 1..6
  PROVE  Unit(l) \in Nat \ {0} /\ Unit(6) \in Nat \ {0} /\ Unit(l) <= Unit(6)
<1>1. \A m \in Levels : Unit(m) <= Unit(m + 1) /\ Unit(m) \in Nat \ {0} /\ Unit(m + 1) \in Nat \ {0}
  <2> SUFFICES ASSUME NEW m \in Levels
               PROVE  Unit(m) <= Unit(m + 1) /\ Unit(m) \in Nat \ {0} /\ Unit(m + 1) \in Nat \ {0}
    OBVIOUS
  <2>1. PICK u \in Nat \ {0}, n \in Nat \ {0} : u = Unit(m) /\ n = Size(m) /\ Unit(m + 1) = u * n
    BY UnitNext
  <2>2. PICK d \in Nat : n = 1 + d
    <3>1. n - 1 \in Nat /\ n = 1 + (n - 1)
      OBVIOUS
    <3>. QED
      BY <3>1
  <2>3. u * n = u + u * d /\ u * d \in Nat
    BY <2>2
  <2>. QED
    BY <2>1, <2>3
<1>2. Unit(1) <= Unit(2) /\ Unit(2) <= Unit(3) /\ Unit(3) <= Unit(4) /\ Unit(4) <= Unit(5) /\ Unit(5) <= Unit(6)
  BY <1>1 DEF Levels
<1>3. /\ Unit(1) \in Nat /\ Unit(2) \in Nat /\ Unit(3) \in Nat
      /\ Unit(4) \in Nat /\ Unit(5) \in Nat /\ Unit(6) \in Nat
  BY UnitPositive
<1>4. l = 1 \/ l = 2 \/ l = 3 \/ l = 4 \/ l = 5 \/ l = 6
  OBVIOUS
<1>5. Unit(l) <= Unit(6)
  BY <1>2, <1>3, <1>4
<1>. QED
  BY <1>5, UnitPositive

\* A slot belongs to a level.
LEMMA SlotLevel ==
  ASSUME NEW s \in SlotIds
  PROVE  s[1] \in Levels
<1>1. PICK l \in Levels : s \in {l} \X (0..Size(l) - 1)
  BY DEF SlotIds
<1>2. s[1] = l
  BY <1>1
<1>. QED
  BY <1>1, <1>2

\* What stays in the wheel keeps its place while its expiry is not changed; the slots that the
\* cascade is through with hold no node whose turn it is.
LEMMA PlacedKept ==
  ASSUME TypeOK, Placed, UNCHANGED tickTime,
         \A s \in SlotIds : \A k \in DOMAIN slots'[s] :
           /\ k \in DOMAIN slots[s] /\ slots'[s][k] = slots[s][k]
           /\ node'[slots[s][k]].expire = node[slots[s][k]].expire
           /\ Emptied(s[1])' => \/ Emptied(s[1]) \/ ~Divides(s[1], tickTime)
                                \/ Turn(s[1], node[slots[s][k]].expire) # tickTime
  PROVE  Placed'
<1> SUFFICES ASSUME NEW s \in SlotIds, NEW k \in DOMAIN slots'[s]
             PROVE  Fits(s, node[slots[s][k]].expire)'
  BY DEF Placed
<1>1. slots[s][k] \in Events /\ node \in [Events -> TimerNodes] /\ tickTime \in Nat
  BY ElementOfSeq, LenProperties DEF TypeOK
<1>2. PICK y \in Nat : y = node[slots[s][k]].expire /\ y = node'[slots'[s][k]].expire
  BY <1>1 DEF TimerNodes
<1>3. Fits(s, y)
  BY <1>2 DEF Placed
<1>4. Emptied(s[1])' => Turn(s[1], y) # tickTime
  <2>1. s[1] \in 1..6
    BY SlotLevel DEF Levels
  <2>2. Turn(s[1], y) = tickTime => Divides(s[1], tickTime)
    BY <2>1, TurnBounds
  <2>. QED
    BY <1>2, <1>3, <2>2 DEF Fits, Stands
<1>5. Stands(s[1], y)'
  BY <1>3, <1>4 DEF Fits, Stands
<1>. QED
  BY <1>2, <1>3, <1>5 DEF Fits

\* AddNode finds the right slot.
LEMMA PlacedFiled ==
  ASSUME TypeOK, Placed, NEW e \in Events, NEW x \in Nat, tickTime <= x, x < tickTime + Unit(6),
         slots' = [slots EXCEPT ![Place(x, tickTime)] = Append(@, e)], node'[e].expire = x,
         UNCHANGED tickTime, \A l \in Levels : Emptied(l)' => Emptied(l),
         \A s \in SlotIds : \A k \in DOMAIN slots[s] :
           node'[slots[s][k]].expire = node[slots[s][k]].expire
  PROVE  Placed'
<1>1. tickTime \in Nat /\ slots \in [SlotIds -> Seq(Events)]
  BY DEF TypeOK
<1>2. PICK l \in Levels :
        /\ Place(x, tickTime) = SlotOf(l, x)
        /\ tickTime <= Turn(l, x) /\ Turn(l, x) < tickTime + Unit(l + 1)
        /\ l > 1 => tickTime < Turn(l, x)
  BY <1>1, PlaceTurn
<1>3. PICK p \in SlotIds : p = SlotOf(l, x)
  BY SlotOfType
<1>4. p[1] = l
  BY <1>3 DEF SlotOf
<1>5. /\ slots' = [slots EXCEPT ![p] = Append(slots[p], e)] /\ DOMAIN slots'[p] = 1..Len(slots[p]) + 1
      /\ DOMAIN slots[p] = 1..Len(slots[p]) /\ Len(slots[p]) \in Nat
      /\ \A k \in 1..Len(slots[p]) : slots'[p][k] = slots[p][k]
      /\ slots'[p][Len(slots[p]) + 1] = e
  BY <1>1, <1>2, <1>3, AppendElements
<1>6. Turn(l, x) \in Nat
  <2>1. l \in 1..6
    BY DEF Levels
  <2>. QED
    BY <2>1, TurnBounds
<1>7. Stands(l, x)'
  BY <1>1, <1>2, <1>6 DEF Stands, Emptied
<1>8. ASSUME NEW s \in SlotIds, NEW k \in DOMAIN slots'[s]
      PROVE  \E y : y = node'[slots'[s][k]].expire /\ s = SlotOf(s[1], y) /\ Stands(s[1], y)'
  <2>1. CASE s = p /\ k = Len(slots[p]) + 1
    BY <1>3, <1>4, <1>5, <1>7, <2>1
  <2>2. CASE ~(s = p /\ k = Len(slots[p]) + 1)
    <3>1. k \in DOMAIN slots[s] /\ slots'[s][k] = slots[s][k]
      BY <1>1, <1>5, <1>8, <2>2
    <3>2. PICK y : y = node[slots[s][k]].expire /\ y = node'[slots'[s][k]].expire
      BY <3>1
    <3>3. s = SlotOf(s[1], y) /\ Stands(s[1], y)
      BY <3>1, <3>2 DEF Placed, Fits
    <3>4. Stands(s[1], y)'
      BY <3>3, SlotLevel DEF Stands
    <3>. QED
      BY <3>2, <3>3, <3>4
  <2>. QED
    BY <2>1, <2>2
<1>. QED
  BY <1>8 DEF Placed, Fits

\* The slot that comes up holds the nodes whose turn it is, and no other does.
LEMMA SlotEmptied ==
  ASSUME TypeOK, Placed, NEW l \in Levels, Divides(l, tickTime),
         slots' = [slots EXCEPT ![SlotOf(l, tickTime)] = <<>>], spokes' = slots[SlotOf(l, tickTime)]
  PROVE  /\ \A s \in SlotIds : \A k \in DOMAIN slots'[s] :
              /\ k \in DOMAIN slots[s] /\ slots'[s][k] = slots[s][k]
              /\ s[1] = l => Turn(l, node[slots[s][k]].expire) # tickTime
         /\ \A k \in DOMAIN spokes' :
              tickTime <= node[spokes'[k]].expire /\ node[spokes'[k]].expire < tickTime + Unit(l)
<1>1. /\ tickTime \in Nat /\ slots \in [SlotIds -> Seq(Events)] /\ node \in [Events -> TimerNodes]
  BY DEF TypeOK
<1>2. \A s \in SlotIds : \A k \in DOMAIN slots[s] : node[slots[s][k]].expire \in Nat
  <2> SUFFICES ASSUME NEW s \in SlotIds, NEW k \in DOMAIN slots[s] PROVE node[slots[s][k]].expire \in Nat
    OBVIOUS
  <2>1. slots[s][k] \in Events
    BY <1>1, ElementOfSeq, LenProperties
  <2>. QED
    BY <1>1, <2>1 DEF TimerNodes
<1>3. PICK p \in SlotIds : p = SlotOf(l, tickTime)
  BY <1>1, SlotOfType
<1>4. p[1] = l
  BY <1>3 DEF SlotOf
<1>5. \A s \in SlotIds : \A k \in DOMAIN slots[s] :
        s[1] = l => (s = p <=> Turn(l, node[slots[s][k]].expire) = tickTime)
  BY <1>1, <1>2, <1>3, OneTurn DEF Placed, Fits, Stands
<1>6. \A s \in SlotIds : \A k \in DOMAIN slots'[s] : s # p /\ k \in DOMAIN slots[s] /\ slots'[s][k] = slots[s][k]
  BY <1>1, <1>3
<1>7. ASSUME NEW k \in DOMAIN spokes'
      PROVE  tickTime <= node[spokes'[k]].expire /\ node[spokes'[k]].expire < tickTime + Unit(l)
  <2>1. k \in DOMAIN slots[p] /\ spokes'[k] = slots[p][k]
    BY <1>3, <1>7
  <2>2. PICK x \in Nat : x = node[spokes'[k]].expire
    BY <1>2, <2>1
  <2>3. Turn(l, x) = tickTime
    BY <1>4, <1>5, <2>1, <2>2
  <2>4. l \in 1..6
    BY DEF Levels
  <2>5. Turn(l, x) <= x /\ x < Turn(l, x) + Unit(l) /\ Unit(l) \in Nat
    BY <2>4, TurnBounds
  <2>. QED
    BY <1>1, <2>2, <2>3, <2>5
<1>. QED
  BY <1>5, <1>6, <1>7

-----------------------------------------------------------------------------
\* The wheel is in order.

\* The first node of spokes is in no slot and in spokes only once.
LEMMA HeadApart ==
  ASSUME TypeOK, HeldOnce, spokes # <<>>
  PROVE  /\ Head(spokes) \in Events /\ Head(spokes) = spokes[1] /\ 1 \in DOMAIN spokes
         /\ \A s \in SlotIds : \A k \in DOMAIN slots[s] : slots[s][k] \in Events /\ slots[s][k] # Head(spokes)
         /\ \A k \in DOMAIN spokes : k \in Nat /\ spokes[k] \in Events /\ (k # 1 => k > 1 /\ spokes[k] # Head(spokes))
         /\ \A k \in DOMAIN Tail(spokes) : k + 1 \in DOMAIN spokes /\ k + 1 > 1 /\ Tail(spokes)[k] = spokes[k + 1]
<1>1. spokes \in Seq(Events) /\ slots \in [SlotIds -> Seq(Events)]
  BY DEF TypeOK
<1>2. /\ DOMAIN Tail(spokes) = 1..Len(spokes) - 1 /\ DOMAIN spokes = 1..Len(spokes) /\ Len(spokes) \in Nat \ {0}
      /\ \A k \in 1..Len(spokes) - 1 : Tail(spokes)[k] = spokes[k + 1]
      /\ Head(spokes) = spokes[1] /\ Head(spokes) \in Events
  BY <1>1, TailElements
<1>3. 1 \in DOMAIN spokes
  BY <1>2
<1>4. \A s \in SlotIds : \A k \in DOMAIN slots[s] : slots[s][k] \in Events
  BY <1>1, ElementOfSeq, LenProperties
<1>5. \A k \in DOMAIN spokes : spokes[k] \in Events
  BY <1>1, ElementOfSeq, LenProperties
<1>6. \A s \in SlotIds : \A k \in DOMAIN slots[s] : slots[s][k] # Head(spokes)
  BY <1>2, <1>3 DEF HeldOnce, InSpokes
<1>7. \A k \in DOMAIN spokes : k # 1 => spokes[k] # Head(spokes)
  BY <1>2, <1>3 DEF HeldOnce
<1>8. \A k \in DOMAIN spokes : k \in Nat /\ (k # 1 => k > 1)
  BY <1>2
<1>9. \A k \in DOMAIN Tail(spokes) : k + 1 \in DOMAIN spokes /\ k + 1 > 1 /\ Tail(spokes)[k] = spokes[k + 1]
  BY <1>2
<1>. QED
  BY <1>2, <1>3, <1>4, <1>5, <1>6, <1>7, <1>8, <1>9

\* At the start the wheel is empty.
LEMMA WheelInit == Init => WheelInv
<1> SUFFICES ASSUME Init PROVE WheelInv
  OBVIOUS
<1>1. /\ spokes = <<>> /\ pc = "run" /\ \A s \in SlotIds : slots[s] = <<>>
      /\ \A e \in Events : node[e] = NoNode
  BY Zenon DEF Init
<1>2. /\ DOMAIN spokes = {} /\ \A s \in SlotIds : DOMAIN slots[s] = {}
      /\ NoNode.interval = 0
  BY <1>1 DEF NoNode
<1>3. Unit(6) \in Nat \ {0}
  BY UnitPositive
<1>4. \A e \in Events : node[e].interval < Unit(6)
  <2>1. 0 < Unit(6)
    BY <1>3
  <2>. QED
    BY <1>1, <1>2, <2>1, Zenon
<1>5. Placed /\ InHand
  BY <1>2 DEF Placed, InHand
<1>. QED
  BY <1>1, <1>4, <1>5 DEF WheelInv

Firing == {"trigger", "stop", "requeue"}

\* Steps that move no node and change no expiry and no interval.
LEMMA WheelStays ==
  ASSUME TypeOK, WheelInv, UNCHANGED <<slots, spokes, tickTime, level>>,
         \/ pc' = pc \/ {pc, pc'} \subseteq Firing
         \/ pc' \notin {"cascade", "advance", "serve"} \union Firing,
         \A e \in Events : node'[e].expire = node[e].expire /\ node'[e].interval = node[e].interval
  PROVE  WheelInv'
<1>1. \A s \in SlotIds : \A k \in DOMAIN slots[s] : slots[s][k] \in Events
  BY ElementOfSeq, LenProperties DEF TypeOK
<1>2. \A k \in DOMAIN spokes : spokes[k] \in Events
  BY ElementOfSeq, LenProperties DEF TypeOK
<1>3. \A m : Emptied(m)' => Emptied(m)
  BY DEF Emptied, Firing
<1>4. Placed'
  BY <1>1, <1>3, PlacedKept DEF WheelInv
<1>5. InHand'
  BY <1>2 DEF WheelInv, InHand, Firing
<1>6. (\A e \in Events : node[e].interval < Unit(6))'
  BY DEF WheelInv
<1>7. (pc = "cascade" => level > 1 /\ tickTime = Turn(level, tickTime))'
  BY DEF WheelInv, Firing
<1>. QED
  BY <1>4, <1>5, <1>6, <1>7 DEF WheelInv

\* The driver takes the slots that come up out of the wheel.
LEMMA WheelCascades ==
  ASSUME TypeInv, HeldInv, WheelInv, BeginTick \/ CascadeNext
  PROVE  WheelInv'
<1>0. /\ TypeOK /\ Placed /\ tickTime \in Nat /\ level \in Levels /\ spokes = <<>> /\ DOMAIN spokes = {}
      /\ UNCHANGED <<node, tickTime>>
  BY DEF TypeInv, TypeOK, WheelInv, HeldInv, BeginTick, CascadeNext, maps
<1>1. ASSUME NEW l \in Levels, Divides(l, tickTime), l > 1, level' = l, pc' = "cascade",
             \A m \in Levels : m > 1 /\ m < l => Emptied(m),
             slots' = [slots EXCEPT ![SlotOf(l, tickTime)] = <<>>], spokes' = slots[SlotOf(l, tickTime)]
      PROVE  WheelInv'
  <2>1. /\ \A s \in SlotIds : \A k \in DOMAIN slots'[s] :
              /\ k \in DOMAIN slots[s] /\ slots'[s][k] = slots[s][k]
              /\ s[1] = l => Turn(l, node[slots[s][k]].expire) # tickTime
        /\ \A k \in DOMAIN spokes' :
              tickTime <= node[spokes'[k]].expire /\ node[spokes'[k]].expire < tickTime + Unit(l)
    BY <1>0, <1>1, SlotEmptied
  <2>2. ASSUME NEW s \in SlotIds, Emptied(s[1])', s[1] # l PROVE Emptied(s[1])
    <3>1. s[1] \in Levels
      BY SlotLevel
    <3>2. s[1] > 1 /\ s[1] < l
      BY <1>1, <2>2, <3>1 DEF Emptied, Levels
    <3>. QED
      BY <1>1, <3>1, <3>2
  <2>3. Placed'
    BY <1>0, <2>1, <2>2, PlacedKept
  <2>4. InHand'
    BY <1>0, <1>1, <2>1 DEF InHand
  <2>5. tickTime = Turn(l, tickTime)
    <3>1. l \in 1..6
      BY DEF Levels
    <3>. QED
      BY <1>0, <1>1, <3>1, TurnOfTurn
  <2>. QED
    BY <1>0, <1>1, <2>3, <2>4, <2>5 DEF WheelInv
<1>2. ASSUME pc' = "advance", UNCHANGED <<slots, spokes>>,
             \A m \in Levels : m > 1 => Emptied(m) \/ ~Divides(m, tickTime)
      PROVE  WheelInv'
  <2>1. \A s \in SlotIds : Emptied(s[1])' => Emptied(s[1]) \/ ~Divides(s[1], tickTime)
    BY <1>2, SlotLevel DEF Emptied
  <2>2. Placed'
    BY <1>0, <1>2, <2>1, PlacedKept
  <2>3. InHand'
    BY <1>0, <1>2 DEF InHand
  <2>. QED
    BY <1>0, <1>2, <2>2, <2>3 DEF WheelInv
<1>3. CASE BeginTick
  <2>1. CASE tickTime % NearSize = 0
    <3>1. Divides(2, tickTime)
      BY <1>0, <2>1, NearZero
    <3>2. /\ level' = 2 /\ pc' = "cascade" /\ slots' = [slots EXCEPT ![SlotOf(2, tickTime)] = <<>>]
          /\ spokes' = slots[SlotOf(2, tickTime)]
      BY <1>3, <2>1, Zenon DEF BeginTick
    <3>3. 2 \in Levels /\ 2 > 1 /\ \A m \in Levels : m > 1 /\ m < 2 => Emptied(m)
      BY DEF Levels
    <3>. QED
      BY <1>1, <3>1, <3>2, <3>3, Zenon
  <2>2. CASE tickTime % NearSize # 0
    <3>1. ~Divides(2, tickTime)
      BY <1>0, <2>2, NearZero
    <3>2. pc' = "advance" /\ UNCHANGED <<slots, spokes>>
      BY <1>3, <2>2 DEF BeginTick
    <3>3. ASSUME NEW m \in Levels, m > 1 PROVE ~Divides(m, tickTime)
      <4>1. 2 \in 1..6 /\ m \in 1..6 /\ 2 <= m
        BY <3>3 DEF Levels
      <4>. QED
        BY <1>0, <3>1, <4>1, DividesBelow
    <3>. QED
      BY <1>2, <3>2, <3>3
  <2>. QED
    BY <2>1, <2>2
<1>4. CASE CascadeNext
  <2>0. level > 1 /\ level \in 1..6 /\ pc = "cascade" /\ Divides(level, tickTime)
    <3>1. level > 1 /\ level \in 1..6 /\ pc = "cascade" /\ Turn(level, tickTime) = tickTime
      BY <1>0, <1>4 DEF CascadeNext, WheelInv, Levels
    <3>. QED
      BY <1>0, <3>1, TurnOfTurn
  <2>1. SlotOf(level, tickTime)[2] = 0 <=> Divides(level + 1, tickTime)
    BY <1>0, <2>0, IndexZero
  <2>2. CASE SlotOf(level, tickTime)[2] = 0 /\ level < 5
    <3>1. level + 1 \in Levels /\ level + 1 > 1
      BY <2>0, <2>2 DEF Levels
    <3>2. /\ level' = level + 1 /\ pc' = "cascade" /\ slots' = [slots EXCEPT ![SlotOf(level + 1, tickTime)] = <<>>]
          /\ spokes' = slots[SlotOf(level + 1, tickTime)]
      BY <1>4, <2>0, <2>2, Zenon DEF CascadeNext
    <3>3. \A m \in Levels : m > 1 /\ m < level + 1 => Emptied(m)
      BY <2>0 DEF Levels, Emptied
    <3>. QED
      BY <1>1, <2>1, <2>2, <3>1, <3>2, <3>3
  <2>3. CASE ~(SlotOf(level, tickTime)[2] = 0 /\ level < 5)
    <3>1. pc' = "advance" /\ UNCHANGED <<slots, spokes>>
      BY <1>4, <2>3 DEF CascadeNext
    <3>2. ASSUME NEW m \in Levels, m > 1, ~Emptied(m) PROVE ~Divides(m, tickTime)
      <4>1. level + 1 \in 1..6 /\ m \in 1..6 /\ level + 1 <= m /\ level < 5
        BY <2>0, <3>2 DEF Levels, Emptied
      <4>2. ~Divides(level + 1, tickTime)
        BY <2>1, <2>3, <4>1
      <4>. QED
        BY <1>0, <4>1, <4>2, DividesBelow
    <3>. QED
      BY <1>2, <3>1, <3>2
  <2>. QED
    BY <2>2, <2>3
<1>. QED
  BY <1>3, <1>4

\* Cascade files the first node of spokes in a nearer slot.
LEMMA WheelRefiles ==
  ASSUME TypeInv, HeldInv, WheelInv, CascadeNode
  PROVE  WheelInv'
<1>0. /\ TypeOK /\ Placed /\ HeldOnce /\ tickTime \in Nat /\ level \in Levels /\ level \in 1..6 /\ spokes # <<>>
      /\ node \in [Events -> TimerNodes] /\ pc = "cascade" /\ spokes' = Tail(spokes)
      /\ UNCHANGED <<node, tickTime, pc, level>>
  BY DEF TypeInv, TypeOK, WheelInv, HeldInv, TimersHeld, CascadeNode, driver, Levels
<1>1. PICK e \in Events : e = Head(spokes) /\ e = spokes[1] /\ 1 \in DOMAIN spokes
  BY <1>0, HeadApart
<1>2. PICK x \in Nat : x = node[e].expire
  BY <1>0 DEF TimerNodes
<1>3. tickTime <= x /\ x < tickTime + Unit(level)
  BY <1>0, <1>1, <1>2 DEF WheelInv, InHand
<1>4. x < tickTime + Unit(6)
  BY <1>0, <1>3, UnitLargest
<1>5. slots' = [slots EXCEPT ![Place(x, tickTime)] = Append(@, e)]
  BY <1>1, <1>2, Zenon DEF CascadeNode, AddNode
<1>6. Placed'
  BY <1>0, <1>2, <1>3, <1>4, <1>5, PlacedFiled DEF Emptied
<1>7. InHand'
  BY <1>0, HeadApart DEF WheelInv, InHand
<1>. QED
  BY <1>0, <1>6, <1>7 DEF WheelInv

\* The tick swaps the slot of the near list out: its nodes are due now.
LEMMA WheelAdvances ==
  ASSUME TypeInv, HeldInv, WheelInv, Advance
  PROVE  WheelInv'
<1>0. /\ TypeOK /\ Placed /\ tickTime \in Nat /\ 1 \in Levels /\ slots \in [SlotIds -> Seq(Events)]
      /\ node \in [Events -> TimerNodes] /\ pc = "advance" /\ pc' = "serve"
      /\ slots' = [slots EXCEPT ![SlotOf(1, tickTime)] = <<>>] /\ spokes' = slots[SlotOf(1, tickTime)]
      /\ tickTime' = tickTime + 1 /\ UNCHANGED node
  BY DEF TypeInv, TypeOK, WheelInv, Advance, maps, Levels
<1>1. Unit(1) = 1
  BY DEF Unit
<1>2. Divides(1, tickTime)
  <2>1. tickTime = tickTime * Unit(1)
    BY <1>0, <1>1
  <2>. QED
    BY <1>0, <2>1 DEF Divides
<1>3. /\ \A s \in SlotIds : \A k \in DOMAIN slots'[s] :
            /\ k \in DOMAIN slots[s] /\ slots'[s][k] = slots[s][k]
            /\ s[1] = 1 => Turn(1, node[slots[s][k]].expire) # tickTime
      /\ \A k \in DOMAIN spokes' :
            tickTime <= node[spokes'[k]].expire /\ node[spokes'[k]].expire < tickTime + Unit(1)
  BY <1>0, <1>2, SlotEmptied
<1>4. \A k \in DOMAIN spokes' : spokes'[k] \in Events
  <2>1. SlotOf(1, tickTime) \in SlotIds
    BY <1>0, SlotOfType
  <2>. QED
    BY <1>0, <2>1, ElementOfSeq, LenProperties
<1>5. \A k \in DOMAIN spokes' : node[spokes'[k]].expire = tickTime
  <2> SUFFICES ASSUME NEW k \in DOMAIN spokes' PROVE node[spokes'[k]].expire = tickTime
    OBVIOUS
  <2>1. PICK x \in Nat : x = node[spokes'[k]].expire
    BY <1>0, <1>4 DEF TimerNodes
  <2>2. tickTime <= x /\ x < tickTime + 1
    BY <1>1, <1>3, <2>1
  <2>. QED
    BY <1>0, <2>1, <2>2
<1>6. InHand'
  <2> SUFFICES ASSUME NEW k \in DOMAIN spokes' PROVE node'[spokes'[k]].expire = tickTime' - 1
    BY <1>0 DEF InHand
  <2>. QED
    BY <1>0, <1>5
<1>7. Placed'
  <2> SUFFICES ASSUME NEW s \in SlotIds, NEW k \in DOMAIN slots'[s]
               PROVE  Fits(s, node[slots[s][k]].expire)'
    BY DEF Placed
  <2>1. k \in DOMAIN slots[s] /\ slots'[s][k] = slots[s][k] /\ slots[s][k] \in Events
    BY <1>0, <1>3, ElementOfSeq, LenProperties
  <2>2. PICK y \in Nat : y = node[slots[s][k]].expire /\ y = node'[slots'[s][k]].expire
    BY <1>0, <2>1 DEF TimerNodes
  <2>3. Fits(s, y)
    BY <2>1, <2>2, <1>0 DEF Placed
  <2>4. s[1] \in Levels /\ s[1] \in 1..6 /\ s[1] + 1 \in 1..6
    BY SlotLevel DEF Levels
  <2>5. Turn(s[1], y) # tickTime
    <3>1. s[1] = 1 => Turn(s[1], y) # tickTime
      BY <1>3, <2>2
    <3>2. s[1] > 1 => Turn(s[1], y) # tickTime
      BY <1>0, <2>3 DEF Fits, Stands, Emptied
    <3>. QED
      BY <2>4, <3>1, <3>2 DEF Levels
  <2>6. PICK turn \in Nat, u \in Nat : turn = Turn(s[1], y) /\ u = Unit(s[1] + 1)
    BY <2>4, TurnBounds, UnitPositive
  <2>7. tickTime + 1 <= turn /\ turn < tickTime + 1 + u
    BY <1>0, <2>3, <2>5, <2>6 DEF Fits, Stands
  <2>8. Stands(s[1], y)'
    BY <1>0, <2>6, <2>7 DEF Stands, Emptied
  <2>. QED
    BY <2>2, <2>3, <2>8 DEF Fits
<1>8. (\A e \in Events : node[e].interval < Unit(6))'
  BY <1>0 DEF WheelInv
<1>. QED
  BY <1>0, <1>6, <1>7, <1>8 DEF WheelInv

\* The node that is served leaves the wheel.
LEMMA WheelDrops ==
  ASSUME TypeInv, HeldInv, WheelInv, DropInvalid \/ DropPaused
  PROVE  WheelInv'
<1>0. /\ TypeOK /\ Placed /\ HeldOnce /\ spokes # <<>> /\ node \in [Events -> TimerNodes]
      /\ pc = "serve" /\ pc' = "serve" /\ spokes' = Tail(spokes) /\ UNCHANGED <<slots, tickTime>>
  BY DEF TypeInv, TypeOK, WheelInv, HeldInv, TimersHeld, DropInvalid, DropPaused
<1>1. \A e \in Events : e # Head(spokes) => node'[e] = node[e]
  BY <1>0 DEF DropInvalid, DropPaused
<1>2. \A e \in Events : node'[e] = node[e] \/ node'[e] = NoNode
  BY <1>0, HeadApart DEF DropInvalid, DropPaused
<1>3. Placed'
  BY <1>0, <1>1, HeadApart, PlacedKept DEF Emptied
<1>4. InHand'
  <2> SUFFICES ASSUME NEW k \in DOMAIN spokes' PROVE node'[spokes'[k]].expire = tickTime - 1
    BY <1>0 DEF InHand
  <2>1. k + 1 \in DOMAIN spokes /\ spokes'[k] = spokes[k + 1] /\ spokes[k + 1] \in Events
        /\ spokes[k + 1] # Head(spokes)
    BY <1>0, HeadApart
  <2>2. node[spokes[k + 1]].expire = tickTime - 1
    BY <1>0, <2>1 DEF WheelInv, InHand
  <2>. QED
    BY <1>1, <2>1, <2>2
<1>5. (\A e \in Events : node[e].interval < Unit(6))'
  <2>1. NoNode.interval = 0 /\ Unit(6) \in Nat \ {0}
    BY UnitPositive DEF NoNode
  <2>2. NoNode.interval < Unit(6)
    BY <2>1
  <2>. QED
    BY <1>2, <2>2, Zenon DEF WheelInv
<1>. QED
  BY <1>0, <1>3, <1>4, <1>5 DEF WheelInv

\* A node that fires is due an interval later.
LEMMA WheelTriggers ==
  ASSUME TypeInv, HeldInv, WheelInv, Trigger
  PROVE  WheelInv'
<1>0. /\ TypeOK /\ Placed /\ HeldOnce /\ spokes # <<>> /\ node \in [Events -> TimerNodes] /\ tickTime \in Nat
      /\ pc = "serve" /\ pc' \in {"trigger", "stop"} /\ UNCHANGED <<slots, spokes, tickTime, level>>
  BY DEF TypeInv, TypeOK, WheelInv, HeldInv, TimersHeld, Trigger, driver
<1>1. PICK h \in Events : h = Head(spokes) /\ h = spokes[1] /\ 1 \in DOMAIN spokes
  BY <1>0, HeadApart
<1>2. PICK n \in TimerNodes : n = node[h]
  BY <1>0
<1>3. n.expire = tickTime - 1 /\ n.interval < Unit(6)
  BY <1>0, <1>1, <1>2 DEF WheelInv, InHand
<1>4. PICK m : node' = [node EXCEPT ![h] = m] /\ m.expire = n.expire + n.interval /\ m.interval = n.interval
  <2> DEFINE fired == [n EXCEPT !.expire = n.expire + n.interval]
             ended == [n EXCEPT !.expire = n.expire + n.interval, !.isValid = FALSE]
  <2>1. node' = [node EXCEPT ![h] = fired] \/ node' = [node EXCEPT ![h] = ended]
    BY <1>1, <1>2, Zenon DEF Trigger
  <2>2. fired.expire = n.expire + n.interval /\ fired.interval = n.interval
    BY <1>2 DEF TimerNodes
  <2>3. ended.expire = n.expire + n.interval /\ ended.interval = n.interval
    BY <1>2 DEF TimerNodes
  <2> HIDE DEF fired, ended
  <2>. QED
    BY <2>1, <2>2, <2>3
<1>5. \A e \in Events : e # h => node'[e] = node[e]
  BY <1>0, <1>4
<1>6. node'[h].expire = tickTime - 1 + n.interval /\ node'[h].interval = n.interval
  BY <1>0, <1>3, <1>4
<1>7. Placed'
  BY <1>0, <1>1, <1>5, HeadApart, PlacedKept DEF Emptied
<1>8. InHand'
  <2> SUFFICES ASSUME NEW k \in DOMAIN spokes
               PROVE  /\ k > 1 => node'[spokes[k]].expire = tickTime - 1
                      /\ k = 1 => node'[spokes[k]].expire = tickTime - 1 + node'[spokes[k]].interval
    BY <1>0 DEF InHand
  <2>1. k > 1 => node'[spokes[k]].expire = tickTime - 1
    <3>1. k # 1 => spokes[k] \in Events /\ spokes[k] # Head(spokes)
      BY <1>0, HeadApart
    <3>2. node[spokes[k]].expire = tickTime - 1
      BY <1>0 DEF WheelInv, InHand
    <3>3. k \in Nat
      BY <1>0, HeadApart
    <3>. QED
      BY <1>1, <1>5, <3>1, <3>2, <3>3
  <2>2. k = 1 => node'[spokes[k]].expire = tickTime - 1 + node'[spokes[k]].interval
    BY <1>1, <1>6
  <2>. QED
    BY <2>1, <2>2
<1>9. (\A e \in Events : node[e].interval < Unit(6))'
  BY <1>3, <1>5, <1>6 DEF WheelInv
<1>. QED
  BY <1>0, <1>7, <1>8, <1>9 DEF WheelInv

\* A node that has fired is not overdue when it is put back, unless the process ends there:
\* only an interval of 0 makes RevisedExpire see a late node.
LEMMA Revised ==
  ASSUME NEW n \in TimerNodes, tickTime \in Nat, n.expire = tickTime - 1 + n.interval
  PROVE  /\ (Late(n) > n.interval /\ n.interval = 0) <=> n.interval = 0
         /\ n.interval # 0 => RevisedExpire(n) = n.expire /\ tickTime <= n.expire
<1>1. PICK i \in Nat : i = n.interval
  BY DEF TimerNodes
<1>2. Late(n) = 1 - i
  BY <1>1 DEF Late
<1>. QED
  BY <1>1, <1>2 DEF RevisedExpire

\* Executes files the node that has fired.
LEMMA WheelRequeues ==
  ASSUME TypeInv, HeldInv, WheelInv, Requeue
  PROVE  WheelInv'
<1>0. /\ TypeOK /\ Placed /\ HeldOnce /\ spokes # <<>> /\ node \in [Events -> TimerNodes] /\ tickTime \in Nat
      /\ pc = "requeue" /\ UNCHANGED <<tickTime, level>>
  BY DEF TypeInv, TypeOK, WheelInv, HeldInv, TimersHeld, Requeue, driver
<1>1. PICK h \in Events : h = Head(spokes) /\ h = spokes[1] /\ 1 \in DOMAIN spokes
  BY <1>0, HeadApart
<1>2. PICK n \in TimerNodes : n = node[h]
  BY <1>0
<1>3. n.expire = tickTime - 1 + n.interval /\ n.interval < Unit(6)
  BY <1>0, <1>1, <1>2 DEF WheelInv, InHand
<1>4. CASE n.interval = 0
  <2>1. Late(n) > n.interval /\ n.interval = 0
    BY <1>0, <1>3, <1>4, Revised
  <2>2. pc' = "crashed" /\ UNCHANGED <<node, slots, spokes>>
    BY <1>1, <1>2, <2>1, Zenon DEF Requeue
  <2>. QED
    BY <1>0, <2>2, WheelStays DEF Firing
<1>5. CASE n.interval # 0
  <2>1. /\ ~(Late(n) > n.interval /\ n.interval = 0)
        /\ RevisedExpire(n) = n.expire /\ tickTime <= n.expire
    BY <1>0, <1>3, <1>5, Revised
  <2>2. /\ node' = [node EXCEPT ![h].expire = n.expire]
        /\ slots' = [slots EXCEPT ![Place(n.expire, tickTime)] = Append(@, h)]
        /\ spokes' = Tail(spokes) /\ pc' = "serve"
    BY <1>1, <1>2, <2>1, Zenon DEF Requeue, AddNode
  <2>3. \A e \in Events : node'[e] = node[e]
    <3>1. [node[h] EXCEPT !.expire = n.expire] = node[h]
      BY <1>2 DEF TimerNodes
    <3>. QED
      BY <1>0, <2>2, <3>1
  <2>4. PICK x \in Nat : x = n.expire
    BY DEF TimerNodes
  <2>5. n.interval \in Nat /\ Unit(6) \in Nat
    BY UnitPositive DEF TimerNodes
  <2>6. x < tickTime + Unit(6)
    BY <1>0, <1>3, <2>4, <2>5
  <2>7. node'[h].expire = x
    BY <1>2, <2>3, <2>4
  <2>8. Placed'
    <3>1. \A s \in SlotIds : \A k \in DOMAIN slots[s] : slots[s][k] \in Events
      BY <1>0, HeadApart
    <3>2. \A s \in SlotIds : \A k \in DOMAIN slots[s] : node'[slots[s][k]].expire = node[slots[s][k]].expire
      BY <2>3, <3>1
    <3>3. slots' = [slots EXCEPT ![Place(x, tickTime)] = Append(@, h)] /\ tickTime <= x
      BY <2>1, <2>2, <2>4
    <3>4. \A l \in Levels : Emptied(l)' => Emptied(l)
      BY <2>2 DEF Emptied
    <3>. QED
      BY <1>0, <2>6, <2>7, <3>2, <3>3, <3>4, PlacedFiled
  <2>9. InHand'
    <3> SUFFICES ASSUME NEW k \in DOMAIN spokes' PROVE node'[spokes'[k]].expire = tickTime - 1
      BY <1>0, <2>2 DEF InHand
    <3>1. k + 1 \in DOMAIN spokes /\ spokes'[k] = spokes[k + 1] /\ spokes[k + 1] \in Events /\ k + 1 > 1
      BY <1>0, <2>2, HeadApart
    <3>2. node[spokes[k + 1]].expire = tickTime - 1
      BY <1>0, <3>1 DEF WheelInv, InHand
    <3>. QED
      BY <2>3, <3>1, <3>2
  <2>10. (\A e \in Events : node[e].interval < Unit(6))'
    BY <2>3 DEF WheelInv
  <2>. QED
    BY <2>2, <2>8, <2>9, <2>10 DEF WheelInv
<1>. QED
  BY <1>4, <1>5

\* A timer that is started has an interval the wheel holds.
LEMMA WheelStarts ==
  ASSUME TypeInv, HeldInv, WheelInv, NEW e \in Events, NEW c \in Counts, NEW i \in Intervals, Start(e, c, i)
  PROVE  WheelInv'
<1>0. /\ TypeOK /\ Placed /\ node \in [Events -> TimerNodes] /\ tickTime \in Nat /\ i \in Nat
      /\ pc \in {"sleep", "trigger", "stop", "exited"} /\ UNCHANGED <<tickTime, level, pc, spokes>>
      /\ e \notin manager /\ i < Unit(6)
      /\ node' = [node EXCEPT ![e] = NewNode(c, i)]
      /\ slots' = [slots EXCEPT ![Place(tickTime + i, tickTime)] = Append(@, e)]
  BY InputAssumption DEF TypeInv, TypeOK, WheelInv, Start, Callable, driver, AddNode
<1>1. ~Held(e)
  BY <1>0 DEF HeldInv, TimersHeld
<1>2. NewNode(c, i).expire = tickTime + i /\ NewNode(c, i).interval = i
  BY DEF NewNode
<1>3. PICK x \in Nat : x = tickTime + i
  BY <1>0
<1>4. node'[e].expire = x /\ node'[e].interval = i
  BY <1>0, <1>2, <1>3
<1>5. \A f \in Events : f # e => node'[f] = node[f]
  BY <1>0
<1>6. Unit(6) \in Nat
  BY UnitPositive
<1>7. Placed'
  <2>1. \A s \in SlotIds : \A k \in DOMAIN slots[s] : slots[s][k] \in Events /\ slots[s][k] # e
    BY <1>1, ElementOfSeq, LenProperties DEF TypeInv, TypeOK, Held, InSlot
  <2>2. tickTime <= x /\ x < tickTime + Unit(6)
    BY <1>0, <1>3, <1>6
  <2>3. slots' = [slots EXCEPT ![Place(x, tickTime)] = Append(@, e)]
    BY <1>0, <1>3
  <2>. QED
    BY <1>0, <1>4, <1>5, <2>1, <2>2, <2>3, PlacedFiled DEF Emptied
<1>8. InHand'
  <2>1. \A k \in DOMAIN spokes : spokes[k] \in Events /\ spokes[k] # e
    BY <1>1, ElementOfSeq, LenProperties DEF TypeInv, TypeOK, Held, InSpokes
  <2>. QED
    BY <1>0, <1>5, <2>1 DEF WheelInv, InHand
<1>9. (\A f \in Events : node[f].interval < Unit(6))'
  BY <1>0, <1>4, <1>5 DEF WheelInv
<1>. QED
  BY <1>0, <1>7, <1>8, <1>9 DEF WheelInv

\* Every action keeps the wheel in order.
LEMMA WheelStep == TypeInv /\ HeldInv /\ WheelInv /\ [Next]_vars => WheelInv'
<1> SUFFICES ASSUME TypeInv, HeldInv, WheelInv, [Next]_vars PROVE WheelInv'
  OBVIOUS
<1>0. TypeOK /\ node \in [Events -> TimerNodes]
  BY DEF TypeInv, TypeOK
<1>1. ASSUME UNCHANGED <<slots, spokes, tickTime, level, node>>,
             \/ pc' = pc \/ {pc, pc'} \subseteq Firing
             \/ pc' \notin {"cascade", "advance", "serve"} \union Firing
      PROVE  WheelInv'
  BY <1>0, <1>1, WheelStays
<1>2. CASE Update \/ UpdateDone \/ TickDone \/ AfterStop \/ Stop \/ UNCHANGED vars
  BY <1>1, <1>2 DEF Update, UpdateDone, TickDone, AfterStop, Stop, vars, driver, Firing
<1>3. CASE AfterTrigger
  <2>1. Head(spokes) \in Events
    BY <1>3, HeadTailProperties DEF AfterTrigger, TypeInv, TypeOK
  <2>2. PICK h \in Events, n \in TimerNodes : h = Head(spokes) /\ n = node[h]
    BY <1>0, <2>1
  <2> DEFINE counted == [n EXCEPT !.count = n.count - 1]
             spent == [n EXCEPT !.count = 0, !.isValid = FALSE]
  <2>3. /\ node' = [node EXCEPT ![h] = counted] \/ node' = [node EXCEPT ![h] = spent]
        /\ pc = "trigger" /\ pc' \in {"stop", "requeue"} /\ UNCHANGED <<slots, spokes, tickTime, level>>
    BY <1>3, <2>2, Zenon DEF AfterTrigger, driver
  <2>4. /\ counted.expire = n.expire /\ counted.interval = n.interval
        /\ spent.expire = n.expire /\ spent.interval = n.interval
    BY <2>2 DEF TimerNodes
  <2> HIDE DEF counted, spent
  <2>5. \A e \in Events : node'[e].expire = node[e].expire /\ node'[e].interval = node[e].interval
    BY <1>0, <2>2, <2>3, <2>4
  <2>. QED
    BY <1>0, <2>3, <2>5, WheelStays DEF Firing
<1>4. ASSUME NEW e \in Events, NEW i \in Intervals, StartTooLong(e, i)
      PROVE  WheelInv'
  BY <1>1, <1>4 DEF StartTooLong, driver
<1>5. ASSUME NEW e \in Events, Pause(e)
      PROVE  WheelInv'
  <2>1. \A x \in Events : node'[x].expire = node[x].expire /\ node'[x].interval = node[x].interval
    BY <1>0, <1>5 DEF Pause, TimerNodes
  <2>2. UNCHANGED <<slots, spokes, tickTime, level, pc>>
    BY <1>5 DEF Pause, driver
  <2>. QED
    BY <1>0, <2>1, <2>2, WheelStays
<1>6. ASSUME NEW e \in Events, Resume(e)
      PROVE  WheelInv'
  BY <1>1, <1>6 DEF Resume, driver, TypeInv, TypeOK
<1>7. ASSUME NEW e \in Events, Destroy(e)
      PROVE  WheelInv'
  <2>1. \A x \in Events : node'[x].expire = node[x].expire /\ node'[x].interval = node[x].interval
    BY <1>0, <1>7 DEF Destroy, TimerNodes
  <2>2. UNCHANGED <<slots, spokes, tickTime, level, pc>>
    BY <1>7 DEF Destroy, driver
  <2>. QED
    BY <1>0, <2>1, <2>2, WheelStays
<1>8. CASE Destruct
  <2>1. /\ pc' = "gone" /\ spokes' = <<>> /\ \A s \in SlotIds : slots'[s] = <<>>
        /\ \A e \in Events : node'[e] = NoNode
    BY <1>8 DEF Destruct, HeldInv
  <2>2. /\ DOMAIN spokes' = {} /\ \A s \in SlotIds : DOMAIN slots'[s] = {}
        /\ NoNode.interval = 0 /\ Unit(6) \in Nat \ {0}
    BY <2>1, UnitPositive DEF NoNode
  <2>3. NoNode.interval < Unit(6)
    BY <2>2
  <2>4. (\A e \in Events : node[e].interval < Unit(6))'
    BY <2>1, <2>3, Zenon
  <2>. QED
    BY <2>1, <2>2, <2>4, Zenon DEF WheelInv, Placed, InHand
<1>. QED
  BY <1>2, <1>3, <1>4, <1>5, <1>6, <1>7, <1>8, WheelCascades, WheelRefiles, WheelAdvances, WheelDrops,
     WheelTriggers, WheelRequeues, WheelStarts
  DEF Next, Driver, Client

\* In every reachable state every node in the wheel stands where its expiry will be served.
LEMMA WheelInvariant == Spec => [](TypeInv /\ HeldInv /\ WheelInv)
<1>1. Init => TypeInv /\ HeldInv /\ WheelInv
  BY TypeInit, HeldInit, WheelInit
<1>2. TypeInv /\ HeldInv /\ WheelInv /\ [Next]_vars => (TypeInv /\ HeldInv /\ WheelInv)'
  BY TypeStep, HeldStep, WheelStep
<1>. QED
  BY <1>1, <1>2, PTL DEF Spec

-----------------------------------------------------------------------------
\* OnTrigger of e is running.
Fires(e) == pc = "trigger" /\ Head(spokes) = e

\* What the client sees of a timer, case by case.
TimerShown(e) ==
  /\ e \notin manager => TimerOf(e) = Abstract!Quiet("idle")
  /\ e \in manager /\ (~node[e].isValid \/ (Fires(e) /\ node[e].count = 1)) => TimerOf(e) = Abstract!Quiet("stopped")
  /\ e \in manager /\ node[e].isValid /\ ~(Fires(e) /\ node[e].count = 1) /\ node[e].isPause =>
       TimerOf(e) = Abstract!Quiet("paused")
  /\ e \in manager /\ node[e].isValid /\ ~(Fires(e) /\ node[e].count = 1) /\ ~node[e].isPause =>
       TimerOf(e) = Abstract!Armed(node[e].expire, node[e].count - IF Fires(e) THEN 1 ELSE 0, node[e].interval)

\* What the client sees is that, in every state and in the next.
LEMMA TimerIs ==
  ASSUME NEW e \in Events
  PROVE  TimerShown(e) /\ TimerShown(e)'
BY Zenon DEF TimerShown, TimerOf, Fires, Abstract!Quiet, Abstract!Armed

\* The fields of a timer that is quiet and of one that is armed.
LEMMA Views ==
  ASSUME NEW s, NEW d, NEW n, NEW i
  PROVE  /\ Abstract!Quiet(s).state = s
         /\ Abstract!Armed(d, n, i).state = "armed" /\ Abstract!Armed(d, n, i).due = d
         /\ Abstract!Armed(d, n, i).left = n /\ Abstract!Armed(d, n, i).every = i
BY DEF Abstract!Quiet, Abstract!Armed

\* The client sees no change in a timer whose node is not touched.
LEMMA TimerSame ==
  ASSUME NEW e \in Events, node'[e] = node[e], e \in manager' <=> e \in manager, Fires(e)' <=> Fires(e)
  PROVE  TimerOf(e)' = TimerOf(e)
BY Zenon DEF TimerOf, Fires

\* One timer of the map changes.
LEMMA OneTimer ==
  ASSUME NEW e \in Events, \A f \in Events : f # e => TimerOf(f)' = TimerOf(f)
  PROVE  [f \in Events |-> TimerOf(f)]' = [[f \in Events |-> TimerOf(f)] EXCEPT ![e] = TimerOf(e)']
OBVIOUS

\* At the start nothing is armed.
LEMMA RefinesInit == Init => Abstract!Init
<1> SUFFICES ASSUME Init PROVE Abstract!Init
  OBVIOUS
<1>1. tickTime = 0 /\ manager = {}
  BY DEF Init
<1>2. \A e \in Events : TimerOf(e) = Abstract!Quiet("idle")
  BY <1>1, TimerIs DEF TimerShown
<1>. QED
  BY <1>1, <1>2 DEF Abstract!Init

\* A tick passes only when every armed timer has its due tick ahead.
LEMMA RefinesTick ==
  ASSUME TypeInv, HeldInv, WheelInv, Advance
  PROVE  Abstract!Tick
<1>0. /\ node \in [Events -> TimerNodes] /\ tickTime \in Nat /\ pc = "advance" /\ pc' = "serve"
      /\ tickTime' = tickTime + 1 /\ UNCHANGED <<node, manager>> /\ spokes = <<>> /\ DOMAIN spokes = {}
  BY DEF TypeInv, TypeOK, HeldInv, Advance, maps
<1>1. ASSUME NEW e \in Events, TimerOf(e).state = "armed"
      PROVE  TimerOf(e).due >= tickTime
  <2>1. e \in manager /\ ~node[e].isPause /\ node[e].isValid /\ ~Fires(e)
    BY <1>0, <1>1, TimerIs, Views DEF Fires, TimerShown
  <2>2. TimerOf(e).due = node[e].expire
    BY <2>1, TimerIs, Views DEF TimerShown
  <2>3. Held(e) /\ ~InSpokes(e)
    BY <1>0, <2>1 DEF HeldInv, TimersHeld, InSpokes
  <2>4. PICK s \in SlotIds : \E k \in DOMAIN slots[s] : slots[s][k] = e
    BY <2>3 DEF Held, InSlot
  <2>5. PICK x \in Nat : x = node[e].expire
    BY <1>0 DEF TimerNodes
  <2>6. Fits(s, x)
    BY <2>4, <2>5 DEF WheelInv, Placed
  <2>7. s[1] \in 1..6
    BY SlotLevel DEF Levels
  <2>8. tickTime <= Turn(s[1], x) /\ Turn(s[1], x) <= x /\ Turn(s[1], x) \in Nat
    BY <2>6, <2>7, TurnBounds DEF Fits, Stands
  <2>. QED
    BY <1>0, <2>2, <2>5, <2>8
<1>2. \A e \in Events : TimerOf(e)' = TimerOf(e)
  BY <1>0, TimerSame DEF Fires
<1>. QED
  BY <1>0, <1>1, <1>2 DEF Abstract!Tick

\* A node fires as the timer does: in the tick after it is due, one repetition less.
LEMMA RefinesFire ==
  ASSUME TypeInv, HeldInv, WheelInv, Trigger
  PROVE  \E e \in Events : Abstract!Fire(e)
<1>0. /\ TypeOK /\ HeldOnce /\ spokes # <<>> /\ node \in [Events -> TimerNodes] /\ tickTime \in Nat
      /\ pc = "serve" /\ UNCHANGED <<tickTime, manager, spokes>>
  BY DEF TypeInv, TypeOK, WheelInv, HeldInv, TimersHeld, Trigger, maps
<1>1. PICK h \in Events : h = Head(spokes) /\ h = spokes[1] /\ 1 \in DOMAIN spokes
  BY <1>0, HeadApart
<1>2. PICK n \in TimerNodes : n = node[h]
  BY <1>0
<1>3. h \in manager /\ n.isValid /\ ~n.isPause /\ n.expire = tickTime - 1 /\ n.count \in Nat
  <2>1. Held(h)
    BY <1>1 DEF Held, InSpokes
  <2>2. n.isValid /\ ~n.isPause
    BY <1>1, <1>2, Zenon DEF Trigger
  <2>. QED
    BY <1>0, <1>1, <1>2, <2>1, <2>2 DEF HeldInv, TimersHeld, WheelInv, InHand, TimerNodes
<1>4. TimerOf(h) = Abstract!Armed(n.expire, n.count, n.interval)
  <2>1. ~Fires(h)
    BY <1>0 DEF Fires
  <2>2. TimerOf(h) = Abstract!Armed(n.expire, n.count - 0, n.interval)
    BY <1>2, <1>3, <2>1, TimerIs DEF TimerShown
  <2>3. n.count - 0 = n.count
    BY <1>3
  <2>. QED
    BY <2>2, <2>3, Zenon
<1>5. \A f \in Events : f # h => TimerOf(f)' = TimerOf(f)
  <2>1. \A f \in Events : f # h => node'[f] = node[f]
    BY <1>0, <1>1 DEF Trigger
  <2>. QED
    BY <1>0, <1>1, <2>1, TimerSame DEF Fires
<1>6. CASE n.count = 0
  <2> DEFINE ended == [n EXCEPT !.expire = n.expire + n.interval, !.isValid = FALSE]
  <2>1. node' = [node EXCEPT ![h] = ended]
    BY <1>1, <1>2, <1>6, Zenon DEF Trigger
  <2>2. ended.isValid = FALSE
    BY <1>2 DEF TimerNodes
  <2> HIDE DEF ended
  <2>3. node'[h].isValid = FALSE
    BY <1>0, <2>1, <2>2
  <2>4. TimerOf(h)' = Abstract!Quiet("stopped")
    BY <1>0, <1>3, <2>3, TimerIs DEF TimerShown
  <2>. QED
    BY <1>0, <1>3, <1>4, <1>5, <1>6, <2>4, OneTimer, Views DEF Abstract!Fire
<1>7. CASE n.count # 0
  <2> DEFINE fired == [n EXCEPT !.expire = n.expire + n.interval]
  <2>1. node' = [node EXCEPT ![h] = fired] /\ pc' = "trigger"
    BY <1>1, <1>2, <1>7, Zenon DEF Trigger
  <2>2. /\ fired.isValid = n.isValid /\ fired.isPause = n.isPause /\ fired.count = n.count
        /\ fired.expire = n.expire + n.interval /\ fired.interval = n.interval
    BY <1>2 DEF TimerNodes
  <2> HIDE DEF fired
  <2>3. node'[h] = fired /\ Fires(h)' /\ h \in manager'
    BY <1>0, <1>1, <1>3, <2>1 DEF Fires
  <2>4. CASE n.count = 1
    <3>1. TimerOf(h)' = Abstract!Quiet("stopped")
      BY <1>3, <2>2, <2>3, <2>4, TimerIs DEF TimerShown
    <3>. QED
      BY <1>0, <1>3, <1>4, <1>5, <2>4, <3>1, OneTimer, Views DEF Abstract!Fire
  <2>5. CASE n.count # 1
    <3>1. TimerOf(h)' = Abstract!Armed(n.expire + n.interval, n.count - 1, n.interval)
      BY <1>3, <2>2, <2>3, <2>5, TimerIs DEF TimerShown
    <3>2. ~(n.count <= 1)
      BY <1>3, <1>7, <2>5
    <3>3. PICK m : m = TimerOf(h)
      OBVIOUS
    <3>4. /\ m.state = "armed" /\ m.due = n.expire /\ m.left = n.count /\ m.every = n.interval
      BY <1>4, <3>3, Views
    <3>5. /\ m.state = "armed" /\ m.due < tickTime /\ ~(m.left <= 1)
          /\ TimerOf(h)' = Abstract!Armed(m.due + m.every, m.left - 1, m.every)
      BY <1>0, <1>3, <3>1, <3>2, <3>4
    <3>. QED
      BY <1>0, <1>5, <3>3, <3>5, OneTimer DEF Abstract!Fire
  <2>. QED
    BY <2>4, <2>5
<1>. QED
  BY <1>6, <1>7

\* A timer that has used its last repetition is already stopped for the client.
LEMMA RefinesCounted ==
  ASSUME TypeInv, AfterTrigger
  PROVE  \A e \in Events : TimerOf(e)' = TimerOf(e)
<1>0. /\ node \in [Events -> TimerNodes] /\ pc = "trigger" /\ pc' \in {"stop", "requeue"}
      /\ spokes # <<>> /\ spokes \in Seq(Events) /\ UNCHANGED <<spokes, manager>>
  BY DEF TypeInv, TypeOK, AfterTrigger, maps
<1>1. PICK h \in Events : h = Head(spokes)
  BY <1>0, HeadTailProperties
<1>2. PICK n \in TimerNodes : n = node[h]
  BY <1>0
<1>3. h \in manager /\ n.count \in Nat /\ n.count # 0 /\ Fires(h) /\ ~Fires(h)' /\ h \in manager'
  BY <1>0, <1>1, <1>2 DEF TypeInv, DriverBusy, Fires, TimerNodes
<1>4. \A f \in Events : f # h => TimerOf(f)' = TimerOf(f)
  <2>1. \A f \in Events : f # h => node'[f] = node[f]
    BY <1>0, <1>1 DEF AfterTrigger
  <2>. QED
    BY <1>0, <1>1, <2>1, TimerSame DEF Fires
<1>5. CASE n.count = 1
  <2> DEFINE spent == [n EXCEPT !.count = 0, !.isValid = FALSE]
  <2>1. node' = [node EXCEPT ![h] = spent]
    BY <1>1, <1>2, <1>5, Zenon DEF AfterTrigger
  <2>2. spent.isValid = FALSE
    BY <1>2 DEF TimerNodes
  <2> HIDE DEF spent
  <2>3. node'[h].isValid = FALSE
    BY <1>0, <2>1, <2>2
  <2>4. TimerOf(h)' = Abstract!Quiet("stopped")
    BY <1>3, <2>3, TimerIs DEF TimerShown
  <2>5. TimerOf(h) = Abstract!Quiet("stopped")
    BY <1>2, <1>3, <1>5, TimerIs DEF TimerShown
  <2>. QED
    BY <1>4, <2>4, <2>5
<1>6. CASE n.count # 1
  <2> DEFINE counted == [n EXCEPT !.count = n.count - 1]
  <2>1. node' = [node EXCEPT ![h] = counted]
    BY <1>1, <1>2, <1>6, Zenon DEF AfterTrigger
  <2>2. /\ counted.isValid = n.isValid /\ counted.isPause = n.isPause /\ counted.count = n.count - 1
        /\ counted.expire = n.expire /\ counted.interval = n.interval
    BY <1>2 DEF TimerNodes
  <2> HIDE DEF counted
  <2>3. node'[h] = counted
    BY <1>0, <2>1
  <2>4. CASE ~n.isValid
    BY <1>2, <1>3, <1>4, <2>2, <2>3, <2>4, TimerIs DEF TimerShown
  <2>5. CASE n.isValid /\ n.isPause
    BY <1>2, <1>3, <1>4, <1>6, <2>2, <2>3, <2>5, TimerIs DEF TimerShown
  <2>6. CASE n.isValid /\ ~n.isPause
    <3>1. TimerOf(h) = Abstract!Armed(n.expire, n.count - 1, n.interval)
      BY <1>2, <1>3, <1>6, <2>6, TimerIs DEF TimerShown
    <3>2. TimerOf(h)' = Abstract!Armed(n.expire, n.count - 1 - 0, n.interval)
      BY <1>3, <2>2, <2>3, <2>6, TimerIs DEF TimerShown
    <3>3. n.count - 1 - 0 = n.count - 1
      BY <1>3
    <3>. QED
      BY <1>4, <3>1, <3>2, <3>3
  <2>. QED
    BY <2>4, <2>5, <2>6
<1>. QED
  BY <1>5, <1>6

\* RevisedExpire changes no expiry, so that putting a node back changes no timer.
LEMMA RefinesRequeue ==
  ASSUME TypeInv, HeldInv, WheelInv, Requeue
  PROVE  \A e \in Events : TimerOf(e)' = TimerOf(e)
<1>0. /\ TypeOK /\ HeldOnce /\ spokes # <<>> /\ node \in [Events -> TimerNodes] /\ tickTime \in Nat
      /\ pc = "requeue" /\ pc' \in {"crashed", "serve"} /\ UNCHANGED manager
  BY DEF TypeInv, TypeOK, WheelInv, HeldInv, TimersHeld, Requeue, maps
<1>1. PICK h \in Events : h = Head(spokes) /\ h = spokes[1] /\ 1 \in DOMAIN spokes
  BY <1>0, HeadApart
<1>2. PICK n \in TimerNodes : n = node[h]
  BY <1>0
<1>3. n.expire = tickTime - 1 + n.interval
  BY <1>0, <1>1, <1>2 DEF WheelInv, InHand
<1>4. \A e \in Events : node'[e] = node[e]
  <2>1. n.interval # 0 => RevisedExpire(n) = n.expire
    BY <1>0, <1>3, Revised
  <2>2. UNCHANGED node \/ (n.interval # 0 /\ node' = [node EXCEPT ![h].expire = RevisedExpire(n)])
    <3>1. n.interval = 0 => Late(n) > n.interval
      BY <1>0, <1>3, Revised
    <3>2. IF Late(n) > n.interval /\ n.interval = 0 THEN UNCHANGED node
          ELSE node' = [node EXCEPT ![h].expire = RevisedExpire(n)]
      BY <1>1, <1>2, Zenon DEF Requeue
    <3>. QED
      BY <3>1, <3>2, Zenon
  <2>3. [node[h] EXCEPT !.expire = n.expire] = node[h]
    BY <1>2 DEF TimerNodes
  <2>. QED
    BY <1>0, <2>1, <2>2, <2>3
<1>. QED
  BY <1>0, <1>4, TimerSame DEF Fires

\* A node whose callback is not running is armed by Start and gives its event back when it
\* leaves the maps; both are steps of the timer.
LEMMA RefinesArm ==
  ASSUME TypeInv, NEW e \in Events, NEW c \in Counts, NEW i \in Intervals, Start(e, c, i)
  PROVE  Abstract!Arm(e)
<1>0. /\ node \in [Events -> TimerNodes] /\ tickTime \in Nat /\ UNCHANGED <<tickTime, pc, spokes>>
      /\ e \notin manager /\ manager' = manager \union {e} /\ node' = [node EXCEPT ![e] = NewNode(c, i)]
  BY DEF TypeInv, TypeOK, Start
<1>1. TimerOf(e) = Abstract!Quiet("idle")
  BY <1>0, TimerIs DEF TimerShown
<1>2. ~Fires(e)'
  BY <1>0 DEF TypeInv, DriverBusy, Fires
<1>3. /\ NewNode(c, i).isValid = TRUE /\ NewNode(c, i).isPause = FALSE /\ NewNode(c, i).count = c % CountRange
      /\ NewNode(c, i).expire = tickTime + i /\ NewNode(c, i).interval = i
  BY DEF NewNode
<1>4. node'[e] = NewNode(c, i) /\ e \in manager'
  BY <1>0
<1>5. TimerOf(e)' = Abstract!Armed(tickTime + i, (c % CountRange) - 0, i)
  BY <1>2, <1>3, <1>4, TimerIs DEF TimerShown
<1>6. (c % CountRange) - 0 = c % CountRange
  BY InputAssumption
<1>7. \A f \in Events : f # e => TimerOf(f)' = TimerOf(f)
  <2>1. \A f \in Events : f # e => node'[f] = node[f] /\ (f \in manager' <=> f \in manager)
    BY <1>0
  <2>. QED
    BY <1>0, <2>1, TimerSame DEF Fires
<1>. QED
  BY <1>0, <1>1, <1>5, <1>6, <1>7, OneTimer, Views DEF Abstract!Arm

\* A node that leaves the maps gives its event back.
LEMMA RefinesForget ==
  ASSUME TypeInv, HeldInv, DropInvalid
  PROVE  \E e \in Events : Abstract!Forget(e)
<1>0. /\ TypeOK /\ HeldOnce /\ spokes # <<>> /\ node \in [Events -> TimerNodes] /\ tickTime \in Nat
      /\ pc = "serve" /\ pc' = "serve" /\ UNCHANGED tickTime
  BY DEF TypeInv, TypeOK, HeldInv, TimersHeld, DropInvalid
<1>1. PICK h \in Events : h = Head(spokes) /\ h = spokes[1] /\ 1 \in DOMAIN spokes
  BY <1>0, HeadApart
<1>2. /\ ~node[h].isValid /\ manager' = manager \ {h} /\ node' = [node EXCEPT ![h] = NoNode]
  BY <1>1 DEF DropInvalid
<1>3. h \in manager
  BY <1>0, <1>1 DEF HeldInv, TimersHeld, Held, InSpokes
<1>4. TimerOf(h) = Abstract!Quiet("stopped") /\ TimerOf(h)' = Abstract!Quiet("idle")
  BY <1>2, <1>3, TimerIs DEF TimerShown
<1>5. \A f \in Events : f # h => TimerOf(f)' = TimerOf(f)
  <2>1. \A f \in Events : f # h => node'[f] = node[f] /\ (f \in manager' <=> f \in manager)
    BY <1>0, <1>2
  <2>. QED
    BY <1>0, <2>1, TimerSame DEF Fires
<1>6. TimerOf(h).state = "stopped"
  BY <1>4, Views
<1>. QED
  BY <1>0, <1>4, <1>5, <1>6, OneTimer DEF Abstract!Forget

\* Pause and Destroy act on the timer, unless its last callback is running: then it is stopped.
LEMMA RefinesControl ==
  ASSUME TypeInv, NEW e \in Events, Pause(e) \/ Destroy(e)
  PROVE  \/ Abstract!Pause(e) \/ Abstract!Cancel(e)
         \/ \A f \in Events : TimerOf(f)' = TimerOf(f)
<1>0. /\ node \in [Events -> TimerNodes] /\ UNCHANGED <<tickTime, pc, spokes, manager>> /\ e \in manager
  BY DEF TypeInv, TypeOK, Pause, Destroy, maps
<1>1. PICK n \in TimerNodes : n = node[e]
  BY <1>0
<1>2. \A f \in Events : f # e => TimerOf(f)' = TimerOf(f)
  <2>1. \A f \in Events : f # e => node'[f] = node[f]
    BY <1>0 DEF Pause, Destroy
  <2>. QED
    BY <1>0, <2>1, TimerSame DEF Fires
<1>3. (Fires(e)' <=> Fires(e)) /\ e \in manager'
  BY <1>0 DEF Fires
<1>4. CASE Pause(e)
  <2>1. CASE n.isValid /\ ~n.isPause
    <3> DEFINE m == [n EXCEPT !.isPause = TRUE, !.pauseTick = tickTime]
    <3>1. node' = [node EXCEPT ![e] = m]
      BY <1>1, <1>4, <2>1, Zenon DEF Pause
    <3>2. m.isPause = TRUE /\ m.isValid = n.isValid /\ m.count = n.count
      BY <1>1 DEF TimerNodes
    <3> HIDE DEF m
    <3>3. node'[e] = m
      BY <1>0, <3>1
    <3>4. CASE Fires(e) /\ n.count = 1
      BY <1>0, <1>1, <1>2, <1>3, <3>2, <3>3, <3>4, TimerIs DEF TimerShown
    <3>5. CASE ~(Fires(e) /\ n.count = 1)
      <4>1. TimerOf(e)' = Abstract!Quiet("paused")
        BY <1>1, <1>3, <2>1, <3>2, <3>3, <3>5, TimerIs DEF TimerShown
      <4>2. PICK left : TimerOf(e) = Abstract!Armed(n.expire, left, n.interval)
        BY <1>0, <1>1, <2>1, <3>5, TimerIs DEF TimerShown
      <4>3. TimerOf(e).state = "armed"
        BY <4>2, Views
      <4>. QED
        BY <1>0, <1>2, <4>1, <4>3, OneTimer DEF Abstract!Pause
    <3>. QED
      BY <3>4, <3>5
  <2>2. CASE ~(n.isValid /\ ~n.isPause)
    <3>1. \A f \in Events : node'[f] = node[f]
      BY <1>1, <1>4, <2>2 DEF Pause
    <3>. QED
      BY <1>0, <3>1, TimerSame DEF Fires
  <2>. QED
    BY <2>1, <2>2
<1>5. CASE Destroy(e)
  <2> DEFINE m == [n EXCEPT !.isValid = FALSE]
  <2>1. node' = [node EXCEPT ![e] = m] /\ n.isValid
    BY <1>1, <1>5, Zenon DEF Destroy
  <2>2. m.isValid = FALSE
    BY <1>1 DEF TimerNodes
  <2> HIDE DEF m
  <2>3. node'[e].isValid = FALSE
    BY <1>0, <2>1, <2>2
  <2>4. TimerOf(e)' = Abstract!Quiet("stopped")
    BY <1>3, <2>3, TimerIs DEF TimerShown
  <2>5. CASE Fires(e) /\ n.count = 1
    <3>1. TimerOf(e) = Abstract!Quiet("stopped")
      BY <1>0, <1>1, <2>5, TimerIs DEF TimerShown
    <3>. QED
      BY <1>2, <2>4, <3>1
  <2>6. CASE ~(Fires(e) /\ n.count = 1)
    <3>1. TimerOf(e).state \in {"armed", "paused"}
      BY <1>0, <1>1, <2>1, <2>6, TimerIs, Views DEF TimerShown
    <3>. QED
      BY <1>0, <1>2, <2>4, <3>1, OneTimer DEF Abstract!Cancel
  <2>. QED
    BY <2>5, <2>6
<1>. QED
  BY <1>4, <1>5

\* The destructor ends every timer.
LEMMA RefinesShutdown == Destruct => Abstract!Shutdown
<1> SUFFICES ASSUME Destruct PROVE Abstract!Shutdown
  OBVIOUS
<1>1. manager' = {} /\ tickTime' = tickTime
  BY DEF Destruct
<1>2. \A e \in Events : TimerOf(e)' = Abstract!Quiet("idle")
  BY <1>1, TimerIs DEF TimerShown
<1>. QED
  BY <1>1, <1>2 DEF Abstract!Shutdown

\* Every step of the wheel is a step of the timers, or one they do not see.
LEMMA RefinesStep == TypeInv /\ HeldInv /\ WheelInv /\ [Next]_vars => [Abstract!Next]_Abstract!vars
<1> SUFFICES ASSUME TypeInv, HeldInv, WheelInv, [Next]_vars PROVE [Abstract!Next]_Abstract!vars
  OBVIOUS
<1>1. ASSUME UNCHANGED tickTime, \A e \in Events : TimerOf(e)' = TimerOf(e)
      PROVE  UNCHANGED Abstract!vars
  BY <1>1 DEF Abstract!vars
<1>2. ASSUME UNCHANGED <<tickTime, node, manager>>,
             UNCHANGED <<pc, spokes>> \/ (pc # "trigger" /\ pc' # "trigger")
      PROVE  UNCHANGED Abstract!vars
  BY <1>1, <1>2, TimerSame DEF Fires
<1>3. CASE Update \/ UpdateDone \/ BeginTick \/ CascadeNode \/ CascadeNext \/ TickDone \/ DropPaused \/ AfterStop
           \/ Stop \/ UNCHANGED vars
  BY <1>2, <1>3 DEF Update, UpdateDone, BeginTick, CascadeNode, CascadeNext, TickDone, DropPaused, AfterStop,
                    Stop, vars, maps
<1>4. CASE Advance
  BY <1>4, RefinesTick DEF Abstract!Next
<1>5. CASE DropInvalid
  BY <1>5, RefinesForget DEF Abstract!Next
<1>6. CASE Trigger
  BY <1>6, RefinesFire DEF Abstract!Next
<1>7. CASE AfterTrigger
  BY <1>1, <1>7, RefinesCounted DEF AfterTrigger
<1>8. CASE Requeue
  BY <1>1, <1>8, RefinesRequeue DEF Requeue
<1>9. ASSUME NEW e \in Events, NEW c \in Counts, NEW i \in Intervals, Start(e, c, i)
      PROVE  [Abstract!Next]_Abstract!vars
  BY <1>9, RefinesArm DEF Abstract!Next
<1>10. ASSUME NEW e \in Events, NEW i \in Intervals, StartTooLong(e, i)
       PROVE  [Abstract!Next]_Abstract!vars
  BY <1>2, <1>10 DEF StartTooLong, maps
<1>11. ASSUME NEW e \in Events, Pause(e) \/ Destroy(e)
       PROVE  [Abstract!Next]_Abstract!vars
  BY <1>1, <1>11, RefinesControl DEF Abstract!Next, Pause, Destroy
<1>12. ASSUME NEW e \in Events, Resume(e)
       PROVE  [Abstract!Next]_Abstract!vars
  BY <1>2, <1>12 DEF Resume, TypeInv, TypeOK
<1>13. CASE Destruct
  BY <1>13, RefinesShutdown DEF Abstract!Next
<1>. QED
  BY <1>3, <1>4, <1>5, <1>6, <1>7, <1>8, <1>9, <1>10, <1>11, <1>12, <1>13 DEF Next, Driver, Client

\* TimersRefined: the wheel implements Timers.tla, for wheels of every size, any events,
\* counts and intervals: each timer fires in the tick it is due, however late the driver,
\* as often as asked, and never once it is paused, destroyed or stopped (AddNode, Cascade,
\* Executes, RevisedExpire, and the API whenever it may be called).
THEOREM TimersRefined == Spec => RefinesTimers
BY RefinesInit, RefinesStep, WheelInvariant, PTL DEF Spec, RefinesTimers, Abstract!Spec

-----------------------------------------------------------------------------
\* Between Start and Register the node of an event may be in the wheel although the
\* event is in no map; a push that was lost or a node dropped in that time is all
\* that ever comes between the maps and the wheel.
Entered(e) == e \in manager \/ (call.at = "register" /\ call.event = e)

RaceNodes ==
  [isValid : BOOLEAN, isPause : BOOLEAN, count : Int, expire : Nat, interval : Nat, pauseTick : Nat]

CallsUnder ==
  [at : {"idle"}] \union [at : {"add", "register", "destroy"}, event : Events]
    \union [at : {"push"}, event : Events, slot : SlotIds]

RaceTypes ==
  /\ tickTime \in Nat /\ level \in Levels /\ manager \subseteq Events /\ stray \subseteq Events
  /\ slots \in [SlotIds -> Seq(Events)] /\ spokes \in Seq(Events)
  /\ node \in [Events -> RaceNodes] /\ call \in CallsUnder
  /\ pc \in {"run", "sleep", "advance", "swap", "exited"} => spokes = <<>>
  /\ pc \in {"trigger", "stop", "requeue"} => spokes # <<>>
  /\ pc = "swap" => tickTime > 0

Conserved ==
  /\ HeldOnce
  /\ \A e \in Events : Held(e) <=> Entered(e) /\ e \notin stray
  /\ \A e \in stray : Entered(e)
  /\ call.at \in {"add", "push", "register"} => call.event \notin manager

RaceInv == RaceTypes /\ (pc # "crashed" => Conserved)

\* At the start the wheel is empty and no call is under way.
LEMMA RaceStart == RaceInit => RaceInv
<1> SUFFICES ASSUME RaceInit PROVE RaceInv
  OBVIOUS
<1>1. /\ tickTime = 0 /\ level = 1 /\ manager = {} /\ stray = {} /\ spokes = <<>> /\ call = Idle
      /\ slots = [s \in SlotIds |-> <<>>] /\ node = [e \in Events |-> NoNode] /\ pc = "run"
  BY Zenon DEF RaceInit, Init
<1>2. NoNode \in RaceNodes /\ <<>> \in Seq(Events) /\ 1 \in Levels /\ Idle \in CallsUnder /\ Idle.at = "idle"
  BY DEF NoNode, RaceNodes, Levels, Idle, CallsUnder
<1>3. RaceTypes
  BY <1>1, <1>2 DEF RaceTypes
<1>4. /\ DOMAIN spokes = {} /\ \A s \in SlotIds : DOMAIN slots[s] = {}
  BY <1>1
<1>5. Conserved
  BY <1>1, <1>2, <1>4 DEF Conserved, HeldOnce, Held, InSlot, InSpokes, Entered
<1>. QED
  BY <1>3, <1>5 DEF RaceInv

\* A step that leaves the nodes where they are, and the maps.
LEMMA ConservedFrame ==
  ASSUME Conserved, HeldOnce', \A e \in Events : Held(e)' <=> Held(e), UNCHANGED <<manager, call, stray>>
  PROVE  Conserved'
BY DEF Conserved, Entered

\* What a step does to a node keeps it one.
LEMMA NodeFields ==
  ASSUME NEW n \in RaceNodes
  PROVE  /\ \A x \in Nat : [n EXCEPT !.expire = x] \in RaceNodes
         /\ \A x \in Nat : [n EXCEPT !.expire = x, !.isValid = FALSE] \in RaceNodes
         /\ [n EXCEPT !.isValid = FALSE] \in RaceNodes
         /\ [n EXCEPT !.count = n.count - 1] \in RaceNodes
         /\ [n EXCEPT !.count = 0, !.isValid = FALSE] \in RaceNodes
<1>1. ASSUME NEW x \in Nat PROVE [n EXCEPT !.expire = x] \in RaceNodes
  BY DEF RaceNodes
<1>2. ASSUME NEW x \in Nat PROVE [n EXCEPT !.expire = x, !.isValid = FALSE] \in RaceNodes
  BY DEF RaceNodes
<1>3. [n EXCEPT !.isValid = FALSE] \in RaceNodes
  BY DEF RaceNodes
<1>4. [n EXCEPT !.count = n.count - 1] \in RaceNodes
  BY DEF RaceNodes
<1>5. [n EXCEPT !.count = 0, !.isValid = FALSE] \in RaceNodes
  <2>1. 0 \in Int
    OBVIOUS
  <2>2. PICK zero \in Int : zero = 0
    BY <2>1
  <2>3. [n EXCEPT !.count = zero, !.isValid = FALSE] \in RaceNodes
    BY DEF RaceNodes
  <2>. QED
    BY <2>2, <2>3
<1>. QED
  BY <1>1, <1>2, <1>3, <1>4, <1>5

\* The driver moves nodes between the slots and spokes; it takes out of the wheel only what
\* it takes out of the maps, or what no map has yet.
LEMMA DriverKeeps ==
  ASSUME RaceTypes, Conserved, DriverStep
  PROVE  RaceTypes' /\ (pc' # "crashed" => Conserved')
<1>0. /\ Filed /\ slots \in [SlotIds -> Seq(Events)] /\ spokes \in Seq(Events) /\ HeldOnce
      /\ tickTime \in Nat /\ level \in Levels /\ node \in [Events -> RaceNodes]
  BY DEF RaceTypes, Conserved, Filed
<1>h. spokes # <<>> => Head(spokes) \in Events /\ Tail(spokes) \in Seq(Events)
  BY <1>0, HeadTailProperties
<1>1. ASSUME UNCHANGED <<slots, spokes, manager, call, stray, tickTime>>, level' \in Levels,
             node' \in [Events -> RaceNodes],
             pc' \in {"run", "sleep", "advance", "swap", "exited"} => spokes = <<>>, pc' # "swap",
             pc' \in {"trigger", "stop", "requeue"} => spokes # <<>>
      PROVE  RaceTypes' /\ Conserved'
  BY <1>0, <1>1, HeldSame, ConservedFrame DEF RaceTypes
<1>2. ASSUME NEW s \in SlotIds, slots' = [slots EXCEPT ![s] = <<>>], spokes' = slots[s],
             spokes = <<>>, pc' \in {"cascade", "serve"},
             UNCHANGED <<manager, call, stray, tickTime, node>>, level' \in Levels
      PROVE  RaceTypes' /\ Conserved'
  <2>1. slots' \in [SlotIds -> Seq(Events)] /\ spokes' \in Seq(Events)
    BY <1>0, <1>2, SwapType
  <2>2. HeldOnce' /\ \A e \in Events : Held(e)' <=> Held(e)
    BY <1>0, <1>2, SwapKeeps
  <2>. QED
    BY <1>2, <2>1, <2>2, ConservedFrame DEF RaceTypes
<1>3. ASSUME spokes # <<>>, NEW x \in Nat, slots' = AddNode(slots, Head(spokes), x),
             spokes' = Tail(spokes), pc' \in {"cascade", "serve"},
             UNCHANGED <<manager, call, stray, tickTime, level>>, node' \in [Events -> RaceNodes]
      PROVE  RaceTypes' /\ Conserved'
  <2>1. slots' \in [SlotIds -> Seq(Events)] /\ spokes' \in Seq(Events)
    BY <1>0, <1>h, <1>3, AddNodeType
  <2>2. PICK p \in SlotIds : p = Place(x, tickTime)
    BY <1>0, <1>3, PlaceType
  <2>3. slots' = [slots EXCEPT ![p] = Append(slots[p], Head(spokes))]
    BY <1>3, <2>2 DEF AddNode
  <2>4. HeldOnce' /\ \A e \in Events : Held(e)' <=> Held(e)
    BY <1>0, <1>3, <2>3, RefileKeeps
  <2>. QED
    BY <1>3, <2>1, <2>4, ConservedFrame DEF RaceTypes
<1>4. CASE (Update \/ UpdateDone \/ TickDone \/ AfterStop) /\ UNCHANGED race
  BY <1>0, <1>1, <1>4 DEF Update, UpdateDone, TickDone, AfterStop, RaceTypes, maps, race, driver
<1>5. CASE BeginTick /\ UNCHANGED race
  <2>1. SlotOf(2, tickTime) \in SlotIds
    BY <1>0, SlotOfType DEF Levels
  <2>2. CASE tickTime % NearSize = 0
    BY <1>2, <1>5, <2>1, <2>2 DEF BeginTick, RaceTypes, maps, race, Levels
  <2>3. CASE tickTime % NearSize # 0
    BY <1>0, <1>1, <1>5, <2>3 DEF BeginTick, RaceTypes, maps, race
  <2>. QED
    BY <2>2, <2>3
<1>6. CASE CascadeNext /\ UNCHANGED race
  <2>1. CASE SlotOf(level, tickTime)[2] = 0 /\ level < 5
    <3>1. level + 1 \in Levels
      BY <1>0, <2>1 DEF Levels
    <3>2. SlotOf(level + 1, tickTime) \in SlotIds
      BY <1>0, <3>1, SlotOfType
    <3>3. /\ slots' = [slots EXCEPT ![SlotOf(level + 1, tickTime)] = <<>>]
          /\ spokes' = slots[SlotOf(level + 1, tickTime)] /\ spokes = <<>> /\ level' = level + 1
          /\ pc' = "cascade" /\ UNCHANGED <<manager, call, stray, tickTime, node>>
      BY <1>6, <2>1, Zenon DEF CascadeNext, maps, race
    <3>. QED
      BY <1>2, <3>1, <3>2, <3>3
  <2>2. CASE ~(SlotOf(level, tickTime)[2] = 0 /\ level < 5)
    <3>1. /\ pc' = "advance" /\ level' = 1 /\ spokes = <<>>
          /\ UNCHANGED <<slots, spokes, manager, call, stray, tickTime, node>>
      BY <1>6, <2>2, Zenon DEF CascadeNext, maps, race
    <3>. QED
      BY <1>0, <1>1, <3>1 DEF Levels
  <2>. QED
    BY <2>1, <2>2
<1>7. CASE CascadeNode /\ UNCHANGED race
  <2>1. node[Head(spokes)].expire \in Nat
    BY <1>0, <1>h, <1>7 DEF CascadeNode, RaceNodes
  <2>. QED
    BY <1>0, <1>3, <1>7, <2>1 DEF CascadeNode, maps, race, driver
<1>8. CASE AfterTrigger /\ UNCHANGED race
  <2> DEFINE h == Head(spokes)
  <2>1. h \in Events /\ spokes # <<>>
    BY <1>h, <1>8 DEF AfterTrigger, RaceTypes
  <2>2. node[h] \in RaceNodes
    BY <1>0, <2>1
  <2>3. \/ node' = [node EXCEPT ![h] = [node[h] EXCEPT !.count = node[h].count - 1]]
        \/ node' = [node EXCEPT ![h] = [node[h] EXCEPT !.count = 0, !.isValid = FALSE]]
    BY <1>8, Zenon DEF AfterTrigger
  <2>4. node' \in [Events -> RaceNodes]
    BY <1>0, <2>1, <2>2, <2>3, NodeFields
  <2>. QED
    BY <1>0, <1>1, <1>8, <2>1, <2>4 DEF AfterTrigger, maps, race, driver
<1>9. CASE Requeue /\ UNCHANGED race
  <2>1. Head(spokes) \in Events /\ spokes # <<>>
    BY <1>h, <1>9 DEF Requeue, RaceTypes
  <2>2. CASE pc' = "crashed"
    BY <1>0, <1>1, <1>9, <2>2 DEF Requeue, maps, race, driver
  <2>3. CASE pc' # "crashed"
    <3>1. node[Head(spokes)].expire \in Nat /\ node[Head(spokes)].interval \in Nat
      BY <1>0, <2>1 DEF RaceNodes
    <3>2. /\ ~(/\ Late(node[Head(spokes)]) > node[Head(spokes)].interval
               /\ node[Head(spokes)].interval = 0)
          /\ node' = [node EXCEPT ![Head(spokes)].expire = RevisedExpire(node[Head(spokes)])]
          /\ slots' = AddNode(slots, Head(spokes), RevisedExpire(node[Head(spokes)]))
          /\ spokes' = Tail(spokes) /\ pc' = "serve"
          /\ UNCHANGED <<manager, call, stray, tickTime, level>>
      BY <1>9, <2>3 DEF Requeue, maps, race, driver
    <3>3. PICK x \in Nat : x = RevisedExpire(node[Head(spokes)])
      BY <1>0, <3>1, <3>2, RevisedType
    <3>4. node' = [node EXCEPT ![Head(spokes)] = [node[Head(spokes)] EXCEPT !.expire = x]]
      BY <3>2, <3>3
    <3>5. node' \in [Events -> RaceNodes]
      BY <1>0, <2>1, <3>4, NodeFields
    <3>. QED
      BY <1>3, <2>1, <3>2, <3>3, <3>5
  <2>. QED
    BY <2>2, <2>3
<1>10. CASE Count
  BY <1>0, <1>10, HeldSame, ConservedFrame DEF Count, RaceTypes, maps, race, driver
<1>11. CASE Swap
  <2>1. tickTime - 1 \in Nat
    BY <1>0, <1>11 DEF Swap, RaceTypes
  <2>2. SlotOf(1, tickTime - 1) \in SlotIds
    BY <2>1, SlotOfType DEF Levels
  <2>. QED
    BY <1>0, <1>2, <1>11, <2>2 DEF Swap, RaceTypes, maps, race, driver
<1>12. CASE Drop
  <2>1. Head(spokes) \in Events /\ spokes # <<>>
    BY <1>h, <1>12 DEF Drop, DropInvalid
  <2>e. PICK e \in Events : e = Head(spokes)
    BY <2>1
  <2>2. /\ spokes' = Tail(spokes) /\ pc' = "serve" /\ manager' = manager \ {e}
        /\ node' = [node EXCEPT ![e] = NoNode]
        /\ stray' = IF e \in manager THEN stray ELSE stray \union {e}
        /\ UNCHANGED <<slots, tickTime, level, call>>
    BY <1>12, <2>e DEF Drop, DropInvalid, driver
  <2>3. HeldOnce' /\ \A x \in Events : Held(x)' <=> (Held(x) /\ x # e)
    BY <1>0, <2>1, <2>2, <2>e, DropKeeps
  <2>4. Held(e)
    <3>1. InSpokes(e)
      BY <1>0, <2>1, <2>e, TailElements DEF InSpokes
    <3>. QED
      BY <3>1 DEF Held
  <2>5. NoNode \in RaceNodes
    BY DEF NoNode, RaceNodes
  <2>6. RaceTypes'
    BY <1>0, <1>h, <2>1, <2>2, <2>5 DEF RaceTypes
  <2>7. Conserved'
    BY <2>2, <2>3, <2>4 DEF Conserved, Entered
  <2>. QED
    BY <2>6, <2>7
<1>13. CASE Serve
  <2> DEFINE h == Head(spokes)
  <2>1. h \in Events /\ spokes # <<>>
    BY <1>h, <1>13 DEF Serve, Trigger
  <2>2. node[h] \in RaceNodes /\ node[h].expire + node[h].interval \in Nat
    BY <1>0, <2>1 DEF RaceNodes
  <2>3. \/ node' = [node EXCEPT ![h] = [node[h] EXCEPT !.expire = node[h].expire + node[h].interval]]
        \/ node' = [node EXCEPT ![h] =
             [node[h] EXCEPT !.expire = node[h].expire + node[h].interval, !.isValid = FALSE]]
    BY <1>13, Zenon DEF Serve, Trigger
  <2>4. node' \in [Events -> RaceNodes]
    BY <1>0, <2>1, <2>2, <2>3, NodeFields
  <2>. QED
    BY <1>0, <1>1, <1>13, <2>1, <2>4 DEF Serve, Trigger, maps, driver
<1>. QED
  BY <1>4, <1>5, <1>6, <1>7, <1>8, <1>9, <1>10, <1>11, <1>12, <1>13 DEF DriverStep

\* A call of the client files the node of an event that the wheel does not hold, and
\* registers the event afterwards.
LEMMA ClientKeeps ==
  ASSUME RaceTypes, Conserved, ClientStep
  PROVE  RaceTypes' /\ (pc' # "crashed" => Conserved')
<1>0. /\ Filed /\ HeldOnce /\ tickTime \in Nat /\ node \in [Events -> RaceNodes]
      /\ call \in CallsUnder /\ manager \subseteq Events /\ stray \subseteq Events
  BY DEF RaceTypes, Conserved, Filed
<1>1. ASSUME NEW e \in Events, NEW c \in Counts, NEW i \in Intervals, StartCall(e, c, i)
      PROVE  RaceTypes' /\ Conserved'
  <2>1. /\ call = Idle /\ e \notin manager /\ call' = [at |-> "add", event |-> e]
        /\ node' = [node EXCEPT ![e] = NewNode(c, i)]
        /\ UNCHANGED <<tickTime, slots, manager, pc, level, spokes, stray>>
    BY <1>1 DEF StartCall, maps, driver
  <2>2. NewNode(c, i) \in RaceNodes
    BY <1>0, NewNodeType DEF TimerNodes, RaceNodes
  <2>3. call.at = "idle" /\ call'.at = "add" /\ call'.event = e /\ call' \in CallsUnder
    BY <2>1 DEF Idle, CallsUnder
  <2>4. RaceTypes'
    BY <1>0, <2>1, <2>2, <2>3 DEF RaceTypes
  <2>. QED
    BY <1>0, <2>1, <2>3, <2>4, HeldSame DEF Conserved, Entered
<1>2. ASSUME NEW e \in Events, DestroyTest(e)
      PROVE  RaceTypes' /\ Conserved'
  <2>1. call = Idle /\ call' = [at |-> "destroy", event |-> e] /\ UNCHANGED <<vars, stray>>
    BY <1>2 DEF DestroyTest
  <2>2. call.at = "idle" /\ call'.at = "destroy" /\ call' \in CallsUnder
    BY <2>1 DEF Idle, CallsUnder
  <2>3. UNCHANGED <<tickTime, slots, manager, pc, level, spokes, node, stray>>
    BY <2>1 DEF vars, maps, driver
  <2>4. RaceTypes'
    BY <2>2, <2>3 DEF RaceTypes
  <2>. QED
    BY <1>0, <2>2, <2>3, <2>4, HeldSame DEF Conserved, Entered
<1>3. CASE Choose
  <2>1. call.at = "add" /\ call.event \in Events
    BY <1>0, <1>3 DEF Choose, CallsUnder
  <2>2. node[call.event].expire \in Nat
    BY <1>0, <2>1 DEF RaceNodes
  <2>3. PICK p \in SlotIds : p = Place(node[call.event].expire, tickTime)
    BY <1>0, <2>2, PlaceType
  <2>4. call' = [at |-> "push", event |-> call.event, slot |-> p] /\ UNCHANGED <<vars, stray>>
    BY <1>3, <2>3 DEF Choose
  <2>5. call'.at = "push" /\ call'.event = call.event /\ call' \in CallsUnder
    BY <2>1, <2>4 DEF CallsUnder
  <2>6. UNCHANGED <<tickTime, slots, manager, pc, level, spokes, node, stray>>
    BY <2>4 DEF vars, maps, driver
  <2>7. RaceTypes'
    BY <2>5, <2>6 DEF RaceTypes
  <2>. QED
    BY <1>0, <2>1, <2>5, <2>6, <2>7, HeldSame DEF Conserved, Entered
<1>4. CASE PushBack
  <2>1. call.at = "push" /\ call.event \in Events /\ call.slot \in SlotIds
    BY <1>0, <1>4 DEF PushBack, Locked, CallsUnder
  <2>2. PICK e \in Events, p \in SlotIds : e = call.event /\ p = call.slot
    BY <2>1
  <2>3. /\ \/ /\ slots' = [slots EXCEPT ![p] = Append(slots[p], e)] /\ UNCHANGED <<pc, stray>>
           \/ pc' \in {pc, "crashed"} /\ stray' = stray \union {e} /\ UNCHANGED slots
        /\ call' = [at |-> "register", event |-> e]
        /\ UNCHANGED <<tickTime, manager, level, spokes, node>>
    BY <1>4, <2>2 DEF PushBack, maps, driver
  <2>4. call'.at = "register" /\ call'.event = e /\ call' \in CallsUnder
    BY <2>3 DEF CallsUnder
  <2>5. e \notin manager /\ ~Entered(e) /\ ~Held(e)
    BY <2>1, <2>2 DEF Conserved, Entered
  <2>6. \A x \in Events : Entered(x)' <=> (Entered(x) \/ x = e)
    BY <2>1, <2>3, <2>4 DEF Entered
  <2>7. CASE slots' = [slots EXCEPT ![p] = Append(slots[p], e)] /\ UNCHANGED <<pc, stray>>
    <3>1. slots' \in [SlotIds -> Seq(Events)]
      <4>1. Append(slots[p], e) \in Seq(Events)
        BY AppendProperties DEF RaceTypes
      <4>. QED
        BY <2>7, <4>1 DEF RaceTypes
    <3>2. RaceTypes'
      BY <2>3, <2>4, <2>7, <3>1 DEF RaceTypes
    <3>3. HeldOnce' /\ \A x \in Events : Held(x)' <=> (Held(x) \/ x = e)
      BY <1>0, <2>3, <2>5, <2>7, FileKeeps
    <3>4. e \notin stray
      BY <2>5 DEF Conserved
    <3>. QED
      BY <1>0, <2>3, <2>4, <2>5, <2>6, <2>7, <3>2, <3>3, <3>4 DEF Conserved
  <2>8. CASE pc' \in {pc, "crashed"} /\ stray' = stray \union {e} /\ UNCHANGED slots
    <3>1. RaceTypes'
      BY <1>0, <2>3, <2>4, <2>8 DEF RaceTypes
    <3>2. HeldOnce' /\ \A x \in Events : Held(x)' <=> Held(x)
      BY <1>0, <2>3, <2>8, HeldSame
    <3>. QED
      BY <1>0, <2>3, <2>4, <2>5, <2>6, <2>8, <3>1, <3>2 DEF Conserved
  <2>. QED
    BY <2>3, <2>7, <2>8
<1>5. CASE Register
  <2>1. call.at = "register" /\ call.event \in Events
    BY <1>0, <1>5 DEF Register, CallsUnder
  <2>2. /\ manager' = manager \union {call.event} /\ call' = Idle /\ pc' \in {pc, "crashed"}
        /\ UNCHANGED <<tickTime, slots, level, spokes, node, stray>>
    BY <1>5 DEF Register, driver
  <2>3. call'.at = "idle" /\ call' \in CallsUnder
    BY <2>2 DEF Idle, CallsUnder
  <2>4. RaceTypes'
    BY <1>0, <2>1, <2>2, <2>3 DEF RaceTypes
  <2>5. HeldOnce' /\ \A x \in Events : Held(x)' <=> Held(x)
    BY <1>0, <2>2, HeldSame
  <2>6. \A x \in Events : Entered(x)' <=> Entered(x)
    BY <2>1, <2>2, <2>3 DEF Entered
  <2>. QED
    BY <1>0, <2>2, <2>3, <2>4, <2>5, <2>6 DEF Conserved
<1>6. CASE DestroySet
  <2>1. call.at = "destroy" /\ call.event \in Events
    BY <1>0, <1>6 DEF DestroySet, CallsUnder
  <2>2. /\ node' = [node EXCEPT ![call.event] = [node[call.event] EXCEPT !.isValid = FALSE]] \/ UNCHANGED node
        /\ call' = Idle /\ pc' \in {pc, "crashed"}
        /\ UNCHANGED <<tickTime, slots, manager, level, spokes, stray>>
    BY <1>6 DEF DestroySet, maps, driver
  <2>3. node' \in [Events -> RaceNodes]
    <3>1. [node[call.event] EXCEPT !.isValid = FALSE] \in RaceNodes
      BY <1>0, <2>1, NodeFields
    <3>. QED
      BY <1>0, <2>1, <2>2, <3>1
  <2>4. call'.at = "idle" /\ call' \in CallsUnder
    BY <2>2 DEF Idle, CallsUnder
  <2>5. RaceTypes'
    BY <2>2, <2>3, <2>4 DEF RaceTypes
  <2>6. HeldOnce' /\ \A x \in Events : Held(x)' <=> Held(x)
    BY <1>0, <2>2, HeldSame
  <2>. QED
    BY <1>0, <2>1, <2>2, <2>4, <2>5, <2>6 DEF Conserved, Entered
<1>. QED
  BY <1>1, <1>2, <1>3, <1>4, <1>5, <1>6 DEF ClientStep

\* A process that has ended makes no step.
LEMMA RaceOn == RaceNext => pc # "crashed"
BY DEF RaceNext, DriverStep, Update, UpdateDone, BeginTick, CascadeNext, TickDone, AfterTrigger,
   AfterStop, CascadeNode, Requeue, Count, Swap, Drop, DropInvalid, Serve, Trigger

\* Every step keeps the invariant.
LEMMA RaceStep == RaceInv /\ [RaceNext]_<<vars, race>> => RaceInv'
<1> SUFFICES ASSUME RaceInv, [RaceNext]_<<vars, race>> PROVE RaceInv'
  OBVIOUS
<1>1. CASE UNCHANGED <<vars, race>>
  <2>1. UNCHANGED <<tickTime, slots, manager, pc, level, spokes, node, call, stray>>
    BY <1>1 DEF vars, race, maps, driver
  <2>2. RaceTypes'
    BY <2>1 DEF RaceInv, RaceTypes
  <2>3. Conserved => Conserved'
    BY <2>1, HeldSame, ConservedFrame DEF Conserved
  <2>. QED
    BY <2>1, <2>2, <2>3 DEF RaceInv
<1>2. CASE RaceNext
  BY <1>2, RaceOn, DriverKeeps, ClientKeeps DEF RaceInv, RaceNext
<1>. QED
  BY <1>1, <1>2

\* RacedHolds: whatever step of the driver a call of Start or Destroy meets, for wheels of
\* every size, no node is twice in the wheel, and a registered event that has none is one
\* whose push was lost or whose node was dropped too early (AddNode, Start, Executes).
THEOREM RacedHolds == RaceSpec => []RacedHeld
<1>1. RaceInv => RacedHeld
  <2>1. call.at = "register" => call # Idle
    BY DEF Idle
  <2>. QED
    BY <2>1 DEF RaceInv, Conserved, Entered, RacedHeld
<1>. QED
  BY RaceStart, RaceStep, <1>1, PTL DEF RaceSpec

-----------------------------------------------------------------------------
\* The first tick whose slot of level l the driver has not swapped out.
Coming(l) ==
  IF Emptied(l) THEN tickTime + 1 ELSE IF pc = "swap" /\ l = 1 THEN tickTime - 1 ELSE tickTime

\* The next tick in which slot s comes up.
ComesUp(s, turn) ==
  /\ turn = Turn(s[1], turn) /\ s = SlotOf(s[1], turn)
  /\ Coming(s[1]) <= turn /\ turn < Coming(s[1]) + Unit(s[1] + 1)

Stamp(e) == node[e].expire - node[e].interval

\* No later than RacedInTime allows.
InTime(e, tick) ==
  /\ tick <= (IF filed[e].tick > node[e].expire THEN filed[e].tick ELSE node[e].expire)
               + Size(filed[e].level) * Unit(filed[e].level)
  /\ filed[e].tick = Stamp(e) => tick <= node[e].expire

\* The node of e leaves slot s in time, and when it is due in that slot's turn.
Waits(e, s) ==
  \E turn \in Nat : ComesUp(s, turn) /\ node[e].expire < turn + Unit(s[1]) /\ InTime(e, turn)

\* One that was pushed between the increment and the swap.
Overtaken(e) == tickTime - 1 = node[e].expire - NearSize \/ tickTime - 1 >= node[e].expire

FiledAs == [level : Levels, tick : Nat, swapping : BOOLEAN]

InTheWheel ==
  \A s \in SlotIds, e \in Events : InSlot(e, s) /\ filed[e] # NotFiled =>
    IF filed[e].swapping THEN pc = "swap" /\ s = SlotOf(1, tickTime - 1) /\ Overtaken(e)
    ELSE Waits(e, s)

OutOfTheWheel ==
  \A e \in Events : InSpokes(e) /\ filed[e] # NotFiled =>
    /\ pc = "cascade" =>
         ~filed[e].swapping /\ node[e].expire < tickTime + Unit(level) /\ InTime(e, tickTime)
    /\ pc # "cascade" =>
         IF filed[e].swapping THEN Overtaken(e)
         ELSE node[e].expire <= tickTime - 1 /\ InTime(e, tickTime - 1)

\* What Start has found out: the slot it chose comes up in the tick that its node is due,
\* as far as that tick has not passed.
Chosen(e, s, turn) ==
  /\ turn = Turn(s[1], turn) /\ s = SlotOf(s[1], turn) /\ turn < tickTime + Unit(s[1] + 1)
  /\ node[e].expire < turn + Unit(s[1])
  /\ turn <= node[e].expire \/ turn <= tickTime
  /\ tickTime = Stamp(e) => turn <= node[e].expire /\ tickTime <= turn /\ (s[1] > 1 => tickTime < turn)

Starting ==
  /\ call.at \in {"add", "push"} =>
       Stamp(call.event) <= tickTime /\ node[call.event].interval < Unit(6)
  /\ call.at = "push" => \E turn \in Nat : Chosen(call.event, call.slot, turn)

LateInv ==
  /\ filed \in [Events -> {NotFiled} \union FiledAs]
  /\ InTheWheel /\ OutOfTheWheel /\ Starting
  /\ pc \in Firing => filed[Head(spokes)] = NotFiled
  /\ pc = "cascade" => level > 1 /\ tickTime = Turn(level, tickTime)

-----------------------------------------------------------------------------
\* What the steps do to slots and spokes, node by node.

\* A node is appended to a slot.
LEMMA Appends ==
  ASSUME slots \in [SlotIds -> Seq(Events)], NEW p \in SlotIds, NEW e \in Events,
         slots' = [slots EXCEPT ![p] = Append(slots[p], e)]
  PROVE  \A s \in SlotIds, x \in Events : InSlot(x, s)' <=> InSlot(x, s) \/ (s = p /\ x = e)
<1>1. /\ DOMAIN slots'[p] = 1..Len(slots[p]) + 1 /\ DOMAIN slots[p] = 1..Len(slots[p]) /\ Len(slots[p]) \in Nat
      /\ \A k \in 1..Len(slots[p]) : slots'[p][k] = slots[p][k]
      /\ slots'[p][Len(slots[p]) + 1] = e
  BY AppendElements
<1>2. \A s \in SlotIds : s # p => slots'[s] = slots[s]
  OBVIOUS
<1>3. ASSUME NEW x \in Events PROVE InSlot(x, p)' <=> InSlot(x, p) \/ x = e
  <2>1. ASSUME NEW k \in DOMAIN slots'[p], k # Len(slots[p]) + 1 PROVE k \in DOMAIN slots[p]
    BY <1>1, <2>1
  <2>2. DOMAIN slots[p] \subseteq DOMAIN slots'[p] /\ Len(slots[p]) + 1 \in DOMAIN slots'[p]
    BY <1>1
  <2>. QED
    BY <1>1, <2>1, <2>2 DEF InSlot
<1>. QED
  BY <1>2, <1>3 DEF InSlot

\* A slot is swapped with the empty spokes.
LEMMA SwapsOut ==
  ASSUME slots \in [SlotIds -> Seq(Events)], NEW p \in SlotIds,
         slots' = [slots EXCEPT ![p] = <<>>], spokes' = slots[p]
  PROVE  /\ \A s \in SlotIds, x \in Events : InSlot(x, s)' <=> InSlot(x, s) /\ s # p
         /\ \A x \in Events : InSpokes(x)' <=> InSlot(x, p)
BY DEF InSlot, InSpokes

\* The first node leaves spokes.
LEMMA LeavesSpokes ==
  ASSUME spokes \in Seq(Events), spokes # <<>>, spokes' = Tail(spokes)
  PROVE  /\ \A x \in Events : InSpokes(x)' => InSpokes(x)
         /\ Head(spokes) \in Events /\ InSpokes(Head(spokes)) /\ Held(Head(spokes))
<1>1. /\ DOMAIN Tail(spokes) = 1..Len(spokes) - 1 /\ DOMAIN spokes = 1..Len(spokes) /\ Len(spokes) \in Nat \ {0}
      /\ \A k \in 1..Len(spokes) - 1 : Tail(spokes)[k] = spokes[k + 1]
      /\ Head(spokes) = spokes[1] /\ Head(spokes) \in Events
  BY TailElements
<1>2. \A k \in 1..Len(spokes) - 1 : k + 1 \in 1..Len(spokes)
  BY <1>1
<1>. QED
  BY <1>1, <1>2 DEF InSpokes, Held

-----------------------------------------------------------------------------
\* When a slot comes up.

\* Every slot comes up once in every round.
LEMMA EverySlot ==
  ASSUME NEW l \in Levels, NEW y \in Nat, y = Turn(l, y), NEW c \in Nat
  PROVE  \E turn \in Nat :
           /\ turn = Turn(l, turn) /\ SlotOf(l, turn) = SlotOf(l, y)
           /\ c <= turn /\ turn < c + Unit(l + 1)
           /\ y < c => y + Unit(l) <= turn
<1>1. PICK u \in Nat \ {0}, n \in Nat \ {0}, round \in Nat \ {0} :
        u = Unit(l) /\ n = Size(l) /\ round = Unit(l + 1) /\ round = u * n
  BY UnitNext
<1>2. PICK q \in Nat : q = y \div u /\ y = q * u
  BY <1>1, Quotient DEF Turn
<1>3. PICK k \in Nat : k = q % n /\ k < n
  <2>1. q % n \in 0..n - 1
    BY <1>1, Quotient
  <2>. QED
    BY <1>1, <2>1
<1>4. PICK a \in Nat, b \in Nat : c = a * round + b /\ b < round
  <2>1. c \div round \in Nat /\ c % round \in 0..round - 1 /\ c = (c \div round) * round + (c % round)
    BY <1>1, Quotient
  <2>2. c % round \in Nat /\ c % round < round
    BY <1>1, <2>1
  <2>. QED
    BY <2>1, <2>2
<1>5. PICK d \in Nat : d = k * u /\ d + u <= round
  <2>1. k \in Int /\ n \in Int /\ k < n
    BY <1>1, <1>3
  <2>2. k * u + u <= n * u
    BY <2>1, Apart
  <2>3. n * u = u * n
    BY <1>1
  <2>4. k * u \in Nat
    <3>1. \A x, z \in Nat : x * z \in Nat
      OBVIOUS
    <3>. QED
      BY <1>1, <1>3, <3>1
  <2>. QED
    BY <1>1, <2>2, <2>3, <2>4
<1>6. PICK m \in Nat, e \in Nat : e = m * round /\ c <= e + d /\ e + d < c + round
  <2>0. PICK e \in Nat : e = a * round /\ c = e + b
    <3>1. a * round \in Nat
      BY <1>1, <1>4
    <3>. QED
      BY <1>4, <3>1
  <2>1. CASE b <= d
    <3>1. c <= e + d /\ e + d < c + round
      BY <1>1, <1>4, <1>5, <2>0, <2>1
    <3>. QED
      BY <1>4, <2>0, <3>1
  <2>2. CASE b > d
    <3>1. (a + 1) * round = e + round
      BY <1>1, <1>4, <2>0
    <3>2. c <= (e + round) + d /\ (e + round) + d < c + round
      BY <1>1, <1>4, <1>5, <2>0, <2>2
    <3>3. a + 1 \in Nat /\ e + round \in Nat
      BY <1>1, <1>4, <2>0
    <3>. QED
      BY <3>1, <3>2, <3>3
  <2>. QED
    BY <1>4, <1>5, <2>1, <2>2
<1>7. PICK turn \in Nat : turn = e + d
  BY <1>5, <1>6
<1>8. turn = (m * n + k) * u /\ m * n + k \in Nat
  <2>1. m * (u * n) = (m * n) * u /\ m * n \in Nat
    BY <1>1, <1>6
  <2>2. PICK t \in Nat : t = m * n
    BY <2>1
  <2>3. (t + k) * u = t * u + k * u
    BY <1>1, <1>3
  <2>4. turn = t * u + k * u
    BY <1>1, <1>5, <1>6, <1>7, <2>1, <2>2
  <2>5. m * n + k \in Nat
    BY <1>3, <2>2
  <2>. QED
    BY <2>2, <2>3, <2>4, <2>5
<1>9. turn \div u = m * n + k
  <2>1. 0 \in 0..u - 1 /\ turn = (m * n + k) * u + 0
    BY <1>1, <1>8
  <2>. QED
    BY <1>1, <1>8, <2>1, QuotientUnique
<1>10. (m * n + k) % n = k
  BY <1>1, <1>3, <1>8, QuotientUnique
<1>11. turn = Turn(l, turn) /\ SlotOf(l, turn) = SlotOf(l, y)
  BY <1>1, <1>2, <1>3, <1>8, <1>9, <1>10 DEF Turn, SlotOf
<1>12. ASSUME y < c PROVE y + u <= turn
  <2>1. y < c
    BY <1>12
  <2>2. q * u < (m * n + k) * u
    BY <1>2, <1>5, <1>6, <1>7, <1>8, <2>1
  <2>3. q < m * n + k
    <3>1. SUFFICES ASSUME m * n + k <= q PROVE FALSE
      BY <1>2, <1>8
    <3>2. m * n + k = q \/ m * n + k < q
      BY <1>2, <1>8, <3>1
    <3>3. m * n + k < q => (m * n + k) * u + u <= q * u
      BY <1>1, <1>2, <1>8, Apart
    <3>. QED
      BY <1>1, <1>2, <1>8, <2>2, <3>2, <3>3
  <2>4. q * u + u <= (m * n + k) * u
    BY <1>1, <1>2, <1>8, <2>3, Apart
  <2>. QED
    BY <1>2, <1>8, <2>4
<1>. QED
  BY <1>1, <1>5, <1>6, <1>7, <1>11, <1>12

\* A node that stays in its slot while the slot's turn does not pass still waits in time.
LEMMA WaitsOn ==
  ASSUME NEW e \in Events, NEW s \in SlotIds, Waits(e, s), filed'[e] = filed[e],
         node'[e].expire = node[e].expire, node'[e].interval = node[e].interval,
         \A turn \in Nat : ComesUp(s, turn) => ComesUp(s, turn)'
  PROVE  Waits(e, s)'
<1>1. PICK turn \in Nat : ComesUp(s, turn) /\ node[e].expire < turn + Unit(s[1]) /\ InTime(e, turn)
  BY DEF Waits
<1>2. ComesUp(s, turn)'
  BY <1>1
<1>3. InTime(e, turn)'
  BY <1>1 DEF InTime, Stamp
<1>. QED
  BY <1>1, <1>2, <1>3 DEF Waits

\* The same tick, the same slots to come.
LEMMA ComesUpSame ==
  ASSUME NEW s \in SlotIds, Coming(s[1])' = Coming(s[1]), NEW turn \in Nat, ComesUp(s, turn)
  PROVE  ComesUp(s, turn)'
BY DEF ComesUp

Calm == {"run", "sleep", "serve", "trigger", "stop", "requeue", "exited"}

\* Steps that leave every node in its place, its expiry and its interval alone.
LEMMA LateFrame ==
  ASSUME InTheWheel, OutOfTheWheel, UNCHANGED <<slots, spokes, filed, tickTime>>,
         (pc' = pc /\ level' = level) \/ (pc \in Calm /\ pc' \in Calm),
         \A e \in Events : node'[e].expire = node[e].expire /\ node'[e].interval = node[e].interval
  PROVE  InTheWheel' /\ OutOfTheWheel'
<1>1. \A l \in Levels : Coming(l)' = Coming(l)
  BY DEF Coming, Emptied, Calm
<1>2. \A s \in SlotIds, e \in Events : Waits(e, s) => Waits(e, s)'
  BY <1>1, WaitsOn, ComesUpSame, SlotLevel
<1>3. \A e \in Events : Overtaken(e)' <=> Overtaken(e)
  BY DEF Overtaken
<1>4. \A e \in Events, t \in Int : InTime(e, t)' <=> InTime(e, t)
  BY DEF InTime, Stamp
<1>5. InTheWheel'
  BY <1>2, <1>3 DEF InTheWheel, InSlot, Calm
<1>6. OutOfTheWheel'
  BY <1>3 DEF OutOfTheWheel, InSpokes, Calm, InTime, Stamp, Overtaken
<1>. QED
  BY <1>5, <1>6

\* A step of the driver does not touch the node that a call is about to file.
LEMMA StartingFrame ==
  ASSUME RaceTypes, Conserved, Starting, UNCHANGED call, tickTime' \in Nat, tickTime <= tickTime',
         \A e \in Events : ~Held(e) =>
           node'[e].expire = node[e].expire /\ node'[e].interval = node[e].interval
  PROVE  Starting'
<1>0. tickTime \in Nat /\ node \in [Events -> RaceNodes]
  BY DEF RaceTypes
<1>1. CASE call.at \notin {"add", "push"}
  BY <1>1 DEF Starting
<1>2. CASE call.at \in {"add", "push"}
  <2>1. PICK e \in Events : e = call.event
    BY <1>2 DEF RaceTypes, CallsUnder
  <2>2. ~Held(e)
    BY <1>2, <2>1 DEF Conserved, Entered
  <2>3. node'[e].expire = node[e].expire /\ node'[e].interval = node[e].interval
    BY <2>2
  <2>4. node[e].expire \in Nat /\ node[e].interval \in Nat
    BY <1>0 DEF RaceNodes
  <2>5. Stamp(e) <= tickTime /\ node[e].interval < Unit(6) /\ Stamp(e) \in Int
    BY <1>2, <2>1, <2>4 DEF Starting, Stamp
  <2>6. Stamp(e)' = Stamp(e) /\ Stamp(e)' <= tickTime'
    BY <1>0, <2>3, <2>5 DEF Stamp
  <2>7. ASSUME call.at = "push" PROVE \E turn \in Nat : Chosen(e, call.slot, turn)'
    <3>1. PICK turn \in Nat : Chosen(e, call.slot, turn)
      BY <2>1, <2>7 DEF Starting
    <3>2. call.slot \in SlotIds
      BY <2>7 DEF RaceTypes, CallsUnder
    <3>3. call.slot[1] + 1 \in 1..6
      BY <3>2, SlotLevel DEF Levels
    <3>4. PICK u \in Nat : u = Unit(call.slot[1] + 1)
      BY <3>3, UnitPositive
    <3>5. turn < tickTime' + u
      BY <1>0, <3>1, <3>4 DEF Chosen
    <3>6. turn <= node[e].expire \/ turn <= tickTime'
      BY <1>0, <3>1 DEF Chosen
    <3>7. tickTime' = Stamp(e) => tickTime' = tickTime
      BY <1>0, <2>5
    <3>. QED
      BY <2>3, <2>6, <3>1, <3>4, <3>5, <3>6, <3>7 DEF Chosen
  <2>. QED
    BY <2>1, <2>3, <2>5, <2>6, <2>7 DEF Starting
<1>. QED
  BY <1>1, <1>2

-----------------------------------------------------------------------------
\* The driver.

\* A slot that comes up in this tick is the slot of this tick.
LEMMA UpNow ==
  ASSUME NEW s \in SlotIds, NEW turn \in Nat, ComesUp(s, turn), NEW t \in Nat,
         Coming(s[1]) = t, Divides(s[1], t)
  PROVE  s = SlotOf(s[1], t) <=> turn = t
BY SlotLevel, OneTurn DEF ComesUp

\* The slot of level l is swapped out: its nodes are in time, and the others wait on.
LEMMA LateSwapsOut ==
  ASSUME RaceTypes, InTheWheel, NEW l \in Levels, NEW t \in Nat, Coming(l) = t, Divides(l, t), pc # "swap" \/ l = 1,
         slots' = [slots EXCEPT ![SlotOf(l, t)] = <<>>], spokes' = slots[SlotOf(l, t)],
         \A m \in Levels : m # l => Coming(m)' = Coming(m), Coming(l)' = t + 1, UNCHANGED <<filed, node>>
  PROVE  /\ \A s \in SlotIds, e \in Events : InSlot(e, s)' /\ filed[e] # NotFiled /\ ~filed[e].swapping => Waits(e, s)'
         /\ \A e \in Events : InSpokes(e)' /\ filed[e] # NotFiled /\ ~filed[e].swapping =>
              node[e].expire < t + Unit(l) /\ InTime(e, t)
         /\ \A s \in SlotIds, e \in Events : InSlot(e, s)' => InSlot(e, s) /\ s # SlotOf(l, t)
<1>1. PICK p \in SlotIds : p = SlotOf(l, t) /\ p[1] = l
  BY SlotOfType DEF SlotOf
<1>2. /\ \A s \in SlotIds, x \in Events : InSlot(x, s)' <=> InSlot(x, s) /\ s # p
      /\ \A x \in Events : InSpokes(x)' <=> InSlot(x, p)
  BY <1>1, SwapsOut DEF RaceTypes
<1>3. ASSUME NEW s \in SlotIds, s # p, NEW turn \in Nat, ComesUp(s, turn) PROVE ComesUp(s, turn)'
  <2>1. CASE s[1] # l
    BY <1>3, <2>1, SlotLevel, ComesUpSame
  <2>2. CASE s[1] = l
    <3>1. s # SlotOf(l, t) /\ turn # t
      BY <1>1, <1>3, <2>2, UpNow
    <3>2. PICK u \in Nat : u = Unit(l + 1)
      BY UnitNext
    <3>3. t <= turn /\ turn < t + u
      BY <1>3, <2>2, <3>2 DEF ComesUp
    <3>4. t + 1 <= turn /\ turn < t + 1 + u
      BY <3>1, <3>3
    <3>. QED
      BY <1>3, <2>2, <3>2, <3>4 DEF ComesUp
  <2>. QED
    BY <2>1, <2>2
<1>4. ASSUME NEW s \in SlotIds, NEW e \in Events, InSlot(e, s)', filed[e] # NotFiled, ~filed[e].swapping
      PROVE  Waits(e, s)'
  <2>1. Waits(e, s) /\ s # p
    BY <1>2, <1>4 DEF InTheWheel
  <2>. QED
    BY <1>3, <2>1, WaitsOn
<1>5. ASSUME NEW e \in Events, InSpokes(e)', filed[e] # NotFiled, ~filed[e].swapping
      PROVE  node[e].expire < t + Unit(l) /\ InTime(e, t)
  <2>1. Waits(e, p)
    BY <1>2, <1>5 DEF InTheWheel
  <2>2. PICK turn \in Nat : ComesUp(p, turn) /\ node[e].expire < turn + Unit(l) /\ InTime(e, turn)
    BY <1>1, <2>1 DEF Waits
  <2>3. turn = t
    BY <1>1, <2>2, UpNow
  <2>. QED
    BY <2>2, <2>3
<1>. QED
  BY <1>1, <1>2, <1>4, <1>5

\* Executes and Cascade go from one level to the next.
LEMMA LateCascades ==
  ASSUME RaceTypes, LateInv, BeginTick \/ CascadeNext, UNCHANGED race
  PROVE  InTheWheel' /\ OutOfTheWheel' /\ (pc' = "cascade" => level' > 1 /\ tickTime' = Turn(level', tickTime'))
<1>0. /\ tickTime \in Nat /\ level \in Levels /\ spokes = <<>> /\ DOMAIN spokes = {} /\ pc # "swap"
      /\ UNCHANGED <<node, tickTime, filed>> /\ InTheWheel
      /\ \A e \in Events : filed[e] # NotFiled => filed[e].swapping \in BOOLEAN
  BY DEF RaceTypes, LateInv, FiledAs, BeginTick, CascadeNext, maps, race
<1>n. \A s \in SlotIds, e \in Events : InSlot(e, s) /\ filed[e] # NotFiled => ~filed[e].swapping
  BY <1>0 DEF InTheWheel
<1>1. ASSUME NEW l \in Levels, Divides(l, tickTime), l > 1, level' = l, pc' = "cascade", ~Emptied(l),
             \A m \in Levels : m > 1 => (Emptied(m) <=> m < l),
             slots' = [slots EXCEPT ![SlotOf(l, tickTime)] = <<>>], spokes' = slots[SlotOf(l, tickTime)]
      PROVE  InTheWheel' /\ OutOfTheWheel' /\ level' > 1 /\ tickTime' = Turn(level', tickTime')
  <2>1. Coming(l) = tickTime /\ Coming(l)' = tickTime + 1 /\ \A m \in Levels : m # l => Coming(m)' = Coming(m)
    <3>1. \A m \in Levels : m # l => (Emptied(m)' <=> Emptied(m))
      BY <1>1 DEF Emptied, Levels
    <3>2. Emptied(l)'
      BY <1>1 DEF Emptied, Levels
    <3>. QED
      BY <1>0, <1>1, <3>1, <3>2 DEF Coming
  <2>2. /\ \A s \in SlotIds, e \in Events : InSlot(e, s)' /\ filed[e] # NotFiled /\ ~filed[e].swapping => Waits(e, s)'
        /\ \A e \in Events : InSpokes(e)' /\ filed[e] # NotFiled /\ ~filed[e].swapping =>
             node[e].expire < tickTime + Unit(l) /\ InTime(e, tickTime)
        /\ \A s \in SlotIds, e \in Events : InSlot(e, s)' => InSlot(e, s) /\ s # SlotOf(l, tickTime)
    BY <1>0, <1>1, <2>1, LateSwapsOut
  <2>3. InTheWheel'
    BY <1>0, <1>n, <2>2 DEF InTheWheel
  <2>4. SlotOf(l, tickTime) \in SlotIds /\ \A e \in Events : InSpokes(e)' <=> InSlot(e, SlotOf(l, tickTime))
    BY <1>0, <1>1, SlotOfType, SwapsOut DEF RaceTypes
  <2>5. OutOfTheWheel'
    <3> SUFFICES ASSUME NEW e \in Events, InSpokes(e)', filed[e] # NotFiled
                 PROVE  ~filed[e].swapping /\ node[e].expire < tickTime + Unit(l) /\ InTime(e, tickTime)'
      BY <1>0, <1>1 DEF OutOfTheWheel
    <3>1. ~filed[e].swapping
      BY <1>n, <2>4
    <3>2. node[e].expire < tickTime + Unit(l) /\ InTime(e, tickTime)
      BY <2>2, <3>1
    <3>. QED
      BY <1>0, <3>1, <3>2 DEF InTime, Stamp
  <2>6. tickTime = Turn(l, tickTime)
    <3>1. l \in 1..6
      BY DEF Levels
    <3>. QED
      BY <1>0, <1>1, <3>1, TurnOfTurn
  <2>. QED
    BY <1>0, <1>1, <2>3, <2>5, <2>6
<1>2. ASSUME pc' = "advance", UNCHANGED <<slots, spokes>>,
             \A m \in Levels : m > 1 => Emptied(m) \/ ~Divides(m, tickTime)
      PROVE  InTheWheel' /\ OutOfTheWheel'
  <2>1. ASSUME NEW s \in SlotIds, NEW turn \in Nat, ComesUp(s, turn) PROVE ComesUp(s, turn)'
    <3>1. s[1] \in Levels /\ s[1] \in 1..6
      BY SlotLevel DEF Levels
    <3>2. CASE s[1] = 1 \/ Emptied(s[1])
      <4>1. Coming(s[1])' = Coming(s[1])
        BY <1>0, <1>2, <3>2 DEF Coming, Emptied
      <4>. QED
        BY <2>1, <4>1, ComesUpSame
    <3>3. CASE s[1] > 1 /\ ~Emptied(s[1])
      <4>1. Coming(s[1]) = tickTime /\ Coming(s[1])' = tickTime + 1
        BY <1>0, <1>2, <3>3 DEF Coming, Emptied
      <4>2. turn # tickTime
        BY <1>0, <1>2, <2>1, <3>1, <3>3, TurnOfTurn DEF ComesUp
      <4>3. PICK u \in Nat : u = Unit(s[1] + 1)
        BY <3>1, UnitNext
      <4>4. tickTime + 1 <= turn /\ turn < tickTime + 1 + u
        BY <1>0, <2>1, <4>1, <4>2, <4>3 DEF ComesUp
      <4>. QED
        BY <2>1, <4>1, <4>3, <4>4 DEF ComesUp
    <3>. QED
      BY <3>1, <3>2, <3>3 DEF Levels
  <2>2. InTheWheel'
    <3> SUFFICES ASSUME NEW s \in SlotIds, NEW e \in Events, InSlot(e, s)', filed[e] # NotFiled
                 PROVE  ~filed[e].swapping /\ Waits(e, s)'
      BY <1>0 DEF InTheWheel
    <3>1. InSlot(e, s)
      BY <1>2 DEF InSlot
    <3>2. filed[e] # NotFiled /\ ~filed[e].swapping
      BY <1>0, <1>n, <3>1
    <3>3. Waits(e, s)
      BY <1>0, <3>1, <3>2 DEF InTheWheel
    <3>. QED
      BY <1>0, <2>1, <3>2, <3>3, WaitsOn
  <2>3. OutOfTheWheel'
    BY <1>0, <1>2 DEF OutOfTheWheel, InSpokes
  <2>. QED
    BY <2>2, <2>3
<1>3. CASE BeginTick
  <2>0. \A m \in Levels : ~Emptied(m)
    BY <1>3 DEF BeginTick, Emptied
  <2>1. CASE tickTime % NearSize = 0
    <3>1. Divides(2, tickTime)
      BY <1>0, <2>1, NearZero
    <3>2. /\ level' = 2 /\ pc' = "cascade" /\ slots' = [slots EXCEPT ![SlotOf(2, tickTime)] = <<>>]
          /\ spokes' = slots[SlotOf(2, tickTime)]
      BY <1>3, <2>1, Zenon DEF BeginTick
    <3>3. 2 \in Levels /\ 2 > 1 /\ \A m \in Levels : m > 1 => ~(m < 2)
      BY DEF Levels
    <3>4. \A m \in Levels : m > 1 => (Emptied(m) <=> m < 2)
      BY <2>0, <3>3
    <3>. QED
      BY <1>1, <2>0, <3>1, <3>2, <3>3, <3>4, Zenon
  <2>2. CASE tickTime % NearSize # 0
    <3>1. ~Divides(2, tickTime)
      BY <1>0, <2>2, NearZero
    <3>2. pc' = "advance" /\ UNCHANGED <<slots, spokes>>
      BY <1>3, <2>2 DEF BeginTick
    <3>3. ASSUME NEW m \in Levels, m > 1 PROVE ~Divides(m, tickTime)
      <4>1. 2 \in 1..6 /\ m \in 1..6 /\ 2 <= m
        BY <3>3 DEF Levels
      <4>. QED
        BY <1>0, <3>1, <4>1, DividesBelow
    <3>. QED
      BY <1>2, <3>2, <3>3
  <2>. QED
    BY <2>1, <2>2
<1>4. CASE CascadeNext
  <2>0. level > 1 /\ level \in 1..6 /\ pc = "cascade" /\ Divides(level, tickTime)
    <3>1. level > 1 /\ level \in 1..6 /\ pc = "cascade" /\ Turn(level, tickTime) = tickTime
      BY <1>0, <1>4 DEF CascadeNext, LateInv, Levels
    <3>. QED
      BY <1>0, <3>1, TurnOfTurn
  <2>1. SlotOf(level, tickTime)[2] = 0 <=> Divides(level + 1, tickTime)
    BY <1>0, <2>0, IndexZero
  <2>2. CASE SlotOf(level, tickTime)[2] = 0 /\ level < 5
    <3>1. level + 1 \in Levels /\ level + 1 > 1
      BY <2>0, <2>2 DEF Levels
    <3>2. /\ level' = level + 1 /\ pc' = "cascade" /\ slots' = [slots EXCEPT ![SlotOf(level + 1, tickTime)] = <<>>]
          /\ spokes' = slots[SlotOf(level + 1, tickTime)]
      BY <1>4, <2>0, <2>2, Zenon DEF CascadeNext
    <3>3. ~Emptied(level + 1) /\ \A m \in Levels : m > 1 => (Emptied(m) <=> m < level + 1)
      BY <2>0 DEF Levels, Emptied
    <3>. QED
      BY <1>1, <2>1, <2>2, <3>1, <3>2, <3>3
  <2>3. CASE ~(SlotOf(level, tickTime)[2] = 0 /\ level < 5)
    <3>1. pc' = "advance" /\ UNCHANGED <<slots, spokes>>
      BY <1>4, <2>3 DEF CascadeNext
    <3>2. ASSUME NEW m \in Levels, m > 1, ~Emptied(m) PROVE ~Divides(m, tickTime)
      <4>1. level + 1 \in 1..6 /\ m \in 1..6 /\ level + 1 <= m /\ level < 5
        BY <2>0, <3>2 DEF Levels, Emptied
      <4>2. ~Divides(level + 1, tickTime)
        BY <2>1, <2>3, <4>1
      <4>. QED
        BY <1>0, <4>1, <4>2, DividesBelow
    <3>. QED
      BY <1>2, <3>1, <3>2
  <2>. QED
    BY <2>2, <2>3
<1>. QED
  BY <1>3, <1>4

\* AddNode and Start find a slot that comes up in the tick that the node is due.
LEMMA PlaceComesUp ==
  ASSUME NEW x \in Nat, NEW t \in Nat, x < t + Unit(6)
  PROVE  \E s \in SlotIds, turn \in Nat :
           /\ s = Place(x, t) /\ turn = Turn(s[1], turn) /\ s = SlotOf(s[1], turn)
           /\ t <= turn /\ turn < t + Unit(s[1] + 1) /\ x < turn + Unit(s[1])
           /\ turn <= x \/ (turn = t /\ x < t)
           /\ s[1] > 1 => t < turn
<1>1. CASE x < t
  <2>1. 1 \in Levels /\ 1 \in 1..6 /\ Unit(1) = 1
    BY DEF Levels, Unit
  <2>2. PICK s \in SlotIds : s = SlotOf(1, t) /\ s[1] = 1
    BY <2>1, SlotOfType DEF SlotOf
  <2>3. Divides(1, t)
    <3>1. t = t * Unit(1)
      BY <2>1
    <3>. QED
      BY <3>1 DEF Divides
  <2>4. t = Turn(1, t) /\ Unit(1 + 1) \in Nat \ {0}
    BY <2>1, <2>3, TurnOfTurn, UnitNext
  <2>. QED
    BY <1>1, <2>1, <2>2, <2>4 DEF Place
<1>2. CASE t <= x
  <2>1. PICK l \in Levels :
          /\ Place(x, t) = SlotOf(l, x)
          /\ t <= Turn(l, x) /\ Turn(l, x) < t + Unit(l + 1)
          /\ l > 1 => t < Turn(l, x)
    BY <1>2, PlaceTurn
  <2>2. PICK s \in SlotIds : s = SlotOf(l, x) /\ s[1] = l
    BY <2>1, SlotOfType DEF SlotOf
  <2>3. l \in 1..6
    BY DEF Levels
  <2>4. PICK turn \in Nat : turn = Turn(l, x) /\ turn <= x /\ x < turn + Unit(l) /\ Divides(l, turn)
    BY <2>3, TurnBounds
  <2>5. turn = Turn(l, turn)
    BY <2>3, <2>4, TurnOfTurn
  <2>6. SlotOf(l, x) = SlotOf(l, turn)
    <3>1. PICK u \in Nat \ {0} : u = Unit(l + 1)
      BY UnitNext
    <3>2. turn <= turn /\ turn < turn + u
      BY <3>1
    <3>. QED
      BY <2>4, <3>1, <3>2, OneTurn
  <2>. QED
    BY <2>1, <2>2, <2>4, <2>5, <2>6
<1>. QED
  BY <1>1, <1>2

\* A node that stays in its slot.
LEMMA StaysIn ==
  ASSUME InTheWheel, \A l \in Levels : Coming(l)' = Coming(l), NEW e \in Events, NEW s \in SlotIds,
         InSlot(e, s), filed[e] # NotFiled, filed'[e] = filed[e],
         node'[e].expire = node[e].expire, node'[e].interval = node[e].interval,
         pc = "swap" => pc' = "swap" /\ tickTime' = tickTime
  PROVE  IF filed'[e].swapping THEN pc' = "swap" /\ s = SlotOf(1, tickTime' - 1) /\ Overtaken(e)'
         ELSE Waits(e, s)'
<1>1. CASE filed[e].swapping
  BY <1>1 DEF InTheWheel, Overtaken
<1>2. CASE ~filed[e].swapping
  <2>1. Waits(e, s)
    BY <1>2 DEF InTheWheel
  <2>2. \A turn \in Nat : ComesUp(s, turn) => ComesUp(s, turn)'
    BY SlotLevel, ComesUpSame
  <2>. QED
    BY <1>2, <2>1, <2>2, WaitsOn
<1>. QED
  BY <1>1, <1>2

\* A node is put into a slot.
LEMMA Files ==
  ASSUME RaceTypes, InTheWheel, \A l \in Levels : Coming(l)' = Coming(l), NEW p \in SlotIds, NEW e \in Events,
         slots' = [slots EXCEPT ![p] = Append(slots[p], e)], \A s \in SlotIds : ~InSlot(e, s),
         pc = "swap" => pc' = "swap" /\ tickTime' = tickTime,
         \A x \in Events : x # e => /\ filed'[x] = filed[x] /\ node'[x].expire = node[x].expire
                                    /\ node'[x].interval = node[x].interval,
         filed'[e] # NotFiled =>
           IF filed'[e].swapping THEN pc' = "swap" /\ p = SlotOf(1, tickTime' - 1) /\ Overtaken(e)'
           ELSE Waits(e, p)'
  PROVE  InTheWheel'
<1> SUFFICES ASSUME NEW s \in SlotIds, NEW x \in Events, InSlot(x, s)', filed'[x] # NotFiled
             PROVE  IF filed'[x].swapping THEN pc' = "swap" /\ s = SlotOf(1, tickTime' - 1) /\ Overtaken(x)'
                    ELSE Waits(x, s)'
  BY DEF InTheWheel
<1>1. InSlot(x, s) \/ (s = p /\ x = e)
  BY Appends DEF RaceTypes
<1>2. CASE x = e
  BY <1>1, <1>2
<1>3. CASE x # e
  BY <1>1, <1>3, StaysIn
<1>. QED
  BY <1>2, <1>3

\* Nodes leave spokes.
LEMMA Leaves ==
  ASSUME OutOfTheWheel, UNCHANGED <<tickTime, level>>, pc' = "cascade" <=> pc = "cascade",
         \A x \in Events : InSpokes(x)' /\ filed'[x] # NotFiled =>
           /\ InSpokes(x) /\ filed'[x] = filed[x]
           /\ node'[x].expire = node[x].expire /\ node'[x].interval = node[x].interval
  PROVE  OutOfTheWheel'
BY DEF OutOfTheWheel, Overtaken, InTime, Stamp

\* The first node of spokes is in no slot.
LEMMA HeadOut ==
  ASSUME RaceTypes, HeldOnce, spokes # <<>>
  PROVE  Head(spokes) \in Events /\ Held(Head(spokes)) /\ InSpokes(Head(spokes)) /\ \A s \in SlotIds : ~InSlot(Head(spokes), s)
<1>1. Head(spokes) \in Events /\ Head(spokes) = spokes[1] /\ 1 \in DOMAIN spokes
  BY TailElements DEF RaceTypes
<1>2. InSpokes(Head(spokes))
  BY <1>1 DEF InSpokes
<1>. QED
  BY <1>1, <1>2 DEF Held, HeldOnce, InSlot

\* Cascade puts a node where it comes up again before it is due, or at once.
LEMMA LateRefiles ==
  ASSUME RaceTypes, Conserved, LateInv, CascadeNode, UNCHANGED race
  PROVE  InTheWheel' /\ OutOfTheWheel'
<1>0. /\ InTheWheel /\ OutOfTheWheel /\ HeldOnce /\ tickTime \in Nat /\ level \in Levels
      /\ pc = "cascade" /\ pc' = "cascade" /\ spokes # <<>> /\ spokes' = Tail(spokes)
      /\ UNCHANGED <<node, tickTime, filed, level>> /\ node \in [Events -> RaceNodes]
  BY DEF RaceTypes, Conserved, LateInv, CascadeNode, maps, driver, race
<1>1. PICK e \in Events : e = Head(spokes) /\ InSpokes(e) /\ \A s \in SlotIds : ~InSlot(e, s)
  BY <1>0, HeadOut
<1>2. PICK x \in Nat : x = node[e].expire
  BY <1>0 DEF RaceNodes
<1>3. PICK p \in SlotIds : p = Place(x, tickTime)
  BY <1>0, PlaceType
<1>4. slots' = [slots EXCEPT ![p] = Append(slots[p], e)]
  BY <1>1, <1>2, <1>3 DEF CascadeNode, AddNode
<1>5. \A l \in Levels : Coming(l)' = Coming(l)
  BY <1>0 DEF Coming, Emptied
<1>6. ASSUME filed[e] # NotFiled PROVE ~filed[e].swapping /\ Waits(e, p)'
  <2>1. ~filed[e].swapping /\ x < tickTime + Unit(level) /\ InTime(e, tickTime)
    BY <1>0, <1>1, <1>2, <1>6 DEF OutOfTheWheel
  <2>2. x < tickTime + Unit(6)
    <3>1. level \in 1..6
      BY <1>0 DEF Levels
    <3>2. PICK u \in Nat, v \in Nat : u = Unit(level) /\ v = Unit(6) /\ u <= v
      BY <3>1, UnitLargest
    <3>. QED
      BY <1>0, <2>1, <3>2
  <2>3. PICK turn \in Nat :
          /\ turn = Turn(p[1], turn) /\ p = SlotOf(p[1], turn)
          /\ tickTime <= turn /\ turn < tickTime + Unit(p[1] + 1) /\ x < turn + Unit(p[1])
          /\ turn <= x \/ (turn = tickTime /\ x < tickTime)
          /\ p[1] > 1 => tickTime < turn
    BY <1>0, <1>3, <2>2, PlaceComesUp
  <2>4. PICK u \in Nat, n \in Nat : u = Unit(p[1] + 1) /\ n = Size(p[1]) * Unit(p[1])
    <3>1. p[1] \in Levels
      BY SlotLevel
    <3>. QED
      BY <3>1, UnitNext
  <2>5. ComesUp(p, turn)
    <3>1. CASE Emptied(p[1])
      <4>1. p[1] > 1
        BY <3>1 DEF Emptied
      <4>2. tickTime + 1 <= turn /\ turn < tickTime + 1 + u
        BY <1>0, <2>3, <2>4, <4>1
      <4>. QED
        BY <2>3, <2>4, <3>1, <4>2 DEF ComesUp, Coming
    <3>2. CASE ~Emptied(p[1])
      BY <1>0, <2>3, <3>2 DEF ComesUp, Coming
    <3>. QED
      BY <3>1, <3>2
  <2>6. InTime(e, turn)
    <3>1. CASE turn = tickTime
      BY <2>1, <3>1
    <3>2. CASE turn <= x
      <4>1. PICK f \in FiledAs : f = filed[e]
        BY <1>6 DEF LateInv
      <4>2. f.level \in Levels /\ f.tick \in Nat
        BY <4>1 DEF FiledAs
      <4>3. PICK m \in Nat : m = Size(f.level) * Unit(f.level)
        BY <4>2, UnitNext
      <4>4. turn <= (IF f.tick > x THEN f.tick ELSE x) + m
        BY <3>2, <4>2, <4>3
      <4>. QED
        BY <1>2, <3>2, <4>1, <4>3, <4>4 DEF InTime
    <3>. QED
      BY <2>3, <3>1, <3>2
  <2>7. Waits(e, p)
    BY <1>2, <2>3, <2>5, <2>6 DEF Waits
  <2>8. \A t \in Nat : ComesUp(p, t) => ComesUp(p, t)'
    BY <1>5, SlotLevel, ComesUpSame
  <2>. QED
    BY <1>0, <2>1, <2>7, <2>8, WaitsOn
<1>7. InTheWheel'
  BY <1>0, <1>1, <1>4, <1>5, <1>6, Files
<1>8. OutOfTheWheel'
  <2>1. \A y \in Events : InSpokes(y)' => InSpokes(y)
    BY <1>0, LeavesSpokes DEF RaceTypes
  <2>. QED
    BY <1>0, <2>1, Leaves
<1>. QED
  BY <1>7, <1>8

\* Executes files the node that has fired: it is not the one that Start filed any more.
LEMMA LateRequeues ==
  ASSUME RaceTypes, Conserved, LateInv, Requeue, UNCHANGED race, pc' # "crashed"
  PROVE  InTheWheel' /\ OutOfTheWheel'
<1>0. /\ InTheWheel /\ OutOfTheWheel /\ HeldOnce /\ tickTime \in Nat
      /\ pc = "requeue" /\ pc' = "serve" /\ spokes # <<>> /\ spokes' = Tail(spokes)
      /\ UNCHANGED <<tickTime, filed, level>> /\ node \in [Events -> RaceNodes]
      /\ filed[Head(spokes)] = NotFiled
      /\ node' = [node EXCEPT ![Head(spokes)].expire = RevisedExpire(node[Head(spokes)])]
      /\ slots' = AddNode(slots, Head(spokes), RevisedExpire(node[Head(spokes)]))
      /\ ~(Late(node[Head(spokes)]) > node[Head(spokes)].interval /\ node[Head(spokes)].interval = 0)
  BY DEF RaceTypes, Conserved, LateInv, Requeue, maps, driver, race, Firing
<1>1. PICK e \in Events : e = Head(spokes) /\ \A s \in SlotIds : ~InSlot(e, s)
  BY <1>0, HeadOut
<1>2. PICK x \in Nat : x = RevisedExpire(node[e])
  <2>1. node[e].expire \in Nat /\ node[e].interval \in Nat
    BY <1>0 DEF RaceNodes
  <2>. QED
    BY <1>0, <1>1, <2>1, RevisedType
<1>3. PICK p \in SlotIds : p = Place(x, tickTime)
  BY <1>0, PlaceType
<1>4. slots' = [slots EXCEPT ![p] = Append(slots[p], e)]
  BY <1>0, <1>1, <1>2, <1>3 DEF AddNode
<1>5. \A l \in Levels : Coming(l)' = Coming(l)
  BY <1>0 DEF Coming, Emptied
<1>6. \A y \in Events : y # e => node'[y] = node[y]
  BY <1>0, <1>1
<1>7. InTheWheel'
  BY <1>0, <1>1, <1>4, <1>5, <1>6, Files
<1>8. OutOfTheWheel'
  <2>1. \A y \in Events : InSpokes(y)' => InSpokes(y)
    BY <1>0, LeavesSpokes DEF RaceTypes
  <2>. QED
    BY <1>0, <1>1, <1>6, <2>1, Leaves
<1>. QED
  BY <1>7, <1>8

\* The increment brings no slot nearer: the near slot of the tick is still to be swapped out.
LEMMA LateCounts ==
  ASSUME RaceTypes, LateInv, Count
  PROVE  InTheWheel' /\ OutOfTheWheel'
<1>0. /\ InTheWheel /\ tickTime \in Nat /\ pc = "advance" /\ pc' = "swap" /\ tickTime' = tickTime + 1
      /\ spokes = <<>> /\ DOMAIN spokes' = {} /\ UNCHANGED <<slots, node, filed>>
  BY DEF RaceTypes, LateInv, Count, maps, race
<1>1. \A l \in Levels : Coming(l)' = Coming(l)
  <2> SUFFICES ASSUME NEW l \in Levels PROVE Coming(l)' = Coming(l)
    OBVIOUS
  <2>1. CASE l = 1
    BY <1>0, <2>1 DEF Coming, Emptied
  <2>2. CASE l > 1
    BY <1>0, <2>2 DEF Coming, Emptied
  <2>. QED
    BY <2>1, <2>2 DEF Levels
<1>2. InTheWheel'
  <2> SUFFICES ASSUME NEW s \in SlotIds, NEW x \in Events, InSlot(x, s)', filed'[x] # NotFiled
               PROVE  IF filed'[x].swapping THEN pc' = "swap" /\ s = SlotOf(1, tickTime' - 1) /\ Overtaken(x)'
                      ELSE Waits(x, s)'
    BY DEF InTheWheel
  <2>1. InSlot(x, s)
    BY <1>0 DEF InSlot
  <2>. QED
    BY <1>0, <1>1, <2>1, StaysIn
<1>. QED
  BY <1>0, <1>2 DEF OutOfTheWheel, InSpokes

\* The near slot is swapped out, with the nodes that were pushed since the increment.
LEMMA LateSwaps ==
  ASSUME RaceTypes, LateInv, Swap
  PROVE  InTheWheel' /\ OutOfTheWheel'
<1>0. /\ InTheWheel /\ tickTime \in Nat /\ tickTime > 0 /\ pc = "swap" /\ pc' = "serve"
      /\ slots' = [slots EXCEPT ![SlotOf(1, tickTime - 1)] = <<>>] /\ spokes' = slots[SlotOf(1, tickTime - 1)]
      /\ UNCHANGED <<node, filed, tickTime>> /\ 1 \in Levels
  BY DEF RaceTypes, LateInv, Swap, maps, race, Levels
<1>1. PICK t \in Nat : t = tickTime - 1 /\ tickTime = t + 1
  <2>1. tickTime - 1 \in Nat /\ tickTime = (tickTime - 1) + 1
    BY <1>0
  <2>. QED
    BY <2>1
<1>2. Coming(1) = t /\ Coming(1)' = t + 1 /\ \A m \in Levels : m # 1 => Coming(m)' = Coming(m)
  BY <1>0, <1>1 DEF Coming, Emptied
<1>3. Divides(1, t)
  <2>1. t = t * Unit(1)
    BY DEF Unit
  <2>. QED
    BY <2>1 DEF Divides
<1>4. /\ \A s \in SlotIds, e \in Events : InSlot(e, s)' /\ filed[e] # NotFiled /\ ~filed[e].swapping => Waits(e, s)'
      /\ \A e \in Events : InSpokes(e)' /\ filed[e] # NotFiled /\ ~filed[e].swapping =>
           node[e].expire < t + Unit(1) /\ InTime(e, t)
      /\ \A s \in SlotIds, e \in Events : InSlot(e, s)' => InSlot(e, s) /\ s # SlotOf(1, t)
  BY <1>0, <1>1, <1>2, <1>3, LateSwapsOut
<1>5. InTheWheel'
  <2> SUFFICES ASSUME NEW s \in SlotIds, NEW e \in Events, InSlot(e, s)', filed[e] # NotFiled
               PROVE  ~filed[e].swapping /\ Waits(e, s)'
    BY <1>0 DEF InTheWheel
  <2>1. InSlot(e, s) /\ s # SlotOf(1, tickTime - 1)
    BY <1>1, <1>4
  <2>2. ~filed[e].swapping
    BY <1>0, <2>1 DEF InTheWheel
  <2>. QED
    BY <1>4, <2>2
<1>6. OutOfTheWheel'
  <2> SUFFICES ASSUME NEW e \in Events, InSpokes(e)', filed[e] # NotFiled
               PROVE  IF filed[e].swapping THEN Overtaken(e) ELSE node[e].expire <= tickTime - 1 /\ InTime(e, tickTime - 1)
    BY <1>0 DEF OutOfTheWheel, Overtaken, InTime, Stamp
  <2>1. CASE filed[e].swapping
    <3>1. PICK p \in SlotIds : p = SlotOf(1, t)
      BY <1>0, SlotOfType
    <3>2. InSlot(e, p)
      BY <1>0, <1>1, <3>1, SwapsOut DEF RaceTypes
    <3>. QED
      BY <1>0, <2>1, <3>2 DEF InTheWheel
  <2>2. CASE ~filed[e].swapping
    <3>1. node[e].expire < t + 1 /\ InTime(e, t)
      BY <1>4, <2>2 DEF Unit
    <3>2. node[e].expire \in Nat
      BY DEF RaceTypes, RaceNodes
    <3>. QED
      BY <1>1, <2>2, <3>1, <3>2
  <2>. QED
    BY <2>1, <2>2
<1>. QED
  BY <1>5, <1>6

\* A node that is dropped or fires is not the one that Start filed any more.
LEMMA LateServes ==
  ASSUME RaceTypes, Conserved, LateInv, Drop \/ Serve
  PROVE  InTheWheel' /\ OutOfTheWheel'
<1>0. /\ InTheWheel /\ OutOfTheWheel /\ HeldOnce /\ spokes # <<>> /\ spokes \in Seq(Events)
      /\ pc = "serve" /\ pc' \in Calm /\ UNCHANGED <<slots, tickTime, level>>
      /\ filed' = [filed EXCEPT ![Head(spokes)] = NotFiled] /\ node \in [Events -> RaceNodes]
      /\ filed \in [Events -> {NotFiled} \union FiledAs]
      /\ spokes' = spokes \/ spokes' = Tail(spokes)
  BY DEF RaceTypes, Conserved, LateInv, Drop, DropInvalid, Serve, Trigger, Calm, driver
<1>1. PICK h \in Events : h = Head(spokes)
  BY <1>0, HeadOut
<1>2. \A x \in Events : x # h => node'[x] = node[x] /\ filed'[x] = filed[x]
  BY <1>0, <1>1 DEF Drop, DropInvalid, Serve, Trigger
<1>3. filed'[h] = NotFiled
  BY <1>0, <1>1
<1>4. \A l \in Levels : Coming(l)' = Coming(l)
  BY <1>0 DEF Coming, Emptied, Calm
<1>5. InTheWheel'
  <2> SUFFICES ASSUME NEW s \in SlotIds, NEW x \in Events, InSlot(x, s)', filed'[x] # NotFiled
               PROVE  IF filed'[x].swapping THEN pc' = "swap" /\ s = SlotOf(1, tickTime' - 1) /\ Overtaken(x)'
                      ELSE Waits(x, s)'
    BY DEF InTheWheel
  <2>1. InSlot(x, s) /\ x # h
    BY <1>0, <1>3 DEF InSlot
  <2>. QED
    BY <1>0, <1>2, <1>4, <2>1, StaysIn
<1>6. OutOfTheWheel'
  <2>1. \A x \in Events : InSpokes(x)' => InSpokes(x)
    BY <1>0, LeavesSpokes DEF InSpokes
  <2>. QED
    BY <1>0, <1>2, <1>3, <2>1, Leaves DEF Calm
<1>. QED
  BY <1>5, <1>6

\* The driver touches no node but the first of spokes, and time does not go back.
LEMMA DriverTouches ==
  ASSUME RaceTypes, Conserved, DriverStep
  PROVE  /\ UNCHANGED call /\ tickTime' \in Nat /\ tickTime <= tickTime'
         /\ \A e \in Events : ~Held(e) => node'[e] = node[e]
<1>0. tickTime \in Nat /\ HeldOnce /\ node \in [Events -> RaceNodes]
  BY DEF RaceTypes, Conserved
<1>1. spokes # <<>> => Held(Head(spokes)) /\ Head(spokes) \in Events
  BY <1>0, HeadOut
<1>2. ASSUME UNCHANGED <<tickTime, call, node>>
      PROVE  /\ UNCHANGED call /\ tickTime' \in Nat /\ tickTime <= tickTime'
             /\ \A e \in Events : ~Held(e) => node'[e] = node[e]
  BY <1>0, <1>2
<1>3. ASSUME UNCHANGED <<tickTime, call>>, spokes # <<>>,
             \A e \in Events : e # Head(spokes) => node'[e] = node[e]
      PROVE  /\ UNCHANGED call /\ tickTime' \in Nat /\ tickTime <= tickTime'
             /\ \A e \in Events : ~Held(e) => node'[e] = node[e]
  BY <1>0, <1>1, <1>3
<1>4. CASE (Update \/ UpdateDone \/ BeginTick \/ CascadeNext \/ TickDone \/ AfterStop) /\ UNCHANGED race
  BY <1>2, <1>4 DEF Update, UpdateDone, BeginTick, CascadeNext, TickDone, AfterStop, race
<1>5. CASE CascadeNode /\ UNCHANGED race
  BY <1>2, <1>5 DEF CascadeNode, race
<1>6. CASE Swap
  BY <1>2, <1>6 DEF Swap, race
<1>7. CASE Count
  BY <1>0, <1>7 DEF Count, race
<1>8. CASE AfterTrigger /\ UNCHANGED race
  <2>1. spokes # <<>>
    BY <1>8 DEF AfterTrigger, RaceTypes
  <2>2. UNCHANGED <<tickTime, call>> /\ \A e \in Events : e # Head(spokes) => node'[e] = node[e]
    BY <1>0, <1>8 DEF AfterTrigger, race
  <2>. QED
    BY <1>3, <2>1, <2>2
<1>9. CASE Requeue /\ UNCHANGED race
  <2>1. spokes # <<>>
    BY <1>9 DEF Requeue, RaceTypes
  <2>2. UNCHANGED <<tickTime, call>> /\ \A e \in Events : e # Head(spokes) => node'[e] = node[e]
    BY <1>0, <1>9 DEF Requeue, race
  <2>. QED
    BY <1>3, <2>1, <2>2
<1>10. CASE Drop \/ Serve
  <2>1. spokes # <<>>
    BY <1>10 DEF Drop, DropInvalid, Serve, Trigger
  <2>2. UNCHANGED <<tickTime, call>> /\ \A e \in Events : e # Head(spokes) => node'[e] = node[e]
    BY <1>0, <1>10 DEF Drop, DropInvalid, Serve, Trigger
  <2>. QED
    BY <1>3, <2>1, <2>2
<1>. QED
  BY <1>4, <1>5, <1>6, <1>7, <1>8, <1>9, <1>10 DEF DriverStep

\* Every step of the driver keeps the invariant.
LEMMA LateDriver ==
  ASSUME RaceTypes, Conserved, LateInv, DriverStep, pc' # "crashed"
  PROVE  LateInv'
<1>0. /\ InTheWheel /\ OutOfTheWheel /\ Starting /\ filed \in [Events -> {NotFiled} \union FiledAs]
      /\ node \in [Events -> RaceNodes]
      /\ pc \in Firing => filed[Head(spokes)] = NotFiled
      /\ pc = "cascade" => level > 1 /\ tickTime = Turn(level, tickTime)
      /\ spokes # <<>> => Head(spokes) \in Events
  BY HeadOut DEF LateInv, RaceTypes, Conserved
<1>1. Starting'
  BY <1>0, DriverTouches, StartingFrame
<1>2. filed' \in [Events -> {NotFiled} \union FiledAs]
  BY <1>0 DEF DriverStep, Count, Swap, Drop, Serve, race
<1>3. ASSUME InTheWheel' /\ OutOfTheWheel', pc' \in Firing => filed'[Head(spokes')] = NotFiled,
             pc' = "cascade" => level' > 1 /\ tickTime' = Turn(level', tickTime')
      PROVE  LateInv'
  BY <1>1, <1>2, <1>3, Zenon DEF LateInv
<1>4. CASE (Update \/ UpdateDone \/ TickDone \/ AfterStop \/ AfterTrigger) /\ UNCHANGED race
  <2>1. UNCHANGED <<slots, spokes, filed, tickTime>> /\ pc \in Calm /\ pc' \in Calm
    BY <1>4 DEF Update, UpdateDone, TickDone, AfterStop, AfterTrigger, race, driver, Calm
  <2>2. pc' \in Firing => pc \in Firing
    BY <1>4 DEF Update, UpdateDone, TickDone, AfterStop, AfterTrigger, Firing
  <2>3. \A e \in Events : node'[e].expire = node[e].expire /\ node'[e].interval = node[e].interval
    <3>1. CASE UNCHANGED node
      BY <3>1
    <3>2. CASE AfterTrigger
      <4>1. PICK h \in Events : h = Head(spokes)
        BY <1>0, <3>2 DEF AfterTrigger, RaceTypes
      <4>2. PICK n \in RaceNodes : n = node[h]
        BY <1>0
      <4>3. \/ node' = [node EXCEPT ![h] = [n EXCEPT !.count = n.count - 1]]
            \/ node' = [node EXCEPT ![h] = [n EXCEPT !.count = 0, !.isValid = FALSE]]
        BY <3>2, <4>1, <4>2, Zenon DEF AfterTrigger
      <4>4. /\ [n EXCEPT !.count = n.count - 1].expire = n.expire
            /\ [n EXCEPT !.count = n.count - 1].interval = n.interval
            /\ [n EXCEPT !.count = 0, !.isValid = FALSE].expire = n.expire
            /\ [n EXCEPT !.count = 0, !.isValid = FALSE].interval = n.interval
        BY DEF RaceNodes
      <4>. QED
        BY <1>0, <4>2, <4>3, <4>4
    <3>. QED
      BY <1>4, <3>1, <3>2 DEF Update, UpdateDone, TickDone, AfterStop
  <2>4. InTheWheel' /\ OutOfTheWheel'
    BY <1>0, <2>1, <2>3, LateFrame
  <2>5. pc' # "cascade"
    BY <2>1 DEF Calm
  <2>. QED
    BY <1>0, <1>3, <2>1, <2>2, <2>4, <2>5
<1>5. CASE (BeginTick \/ CascadeNext) /\ UNCHANGED race
  <2>1. pc' \notin Firing
    BY <1>5 DEF BeginTick, CascadeNext, Firing
  <2>. QED
    BY <1>3, <1>5, <2>1, LateCascades
<1>6. CASE CascadeNode /\ UNCHANGED race
  <2>1. pc = "cascade" /\ pc' = "cascade" /\ pc' \notin Firing /\ UNCHANGED <<level, tickTime>>
    BY <1>6 DEF CascadeNode, Firing, driver
  <2>. QED
    BY <1>0, <1>3, <1>6, <2>1, LateRefiles DEF Turn
<1>7. CASE Requeue /\ UNCHANGED race
  <2>1. pc' \notin Firing /\ pc' # "cascade"
    BY <1>7 DEF Requeue, Firing
  <2>. QED
    BY <1>3, <1>7, <2>1, LateRequeues
<1>8. CASE Count
  <2>1. pc' \notin Firing /\ pc' # "cascade"
    BY <1>8 DEF Count, Firing
  <2>. QED
    BY <1>3, <1>8, <2>1, LateCounts
<1>9. CASE Swap
  <2>1. pc' \notin Firing /\ pc' # "cascade"
    BY <1>9 DEF Swap, Firing
  <2>. QED
    BY <1>3, <1>9, <2>1, LateSwaps
<1>10. CASE Drop
  <2>1. pc' \notin Firing /\ pc' # "cascade"
    BY <1>10 DEF Drop, DropInvalid, Firing
  <2>. QED
    BY <1>3, <1>10, <2>1, LateServes
<1>11. CASE Serve
  <2>1. pc' # "cascade" /\ spokes # <<>> /\ spokes' = spokes /\ filed' = [filed EXCEPT ![Head(spokes)] = NotFiled]
    BY <1>11 DEF Serve, Trigger
  <2>. QED
    BY <1>0, <1>3, <1>11, <2>1, LateServes
<1>. QED
  BY <1>4, <1>5, <1>6, <1>7, <1>8, <1>9, <1>10, <1>11 DEF DriverStep

-----------------------------------------------------------------------------
\* The client.

\* A step of a call that files nothing.
LEMMA LateCall ==
  ASSUME LateInv, UNCHANGED <<slots, spokes, filed, tickTime, pc, level>>, Starting',
         \A e \in Events : Held(e) =>
           node'[e].expire = node[e].expire /\ node'[e].interval = node[e].interval
  PROVE  LateInv'
<1>0. InTheWheel /\ OutOfTheWheel
  BY DEF LateInv
<1>1. \A l \in Levels : Coming(l)' = Coming(l)
  BY DEF Coming, Emptied
<1>2. InTheWheel'
  <2> SUFFICES ASSUME NEW s \in SlotIds, NEW x \in Events, InSlot(x, s)', filed'[x] # NotFiled
               PROVE  IF filed'[x].swapping THEN pc' = "swap" /\ s = SlotOf(1, tickTime' - 1) /\ Overtaken(x)'
                      ELSE Waits(x, s)'
    BY DEF InTheWheel
  <2>1. InSlot(x, s)
    BY DEF InSlot
  <2>2. Held(x)
    BY <2>1 DEF Held
  <2>. QED
    BY <1>0, <1>1, <2>1, <2>2, StaysIn
<1>3. OutOfTheWheel'
  <2>1. \A x \in Events : InSpokes(x)' => InSpokes(x) /\ Held(x)
    BY DEF InSpokes, Held
  <2>. QED
    BY <1>0, <2>1, Leaves
<1>. QED
  BY <1>2, <1>3 DEF LateInv, Turn

\* Start reads the clock once: the node is new.
LEMMA LateStarts ==
  ASSUME RaceTypes, Conserved, LateInv, NEW e \in Events, NEW c \in Counts, NEW i \in Intervals, StartCall(e, c, i)
  PROVE  LateInv'
<1>0. /\ call = Idle /\ e \notin manager /\ i < Unit(6) /\ i \in Nat /\ tickTime \in Nat
      /\ node \in [Events -> RaceNodes] /\ node' = [node EXCEPT ![e] = NewNode(c, i)]
      /\ call' = [at |-> "add", event |-> e]
      /\ UNCHANGED <<slots, spokes, filed, tickTime, pc, level>>
  BY InputAssumption DEF RaceTypes, StartCall, maps, driver
<1>1. ~Held(e)
  BY <1>0 DEF Conserved, Entered, Idle
<1>2. node'[e].expire = tickTime + i /\ node'[e].interval = i
  BY <1>0 DEF NewNode
<1>3. Stamp(e)' = tickTime
  BY <1>0, <1>2 DEF Stamp
<1>4. Starting'
  BY <1>0, <1>2, <1>3 DEF Starting
<1>5. \A x \in Events : Held(x) => node'[x] = node[x]
  BY <1>0, <1>1
<1>. QED
  BY <1>0, <1>4, <1>5, LateCall

\* Start reads the clock again, which may have gone on.
LEMMA LateChooses ==
  ASSUME RaceTypes, Conserved, LateInv, Choose
  PROVE  LateInv'
<1>0. /\ Starting /\ tickTime \in Nat /\ node \in [Events -> RaceNodes] /\ call.at = "add"
      /\ UNCHANGED <<slots, spokes, filed, tickTime, pc, level, node>>
  BY DEF RaceTypes, LateInv, Choose, vars, maps, driver
<1>1. PICK e \in Events : e = call.event
  BY <1>0 DEF RaceTypes, CallsUnder
<1>2. PICK x \in Nat, i \in Nat : x = node[e].expire /\ i = node[e].interval
  BY <1>0 DEF RaceNodes
<1>3. x - i <= tickTime /\ i < Unit(6) /\ Stamp(e) = x - i
  BY <1>0, <1>1, <1>2 DEF Starting, Stamp
<1>4. x < tickTime + Unit(6)
  <2>1. PICK u \in Nat : u = Unit(6)
    BY UnitPositive
  <2>. QED
    BY <1>0, <1>3, <2>1
<1>5. PICK p \in SlotIds, turn \in Nat :
        /\ p = Place(x, tickTime) /\ turn = Turn(p[1], turn) /\ p = SlotOf(p[1], turn)
        /\ tickTime <= turn /\ turn < tickTime + Unit(p[1] + 1) /\ x < turn + Unit(p[1])
        /\ turn <= x \/ (turn = tickTime /\ x < tickTime)
        /\ p[1] > 1 => tickTime < turn
  BY <1>0, <1>4, PlaceComesUp
<1>6. call' = [at |-> "push", event |-> e, slot |-> p]
  BY <1>1, <1>2, <1>5 DEF Choose
<1>7. Chosen(e, p, turn)
  <2>1. turn <= x \/ turn <= tickTime
    BY <1>0, <1>5
  <2>2. tickTime = x - i => turn <= x
    BY <1>0, <1>2, <1>5
  <2>. QED
    BY <1>0, <1>2, <1>3, <1>5, <2>1, <2>2 DEF Chosen
<1>8. Chosen(e, p, turn)' /\ Stamp(e)' <= tickTime' /\ node'[e].interval < Unit(6)
  BY <1>0, <1>2, <1>3, <1>7 DEF Chosen, Stamp
<1>9. Starting'
  BY <1>5, <1>6, <1>8 DEF Starting
<1>. QED
  BY <1>0, <1>9, LateCall

\* The push that meets the swap of the near slot: the node leaves the wheel at once.
LEMMA PushMeets ==
  ASSUME NEW e \in Events, tickTime \in Nat, tickTime > 0, node[e].expire \in Nat, NEW turn \in Nat,
         Chosen(e, SlotOf(1, tickTime - 1), turn)
  PROVE  Overtaken(e)
<1>1. PICK t \in Nat, x \in Nat, N \in Nat : t = tickTime - 1 /\ x = node[e].expire /\ N = NearSize /\ N >= 2 /\ tickTime = t + 1
  <2>1. tickTime - 1 \in Nat /\ tickTime = (tickTime - 1) + 1
    OBVIOUS
  <2>. QED
    BY <2>1, SizeAssumption
<1>2. Unit(1) = 1 /\ Unit(1 + 1) = N /\ Size(1) = N /\ 1 \in Levels
  BY <1>1 DEF Unit, Size, Levels
<1>3. /\ SlotOf(1, t) = SlotOf(1, turn) /\ turn < tickTime + N /\ x < turn + 1
      /\ turn <= x \/ turn <= tickTime
  <2>1. SlotOf(1, t)[1] = 1
    BY DEF SlotOf
  <2>. QED
    BY <1>1, <1>2, <2>1 DEF Chosen
<1>4. t % N = turn % N
  <2>1. t \div 1 = t /\ turn \div 1 = turn
    BY SMT
  <2>. QED
    BY <1>2, <1>3, <2>1 DEF SlotOf
<1>5. N \in Nat \ {0}
  BY <1>1
<1>6. t <= turn /\ turn < t + N => turn = t
  BY <1>4, <1>5, SameRemainder
<1>. QED
  BY <1>1, <1>3, <1>6 DEF Overtaken

\* Any other push: the slot comes up in the tick that was chosen, if the driver has not swapped it
\* out for that tick yet, and else once more before a round is over.
LEMMA PushWaits ==
  ASSUME RaceTypes, NEW e \in Events, NEW p \in SlotIds, NEW turn \in Nat, Chosen(e, p, turn),
         pc = "swap" => p # SlotOf(1, tickTime - 1),
         filed'[e].tick = tickTime, filed'[e].level = p[1], UNCHANGED <<tickTime, pc, level, node>>
  PROVE  Waits(e, p)'
<1>0. tickTime \in Nat /\ p[1] \in Levels /\ (pc = "swap" => tickTime > 0) /\ node[e] \in RaceNodes
  BY SlotLevel DEF RaceTypes
<1>1. PICK l \in Levels : l = p[1]
  BY <1>0
<1>2. PICK u \in Nat \ {0}, n \in Nat \ {0}, round \in Nat \ {0} :
        u = Unit(l) /\ n = Size(l) /\ round = Unit(l + 1) /\ round = u * n
  BY UnitNext
<1>3. PICK x \in Nat, i \in Nat : x = node[e].expire /\ i = node[e].interval
  BY <1>0 DEF RaceNodes
<1>4. /\ turn = Turn(l, turn) /\ p = SlotOf(l, turn) /\ turn < tickTime + round /\ x < turn + u
      /\ turn <= x \/ turn <= tickTime
      /\ tickTime = Stamp(e) => turn <= x /\ tickTime <= turn /\ (l > 1 => tickTime < turn)
  BY <1>1, <1>2, <1>3 DEF Chosen
<1>5. PICK c \in Nat :
        /\ c = Coming(l) /\ c <= tickTime + 1 /\ (l = 1 => c <= tickTime)
        /\ c >= tickTime \/ (c = tickTime - 1 /\ pc = "swap" /\ l = 1)
  <2>1. CASE Emptied(l)
    <3>1. l > 1 /\ Coming(l) = tickTime + 1 /\ tickTime + 1 \in Nat
      BY <1>0, <2>1 DEF Emptied, Coming
    <3>. QED
      BY <1>0, <3>1
  <2>2. CASE ~Emptied(l) /\ pc = "swap" /\ l = 1
    <3>1. Coming(l) = tickTime - 1 /\ tickTime - 1 \in Nat
      BY <1>0, <2>2 DEF Coming
    <3>. QED
      BY <1>0, <2>2, <3>1
  <2>3. CASE ~Emptied(l) /\ ~(pc = "swap" /\ l = 1)
    <3>1. Coming(l) = tickTime
      BY <2>3 DEF Coming
    <3>. QED
      BY <1>0, <3>1
  <2>. QED
    BY <2>1, <2>2, <2>3
<1>6. PICK m \in Nat : m = Size(l) * Unit(l) /\ m = round
  BY <1>2
<1>7. SUFFICES \E t \in Nat : ComesUp(p, t) /\ x < t + u
                 /\ t <= (IF tickTime > x THEN tickTime ELSE x) + m /\ (tickTime = Stamp(e) => t <= x)
  <2>1. PICK t \in Nat : /\ ComesUp(p, t) /\ x < t + u
                         /\ t <= (IF tickTime > x THEN tickTime ELSE x) + m /\ (tickTime = Stamp(e) => t <= x)
    BY <1>7
  <2>2. Coming(l)' = Coming(l)
    BY DEF Coming, Emptied
  <2>3. ComesUp(p, t)'
    BY <1>1, <2>1, <2>2 DEF ComesUp
  <2>4. InTime(e, t)'
    BY <1>1, <1>3, <1>6, <2>1 DEF InTime, Stamp
  <2>. QED
    BY <1>1, <1>2, <1>3, <2>1, <2>3, <2>4 DEF Waits
<1>8. CASE c <= turn
  <2>1. turn < c + round
    <3>1. CASE c >= tickTime
      BY <1>0, <1>4, <3>1
    <3>2. CASE c = tickTime - 1 /\ pc = "swap" /\ l = 1
      <4>1. turn # c + round
        <5>1. SUFFICES ASSUME turn = c + round PROVE FALSE
          OBVIOUS
        <5>2. round \in Nat \ {0} /\ Unit(1) = 1 /\ round = NearSize /\ Size(1) = NearSize
          BY <1>2, <3>2 DEF Unit, Size
        <5>3. c % round = turn % round
          <6>1. PICK q \in Nat, r \in 0..round - 1 : c = q * round + r /\ r = c % round
            <7>1. c \div round \in Nat /\ c % round \in 0..round - 1 /\ c = (c \div round) * round + (c % round)
              BY Quotient
            <7>. QED
              BY <7>1
          <6>2. turn = (q + 1) * round + r
            <7>1. (q + 1) * round = q * round + round /\ q * round \in Nat
              OBVIOUS
            <7>. QED
              BY <5>1, <6>1, <7>1
          <6>3. q + 1 \in Nat
            OBVIOUS
          <6>4. turn % round = r
            BY <6>1, <6>2, <6>3, QuotientUnique
          <6>. QED
            BY <6>1, <6>4
        <5>4. SlotOf(1, c) = SlotOf(1, turn)
          <6>1. c \div 1 = c /\ turn \div 1 = turn
            BY SMT
          <6>. QED
            BY <5>2, <5>3, <6>1 DEF SlotOf
        <5>. QED
          BY <1>4, <3>2, <5>4
      <4>. QED
        BY <1>0, <1>4, <3>2, <4>1
    <3>. QED
      BY <1>5, <3>1, <3>2
  <2>2. ComesUp(p, turn)
    BY <1>1, <1>2, <1>4, <1>5, <1>8, <2>1 DEF ComesUp
  <2>3. turn <= (IF tickTime > x THEN tickTime ELSE x) + m
    BY <1>0, <1>4
  <2>. QED
    BY <1>4, <2>2, <2>3
<1>9. CASE turn < c
  <2>1. PICK t \in Nat :
          /\ t = Turn(l, t) /\ SlotOf(l, t) = SlotOf(l, turn) /\ c <= t /\ t < c + round
          /\ turn + u <= t
    BY <1>2, <1>4, <1>9, EverySlot
  <2>2. ComesUp(p, t)
    BY <1>1, <1>2, <1>4, <1>5, <2>1 DEF ComesUp
  <2>3. t <= (IF tickTime > x THEN tickTime ELSE x) + m
    BY <1>0, <1>5, <1>6, <2>1
  <2>4. tickTime # Stamp(e)
    BY <1>0, <1>4, <1>5, <1>9 DEF Levels
  <2>5. x < t + u
    BY <1>4, <2>1
  <2>. QED
    BY <2>2, <2>3, <2>4, <2>5
<1>. QED
  BY <1>8, <1>9

\* Start puts its node into the slot it has chosen, whatever the driver did in the meantime.
LEMMA LatePushes ==
  ASSUME RaceTypes, Conserved, LateInv, PushBack, pc' # "crashed"
  PROVE  LateInv'
<1>0. /\ InTheWheel /\ OutOfTheWheel /\ Starting /\ tickTime \in Nat /\ filed \in [Events -> {NotFiled} \union FiledAs]
      /\ node \in [Events -> RaceNodes] /\ call.at = "push"
      /\ UNCHANGED <<spokes, tickTime, level, node>>
  BY DEF RaceTypes, LateInv, PushBack, Locked, maps, driver
<1>1. PICK e \in Events, p \in SlotIds : e = call.event /\ p = call.slot
  BY <1>0 DEF RaceTypes, CallsUnder
<1>2. ~Held(e) /\ call' = [at |-> "register", event |-> e]
  BY <1>0, <1>1 DEF Conserved, Entered, PushBack
<1>3. Starting'
  BY <1>2 DEF Starting
<1>4. CASE UNCHANGED <<slots, filed>>
  <2>1. UNCHANGED pc
    BY <1>4 DEF PushBack
  <2>. QED
    BY <1>0, <1>3, <1>4, <2>1, LateCall
<1>5. CASE ~UNCHANGED <<slots, filed>>
  <2>1. /\ slots' = [slots EXCEPT ![p] = Append(slots[p], e)] /\ UNCHANGED pc
        /\ filed' = [filed EXCEPT ![e] = [level |-> p[1], tick |-> tickTime,
                                          swapping |-> pc = "swap" /\ p = Swapped]]
    BY <1>1, <1>5 DEF PushBack
  <2>2. PICK f : f = [level |-> p[1], tick |-> tickTime, swapping |-> pc = "swap" /\ p = Swapped]
    OBVIOUS
  <2>3. f \in FiledAs /\ f.level = p[1] /\ f.tick = tickTime /\ (f.swapping <=> pc = "swap" /\ p = SlotOf(1, tickTime - 1))
    <3>1. pc = "swap" => Swapped = SlotOf(1, tickTime - 1)
      BY DEF Swapped
    <3>2. p[1] \in Levels
      BY SlotLevel
    <3>. QED
      BY <1>0, <2>2, <3>1, <3>2 DEF FiledAs
  <2>4. filed' \in [Events -> {NotFiled} \union FiledAs] /\ filed'[e] = f /\ \A x \in Events : x # e => filed'[x] = filed[x]
    BY <1>0, <2>1, <2>2, <2>3
  <2>5. PICK turn \in Nat : Chosen(e, p, turn)
    BY <1>0, <1>1 DEF Starting
  <2>6. IF f.swapping THEN pc' = "swap" /\ p = SlotOf(1, tickTime' - 1) /\ Overtaken(e)' ELSE Waits(e, p)'
    <3>1. CASE f.swapping
      <4>1. tickTime > 0 /\ node[e].expire \in Nat
        BY <1>0, <2>3, <3>1 DEF RaceTypes, RaceNodes
      <4>2. Overtaken(e)
        BY <1>0, <2>3, <2>5, <3>1, <4>1, PushMeets
      <4>. QED
        BY <1>0, <2>1, <2>3, <3>1, <4>2 DEF Overtaken
    <3>2. CASE ~f.swapping
      BY <1>0, <2>1, <2>3, <2>4, <2>5, <3>2, PushWaits
    <3>. QED
      BY <3>1, <3>2
  <2>7. \A l \in Levels : Coming(l)' = Coming(l)
    BY <1>0, <2>1 DEF Coming, Emptied
  <2>8. InTheWheel'
    <3>1. \A s \in SlotIds : ~InSlot(e, s)
      BY <1>2 DEF Held
    <3>. QED
      BY <1>0, <2>1, <2>4, <2>6, <2>7, <3>1, Files
  <2>9. \A x \in Events : InSpokes(x)' => InSpokes(x) /\ x # e
    BY <1>0, <1>2 DEF InSpokes, Held
  <2>10. OutOfTheWheel'
    BY <1>0, <2>1, <2>4, <2>9, Leaves
  <2>11. pc' \in Firing => filed'[Head(spokes')] = NotFiled
    <3>1. SUFFICES ASSUME pc \in Firing PROVE filed'[Head(spokes)] = NotFiled
      BY <1>0, <2>1
    <3>2. Head(spokes) \in Events /\ Head(spokes) # e
      BY <1>2, <3>1, HeadOut DEF RaceTypes, Conserved, Firing
    <3>. QED
      BY <2>4, <3>1, <3>2 DEF LateInv
  <2>12. pc' = "cascade" => level' > 1 /\ tickTime' = Turn(level', tickTime')
    BY <1>0, <2>1 DEF LateInv, Turn
  <2>. QED
    BY <1>3, <2>4, <2>8, <2>10, <2>11, <2>12 DEF LateInv
<1>. QED
  BY <1>4, <1>5

\* Every step of a call keeps the invariant.
LEMMA LateClient ==
  ASSUME RaceTypes, Conserved, LateInv, ClientStep, pc' # "crashed"
  PROVE  LateInv'
<1>0. Starting /\ node \in [Events -> RaceNodes] /\ call \in CallsUnder
  BY DEF RaceTypes, LateInv
<1>1. CASE \E e \in Events, c \in Counts, i \in Intervals : StartCall(e, c, i)
  BY <1>1, LateStarts
<1>2. CASE Choose
  BY <1>2, LateChooses
<1>3. CASE PushBack
  BY <1>3, LatePushes
<1>4. ASSUME NEW e \in Events, DestroyTest(e) PROVE LateInv'
  <2>1. call' = [at |-> "destroy", event |-> e] /\ UNCHANGED <<slots, spokes, filed, tickTime, pc, level, node>>
    BY <1>4 DEF DestroyTest, vars, maps, driver
  <2>2. Starting'
    BY <2>1 DEF Starting
  <2>. QED
    BY <2>1, <2>2, LateCall
<1>5. CASE Register
  <2>1. call' = Idle /\ UNCHANGED <<slots, spokes, filed, tickTime, pc, level, node>>
    BY <1>5 DEF Register, driver
  <2>2. Starting'
    BY <2>1 DEF Starting, Idle
  <2>. QED
    BY <2>1, <2>2, LateCall
<1>6. CASE DestroySet
  <2>1. /\ call' = Idle /\ UNCHANGED <<slots, spokes, filed, tickTime, pc, level>> /\ call.event \in Events
        /\ UNCHANGED node \/ node' = [node EXCEPT ![call.event].isValid = FALSE]
    BY <1>0, <1>6 DEF DestroySet, maps, driver, CallsUnder
  <2>2. Starting'
    BY <2>1 DEF Starting, Idle
  <2>3. \A e \in Events : node'[e].expire = node[e].expire /\ node'[e].interval = node[e].interval
    BY <1>0, <2>1 DEF RaceNodes
  <2>. QED
    BY <2>1, <2>2, <2>3, LateCall
<1>. QED
  BY <1>1, <1>2, <1>3, <1>4, <1>5, <1>6 DEF ClientStep

\* At the start no node is filed.
LEMMA LateStart == RaceInit => LateInv
<1> SUFFICES ASSUME RaceInit PROVE LateInv
  OBVIOUS
<1>1. filed = [e \in Events |-> NotFiled] /\ call = Idle /\ pc = "run"
  BY DEF RaceInit, Init
<1>2. \A e \in Events : filed[e] = NotFiled
  BY <1>1
<1>. QED
  BY <1>1, <1>2 DEF LateInv, InTheWheel, OutOfTheWheel, Starting, Firing, Idle

\* EveryRaceInTime: for wheels of every size and any set of events, whatever steps of the driver
\* the two reads of the clock in Start and its push fall between, a node that is started fires in
\* the tick it is due if the clock stood still, and otherwise before the slot it was put into has
\* come round once more; early, by one round of the near list, only if it was pushed between the
\* increment and the swap (Start, AddNode, Cascade, Executes).
THEOREM EveryRaceInTime == RaceSpec => RacedInTime
<1> DEFINE I == RaceInv /\ (pc # "crashed" => LateInv)
<1>1. RaceInit => I
  BY RaceStart, LateStart
<1>2. ASSUME I, [RaceNext]_<<vars, race>> PROVE I'
  <2>1. RaceInv'
    BY <1>2, RaceStep
  <2>2. CASE UNCHANGED <<vars, race>>
    <3>1. UNCHANGED <<slots, spokes, filed, tickTime, pc, level, node, call>>
      BY <2>2 DEF vars, race, maps, driver
    <3>2. LateInv => Starting'
      BY <3>1 DEF LateInv, Starting, Chosen, Stamp
    <3>. QED
      BY <1>2, <2>1, <3>1, <3>2, LateCall
  <2>3. CASE RaceNext
    <3>1. pc # "crashed"
      BY <2>3, RaceOn
    <3>. QED
      BY <1>2, <2>1, <2>3, <3>1, LateDriver, LateClient DEF RaceNext, RaceInv
  <2>. QED
    BY <1>2, <2>2, <2>3
<1>3. ASSUME I, [RaceNext]_<<vars, race>>, NEW e \in Events, pc = "serve", pc' \in {"trigger", "stop"},
             e = Head(spokes), filed[e] # NotFiled
      PROVE  IF filed[e].swapping
             THEN tickTime - 1 = node[e].expire - NearSize \/ tickTime - 1 >= node[e].expire
             ELSE /\ tickTime - 1 \in
                       node[e].expire..(IF filed[e].tick > node[e].expire THEN filed[e].tick ELSE node[e].expire)
                                         + Size(filed[e].level) * Unit(filed[e].level)
                  /\ filed[e].tick = node[e].expire - node[e].interval => tickTime - 1 = node[e].expire
  <2>0. RaceTypes /\ Conserved /\ LateInv
    BY <1>3 DEF RaceInv
  <2>1. RaceNext
    BY <1>3 DEF vars
  <2>2. spokes # <<>>
    <3>1. CASE DriverStep
      BY <1>3, <3>1 DEF DriverStep, Update, UpdateDone, BeginTick, CascadeNext, TickDone, AfterTrigger,
         AfterStop, CascadeNode, Requeue, Count, Swap, Drop, DropInvalid, Serve, Trigger
    <3>2. CASE ClientStep
      BY <1>3, <3>2 DEF ClientStep, StartCall, DestroyTest, Choose, PushBack, Register, DestroySet, vars
    <3>. QED
      BY <2>1, <3>1, <3>2 DEF RaceNext
  <2>3. InSpokes(e)
    BY <1>3, <2>0, <2>2, HeadOut DEF Conserved
  <2>4. IF filed[e].swapping THEN Overtaken(e) ELSE node[e].expire <= tickTime - 1 /\ InTime(e, tickTime - 1)
    BY <1>3, <2>0, <2>3 DEF LateInv, OutOfTheWheel
  <2>5. PICK f \in FiledAs, x \in Nat, m \in Nat :
          f = filed[e] /\ x = node[e].expire /\ m = Size(f.level) * Unit(f.level)
    <3>1. filed[e] \in FiledAs /\ node[e].expire \in Nat
      BY <1>3, <2>0 DEF LateInv, RaceTypes, RaceNodes
    <3>2. filed[e].level \in Levels
      BY <3>1 DEF FiledAs
    <3>3. Size(filed[e].level) * Unit(filed[e].level) \in Nat
      BY <3>2, UnitNext
    <3>. QED
      BY <3>1, <3>3
  <2>6. CASE filed[e].swapping
    BY <2>4, <2>6 DEF Overtaken
  <2>7. CASE ~filed[e].swapping
    <3>1. tickTime \in Nat /\ f.tick \in Nat
      BY <2>0 DEF RaceTypes, FiledAs
    <3>2. x <= tickTime - 1 /\ tickTime - 1 <= (IF f.tick > x THEN f.tick ELSE x) + m
      BY <2>4, <2>5, <2>7 DEF InTime
    <3>3. filed[e].tick = node[e].expire - node[e].interval => tickTime - 1 <= x
      BY <2>4, <2>5, <2>7 DEF InTime, Stamp
    <3>4. (IF f.tick > x THEN f.tick ELSE x) + m \in Nat
      BY <3>1
    <3>. QED
      BY <2>5, <2>7, <3>1, <3>2, <3>3, <3>4
  <2>. QED
    BY <2>6, <2>7
<1>4. I /\ [RaceNext]_<<vars, race>> =>
        [\A e \in Events :
           (pc = "serve" /\ pc' \in {"trigger", "stop"} /\ e = Head(spokes) /\ filed[e] # NotFiled) =>
             LET f == filed[e]
                 n == node[e]
                 tick == tickTime - 1
                 from == IF f.tick > n.expire THEN f.tick ELSE n.expire
             IN  IF f.swapping
                 THEN tick = n.expire - NearSize \/ tick >= n.expire
                 ELSE /\ tick \in n.expire..from + Size(f.level) * Unit(f.level)
                      /\ f.tick = n.expire - n.interval => tick = n.expire]_<<vars, race>>
  BY <1>3, Zenon
<1>5. I /\ [RaceNext]_<<vars, race>> => I'
  BY <1>2
<1>. HIDE DEF I
<1>. QED
  BY <1>1, <1>4, <1>5, PTL DEF RaceSpec, RacedInTime
===============================================================================
