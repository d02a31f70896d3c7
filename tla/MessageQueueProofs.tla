---------------------------- MODULE MessageQueueProofs ------------------------
(***************************************************************************)
(* Handlers and Looper: the list of builder handlers that may change while *)
(* it is called, and the loopers with their messages, for any threads,     *)
(* loopers, messages and delays.                                           *)
(***************************************************************************)
EXTENDS Handlers, Looper, SequenceTheorems, FiniteSetTheorems, WellFoundedInduction, TLAPS

\* The nodes of the list and those that were called have been made.
Made == nodes \in Nat /\ current \in 0..nodes /\ DOMAIN handlers \subseteq 1..nodes /\ ran \subseteq 1..nodes

\* The loop has called every node of the list up to the one it stands on, and none beyond.
Progress == IF owner = NoThread THEN ran = {}
            ELSE /\ \A n \in DOMAIN handlers : n <= current => n \in ran
                 /\ \A n \in ran : n <= current

CallInv == Made /\ Progress /\ RemovedBySelf

\* The invariant holds at the start.
LEMMA CallInit == BuilderInit => CallInv
BY DEF BuilderInit, CallInv, Made, Progress, RemovedBySelf

\* A registration takes a number that the loop has not reached.
LEMMA RegisterKeeps ==
  ASSUME CallInv, NEW t \in Runners, NEW h \in Handlers, RegisterHandler(t, h)
  PROVE  CallInv'
<1>1. DOMAIN handlers' = DOMAIN handlers \union {nodes + 1}
  BY DEF RegisterHandler
<1>2. Made'
  BY <1>1 DEF CallInv, Made, RegisterHandler
<1>3. Progress' /\ RemovedBySelf'
  BY <1>1 DEF CallInv, Made, Progress, RemovedBySelf, In, RegisterHandler
<1>4. QED
  BY <1>2, <1>3 DEF CallInv

\* Who removes nodes while the loop is under way is the handler that runs.
LEMMA RemoveKeeps ==
  ASSUME CallInv, NEW t \in Runners, NEW gone, UnRegisterHandler(t, gone)
  PROVE  CallInv'
<1>1. DOMAIN handlers' \subseteq DOMAIN handlers
  BY DEF UnRegisterHandler, RemoveUnlocked
<1>2. Made' /\ Progress'
  BY <1>1 DEF CallInv, Made, Progress, UnRegisterHandler, RemoveUnlocked
<1>3. RemovedBySelf'
  BY DEF UnRegisterHandler, RemoveUnlocked, Locks, RemovedBySelf
<1>4. QED
  BY <1>2, <1>3 DEF CallInv

\* The loop goes on to the first of the nodes it has not passed.
LEMMA HandlersKeep ==
  ASSUME NoThread \notin Runners, Made, NEW t \in Runners, NEW left, CallFirst(t, left), left \subseteq DOMAIN handlers,
         \A n \in DOMAIN handlers \ left : n \in ran, \A n \in ran, m \in left : n < m
  PROVE  CallInv'
<1>1. CASE left = {}
  BY <1>1 DEF CallFirst, CallInv, Made, Progress, RemovedBySelf
<1>2. CASE left # {}
  <2>1. current' \in left /\ (\A n \in left : current' <= n) /\ ran' = ran \union {current'}
    BY <1>2 DEF CallFirst
  <2>2. Made'
    <3>1. current' \in 1..nodes
      BY <2>1 DEF Made
    <3>2. QED
      BY <2>1, <3>1 DEF CallFirst, Made
  <2>3. Progress'
    <3>1. ASSUME NEW n \in DOMAIN handlers, n <= current' PROVE n \in ran'
      BY <2>1, <3>1 DEF Made
    <3>2. ASSUME NEW n \in ran' PROVE n <= current'
      BY <2>1, <3>2 DEF Made
    <3>3. QED
      BY <2>1, <3>1, <3>2 DEF CallFirst, Progress
  <2>4. RemovedBySelf'
    BY <2>1 DEF CallFirst, RemovedBySelf, In
  <2>5. QED
    BY <2>2, <2>3, <2>4 DEF CallInv
<1>3. QED
  BY <1>1, <1>2

\* Every action keeps the invariant.
LEMMA CallStep ==
  ASSUME NoThread \notin Runners, CallInv, [BuilderNext]_builder
  PROVE  CallInv'
<1>1. CASE UNCHANGED builder
  BY <1>1 DEF builder, CallInv, Made, Progress, RemovedBySelf, In
<1>2. ASSUME NEW t \in Runners, NEW h \in Handlers, RegisterHandler(t, h) PROVE CallInv'
  BY <1>2, RegisterKeeps
<1>3. ASSUME NEW t \in Runners, NEW gone, UnRegisterHandler(t, gone) PROVE CallInv'
  BY <1>3, RemoveKeeps
<1>4. ASSUME NEW t \in Runners, Run(t) PROVE CallInv'
  <2>1. CallFirst(t, DOMAIN handlers) /\ ran = {}
    BY <1>4 DEF Run, CallInv, Progress
  <2>2. QED
    BY <2>1, HandlersKeep DEF CallInv
<1>5. ASSUME NEW t \in Runners, NextHandler(t) PROVE CallInv'
  <2> DEFINE left == {n \in DOMAIN handlers : n > current}
  <2>1. CallFirst(t, left) /\ owner # NoThread
    BY <1>5 DEF NextHandler
  <2>2. QED
    BY <2>1, HandlersKeep DEF CallInv, Progress, Made
<1>6. ASSUME NEW t \in Runners, NextFreed(t) PROVE CallInv'
  BY <1>6 DEF NextFreed, CallInv, Made, Progress, RemovedBySelf, In
<1>7. QED
  BY <1>1, <1>2, <1>3, <1>4, <1>5, <1>6 DEF BuilderNext

\* CallInv holds in every reachable state.
LEMMA Calls ==
  ASSUME NoThread \notin Runners
  PROVE  BuilderSpec => []CallInv
BY CallInit, CallStep, PTL DEF BuilderSpec

\* No other thread frees the node of a handler that runs: every change of the list needs
\* the mutex that ForEach holds.
THEOREM OnlySelf ==
  ASSUME NoThread \notin Runners
  PROVE  BuilderSpec => []RemovedBySelf
<1>1. CallInv => RemovedBySelf
  BY DEF CallInv
<1>2. QED
  BY <1>1, Calls, PTL

\* Run calls every handler that is still registered when it returns, in order and once.
THEOREM AllCalled ==
  ASSUME NoThread \notin Runners
  PROVE  BuilderSpec => RunsAll
<1> DEFINE Change == owner # NoThread =>
                     /\ owner' = NoThread => DOMAIN handlers \subseteq ran
                     /\ ran' # ran /\ owner' # NoThread => \A n \in ran : n < current'
<1>1. ASSUME CallInv, [BuilderNext]_builder PROVE [Change]_builder
  <2>1. CASE UNCHANGED <<owner, ran>>
    BY <2>1
  <2>2. ASSUME NEW t \in Runners, Run(t) PROVE Change
    BY <2>2 DEF Run
  <2>3. ASSUME NEW t \in Runners, NextHandler(t) PROVE Change
    <3> DEFINE left == {n \in DOMAIN handlers : n > current}
    <3>1. CallFirst(t, left) /\ owner # NoThread
      BY <2>3 DEF NextHandler
    <3>2. CASE left = {}
      <4>1. owner' = NoThread
        BY <3>1, <3>2 DEF CallFirst
      <4>2. \A n \in DOMAIN handlers : n \in ran
        BY <1>1, <3>1, <3>2 DEF CallInv, Made, Progress
      <4>3. QED
        BY <4>1, <4>2
    <3>3. CASE left # {}
      <4>1. owner' = t /\ current' \in left
        BY <3>1, <3>3 DEF CallFirst
      <4>2. \A n \in ran : n < current'
        BY <1>1, <3>1, <4>1 DEF CallInv, Made, Progress
      <4>3. QED
        BY <3>1, <4>1, <4>2
    <3>4. QED
      BY <3>2, <3>3
  <2>4. QED
    BY <1>1, <2>1, <2>2, <2>3 DEF BuilderNext, RegisterHandler, UnRegisterHandler, RemoveUnlocked, NextFreed, builder
<1>2. QED
  BY <1>1, Calls, PTL DEF BuilderSpec, RunsAll

-----------------------------------------------------------------------------
-----------------------------------------------------------------------------
\* Looper: who owns a looper, where each message is, and in what order.

Giving == {"enqueue", "exit", "drop", "destroy", "join", "terminated"}
Destroying == {"destroy", "join", "terminated"}
Stages == {"none", "test", "look", "blocking", "waiting", "popping", "running", "exited", "gone"}

Types ==
  /\ main \in Loopers \union {None}
  /\ list \in [Loopers -> Seq(Messages)]
  /\ when \in [Messages -> Nat] /\ now \in Nat
  /\ pc \in [Loopers -> Stages]
  /\ job \in [Loopers -> Messages \union {None}]
  /\ call \in [Threads -> {"idle", "get", "unset"} \union Giving]
  /\ hold \in [Threads -> Loopers \union {None}]
  /\ sending \in [Threads -> Messages \union {None}]
  /\ arrived \in Seq(Messages)

\* What a thread has in its hands at each place of a call, and a worker in Loop.
Stationed ==
  /\ \A p \in Threads :
       /\ hold[p] # None <=> call[p] \in Giving
       /\ sending[p] # None => call[p] \in {"get", "enqueue"}
       /\ call[p] = "enqueue" => sending[p] # None
  /\ \A l \in Loopers :
       /\ call[l] # "idle" => pc[l] = "running"
       /\ job[l] # None <=> pc[l] = "running"
       /\ pc[l] = "popping" => list[l] # <<>>

\* A looper is alive as long as it is the main looper or a thread holds it, and who
\* destroys one is alone with it.
Owned ==
  /\ \A l \in Loopers : Alive(l) <=> main = l \/ \E p \in Threads : hold[p] = l
  /\ \A p, q \in Threads :
       call[p] \in Destroying /\ hold[q] = hold[p] => q = p /\ main # hold[p]
  /\ \A l \in Loopers : ~Alive(l) => list[l] = <<>>

\* The messages in the hands of a sender, in a list and in those of a worker.
Sending == {m \in Messages : \E p \in Threads : sending[p] = m}
Waiting == {m \in Messages : \E l \in Loopers : \E i \in DOMAIN list[l] : list[l][i] = m}
Working == {m \in Messages : \E l \in Loopers : job[l] = m}

\* Every message that was sent is in one place, and there once.
Placed ==
  /\ sent = Sending \union Waiting \union Working \union handled \union dropped
  /\ Sending \intersect (Waiting \union Working \union handled \union dropped) = {}
  /\ Waiting \intersect (Working \union handled \union dropped) = {}
  /\ Working \intersect (handled \union dropped) = {}
  /\ handled \intersect dropped = {}
Single ==
  /\ \A p, q \in Threads : sending[p] = sending[q] /\ sending[p] # None => p = q
  /\ \A k, l \in Loopers : job[k] = job[l] /\ job[k] # None => k = l
  /\ \A k, l \in Loopers : \A i \in DOMAIN list[k], j \in DOMAIN list[l] :
       list[k][i] = list[l][j] => k = l /\ i = j

\* A message in a list has arrived; with that the order of the lists is kept.
Sorted ==
  /\ \A l \in Loopers : \A i \in DOMAIN list[l] :
       \E k \in DOMAIN arrived : arrived[k] = list[l][i]
  /\ QueueOrdered

LoopInv == Types /\ Stationed /\ Owned /\ Placed /\ Single /\ Sorted

\* The invariant holds at the start.
LEMMA LoopInit == Init => LoopInv
<1> SUFFICES ASSUME Init PROVE LoopInv
  OBVIOUS
<1>1. Types /\ Stationed /\ Owned
  BY ThreadsAssumption DEF Init, Types, Stationed, Owned, Stages, Giving, Destroying, Alive, Threads
<1>2. \A l \in Loopers : DOMAIN list[l] = {}
  BY DEF Init
<1>3. Single /\ Sorted
  BY <1>2 DEF Init, Single, Sorted, QueueOrdered
<1>4. Placed
  BY <1>2, ThreadsAssumption DEF Init, Placed, Sending, Waiting, Working
<1>. QED
  BY <1>1, <1>3, <1>4 DEF LoopInv

-----------------------------------------------------------------------------
\* Calls and steps that leave lists and messages alone.

Still == <<list, job, sending, when, arrived, sent, handled, dropped>>
UsedByPlaces == <<list, job, sending, sent, handled, dropped>>

\* The places of the messages stay if nothing they are made of changes.
LEMMA PlacesSame == Placed /\ Single /\ UNCHANGED UsedByPlaces => Placed' /\ Single'
BY DEF UsedByPlaces, Placed, Single, Sending, Waiting, Working

\* The order stays if neither lists nor times nor arrivals change.
LEMMA OrderSame == Sorted /\ UNCHANGED <<list, when, arrived>> => Sorted'
BY DEF Sorted, QueueOrdered, Before

\* The places of a call between Send and the end, Enqueue and Join apart.
LEMMA CallKeeps ==
  ASSUME LoopInv, NEW p \in Threads,
         ExitCall(p) \/ MainLooper(p) \/ Exit(p) \/ Drop(p) \/ StopCall(p) \/ Unset(p)
         \/ Destroy(p) \/ JoinSelf(p)
  PROVE  LoopInv'
<1> USE DEF LoopInv
<1>1. UNCHANGED Still
  BY DEF Still, ExitCall, MainLooper, Exit, Drop, StopCall, Unset, Destroy, JoinSelf,
         messages, workers
<1>2. Placed' /\ Single' /\ Sorted'
  BY <1>1, PlacesSame, OrderSame DEF Still, UsedByPlaces
<1>3. CASE ExitCall(p)
  BY <1>2, <1>3, ThreadsAssumption DEF ExitCall, CanCall, Types, Stationed, Owned, Alive, Threads, Giving, Destroying, messages, workers
<1>4. CASE MainLooper(p)
  <2>1. PICK next \in {"exit", "enqueue"} :
          call' = [call EXCEPT ![p] = next] /\ (next = "enqueue" <=> sending[p] # None)
    BY <1>4 DEF MainLooper
  <2>2. call[p] = "get" /\ UNCHANGED now /\ hold[p] = None
    BY <1>4 DEF MainLooper, Stationed, Giving
  <2>3. CASE main = None
    <3>1. PICK l \in Unused : main' = l /\ pc' = [pc EXCEPT ![l] = "test"]
      BY <1>4, <2>3 DEF MainLooper
    <3>2. pc[l] = "none" /\ l \in Loopers /\ l # None
      BY <3>1, ThreadsAssumption DEF Unused
    <3>3. hold' = [hold EXCEPT ![p] = l]
      BY <1>4, <3>1 DEF MainLooper
    <3>4. Types'
      BY <1>1, <2>1, <2>2, <3>1, <3>2, <3>3 DEF Types, Still, Stages, Giving
    <3>5. Stationed'
      BY <1>1, <2>1, <2>2, <3>1, <3>2, <3>3 DEF Types, Stationed, Still, Giving, Threads
    <3>6. \A q \in Threads : hold[q] # l
      BY <3>2 DEF Owned, Alive
    <3>7. \A k \in Loopers : Alive(k)' <=> main' = k \/ \E q \in Threads : hold'[q] = k
      BY <2>1, <2>2, <2>3, <3>1, <3>2, <3>3, ThreadsAssumption DEF Types, Owned, Alive
    <3>8. \A q, r \in Threads :
            call'[q] \in Destroying /\ hold'[r] = hold'[q] => r = q /\ main' # hold'[q]
      BY <2>1, <2>2, <3>1, <3>3, <3>6 DEF Types, Owned, Destroying
    <3>9. \A k \in Loopers : Alive(k) => Alive(k)'
      BY <3>1, <3>2 DEF Alive, Types
    <3>10. Owned'
      BY <1>1, <3>7, <3>8, <3>9 DEF Owned, Still
    <3>. QED
      BY <1>2, <3>4, <3>5, <3>10
  <2>4. CASE main # None
    <3>1. UNCHANGED <<main, pc>> /\ hold' = [hold EXCEPT ![p] = main]
      BY <1>4, <2>4 DEF MainLooper
    <3>2. Types' /\ Stationed'
      BY <1>1, <2>1, <2>2, <2>4, <3>1 DEF Types, Stationed, Still, Giving
    <3>3. \A k \in Loopers : main = k \/ (\E q \in Threads : hold[q] = k)
                           <=> main = k \/ \E q \in Threads : hold'[q] = k
      BY <2>2, <2>4, <3>1, ThreadsAssumption DEF Types
    <3>4. \A q, r \in Threads :
            call'[q] \in Destroying /\ hold'[r] = hold'[q] => r = q /\ main # hold'[q]
      BY <2>1, <2>2, <3>1 DEF Types, Owned, Destroying
    <3>5. Owned'
      BY <1>1, <3>1, <3>3, <3>4 DEF Owned, Still, Alive
    <3>. QED
      BY <1>2, <3>2, <3>5
  <2>. QED
    BY <2>3, <2>4
<1>5. CASE Exit(p)
  BY <1>2, <1>5 DEF Exit, Types, Stationed, Owned, Alive, Giving, Destroying, messages, workers
<1>6. CASE Drop(p)
  <2>1. hold[p] \in Loopers
    BY <1>6 DEF Drop, Types, Stationed, Giving
  <2>2. Types' /\ Stationed'
    BY <1>6, <2>1, ThreadsAssumption DEF Drop, Types, Stationed, Giving, messages, workers
  <2>3. Owned'
    BY <1>6, <2>1, ThreadsAssumption DEF Drop, Types, Stationed, Owned, Owners, Alive, Giving, Destroying, messages, workers
  <2>. QED
    BY <1>2, <2>2, <2>3
<1>7. CASE StopCall(p)
  BY <1>2, <1>7 DEF StopCall, CanCall, Types, Stationed, Owned, Alive, Threads, Giving, Destroying, messages, workers
<1>8. CASE Unset(p)
  <2>1. CASE main # None /\ Owners(main) = {}
    <3>1. /\ main' = None /\ hold' = [hold EXCEPT ![p] = main]
          /\ call' = [call EXCEPT ![p] = "destroy"] /\ UNCHANGED <<pc, now>>
          /\ call[p] = "unset"
      BY <1>8, <2>1 DEF Unset, workers
    <3>2. \A q \in Threads : hold[q] # main
      BY <2>1 DEF Owners
    <3>3. Types' /\ Stationed'
      BY <1>1, <2>1, <3>1, ThreadsAssumption DEF Types, Stationed, Still, Giving
    <3>4. Owned'
      BY <1>1, <2>1, <3>1, <3>2, ThreadsAssumption
      DEF Types, Stationed, Still, Giving, Destroying, Owned, Alive
    <3>. QED
      BY <1>2, <3>3, <3>4
  <2>2. CASE ~(main # None /\ Owners(main) = {})
    <3>1. /\ main' = None /\ UNCHANGED hold
          /\ call' = [call EXCEPT ![p] = "idle"] /\ UNCHANGED <<pc, now>>
          /\ call[p] = "unset"
      BY <1>8, <2>2 DEF Unset, workers
    <3>2. main = None \/ \E q \in Threads : hold[q] = main
      BY <2>2 DEF Owners
    <3>3. Types' /\ Stationed'
      BY <1>1, <3>1, ThreadsAssumption DEF Types, Stationed, Still, Giving
    <3>4. Owned'
      BY <1>1, <3>1, <3>2, ThreadsAssumption
      DEF Types, Stationed, Still, Giving, Destroying, Owned, Alive
    <3>. QED
      BY <1>2, <3>3, <3>4
  <2>. QED
    BY <2>1, <2>2
<1>9. CASE Destroy(p)
  BY <1>2, <1>9 DEF Destroy, Types, Stationed, Owned, Alive, Giving, Destroying, messages, workers
<1>10. CASE JoinSelf(p)
  BY <1>2, <1>10 DEF JoinSelf, Types, Stationed, Owned, Alive, Giving, Destroying, messages, workers
<1>. QED
  BY <1>3, <1>4, <1>5, <1>6, <1>7, <1>8, <1>9, <1>10

\* The steps of a worker that touch no message.
LEMMA TurnKeeps ==
  ASSUME LoopInv, NEW l \in Loopers, Test(l) \/ Look(l) \/ Block(l) \/ Spurious(l)
  PROVE  LoopInv'
<1> USE DEF LoopInv
<1>1. UNCHANGED <<list, job, handled, Apart>>
  BY DEF Test, Look, Block, Spurious
<1>2. Placed' /\ Single' /\ Sorted'
  BY <1>1, PlacesSame, OrderSame DEF Apart, messages, UsedByPlaces
<1>3. Types'
  BY <1>1 DEF Types, Stages, Test, Look, Block, Spurious, Step, Apart, messages
<1>4. Stationed' /\ Owned'
  BY <1>1 DEF Types, Stationed, Owned, Alive, Stages, Test, Look, Block, Spurious, Step, Apart, messages
<1>. QED
  BY <1>2, <1>3, <1>4

-----------------------------------------------------------------------------
\* Sequences and numbers.

\* A set of numbers that is not empty has a least one.
LEMMA LeastNumber ==
  ASSUME NEW T, T \subseteq Nat, T # {}
  PROVE  Min(T) \in T /\ \A y \in T : Min(T) <= y
<1>1. PICK x \in T : \A y \in T : ~ (<<y, x>> \in OpToRel(<, Nat))
  BY WFMin, NatLessThanWellFounded
<1>2. \A y \in T : ~ (y < x)
  BY <1>1, Zenon DEF OpToRel
<1>3. \A y \in T : x <= y
  BY <1>2
<1>. QED
  BY <1>3 DEF Min

\* InsertAt puts a message before the i-th one.
LEMMA Inserted ==
  ASSUME NEW S, NEW s \in Seq(S), NEW i \in 1..Len(s) + 1, NEW e \in S
  PROVE  /\ InsertAt(s, i, e) \in Seq(S)
         /\ DOMAIN InsertAt(s, i, e) = 1..Len(s) + 1
         /\ InsertAt(s, i, e)[i] = e
         /\ \A k \in 1..i - 1 : InsertAt(s, i, e)[k] = s[k]
         /\ \A k \in i + 1..Len(s) + 1 : InsertAt(s, i, e)[k] = s[k - 1]
<1> DEFINE front == SubSeq(s, 1, i - 1)
           back == SubSeq(s, i, Len(s))
           pair == front \o <<e>>
<1>1. /\ front \in Seq(S) /\ Len(front) = i - 1
      /\ \A k \in 1..i - 1 : front[k] = s[k]
  BY SubSeqProperties
<1>2. /\ back \in Seq(S) /\ Len(back) = Len(s) - i + 1
      /\ \A k \in 1..Len(s) - i + 1 : back[k] = s[i + k - 1]
  BY SubSeqProperties
<1>3. <<e>> \in Seq(S) /\ Len(<<e>>) = 1 /\ <<e>>[1] = e
  OBVIOUS
<1> HIDE DEF front, back
<1>4. /\ pair \in Seq(S) /\ Len(pair) = i
      /\ \A k \in 1..i - 1 : pair[k] = s[k]
      /\ pair[i] = e
  BY <1>1, <1>3, ConcatProperties
<1> HIDE DEF pair
<1>5. /\ pair \o back \in Seq(S) /\ Len(pair \o back) = Len(s) + 1
      /\ \A k \in 1..i : (pair \o back)[k] = pair[k]
      /\ \A k \in i + 1..Len(s) + 1 : (pair \o back)[k] = back[k - i]
  <2>1. /\ pair \o back \in Seq(S) /\ Len(pair \o back) = Len(pair) + Len(back)
        /\ \A k \in 1..Len(pair) + Len(back) :
             (pair \o back)[k] = IF k <= Len(pair) THEN pair[k] ELSE back[k - Len(pair)]
    BY <1>2, <1>4, ConcatProperties, Zenon
  <2>2. Len(s) \in Nat /\ Len(pair) = i /\ Len(pair) + Len(back) = Len(s) + 1
    BY <1>2, <1>4, LenProperties
  <2>. QED
    BY <2>1, <2>2
<1>6. InsertAt(s, i, e) = pair \o back
  BY DEF InsertAt, front, back, pair
<1>7. \A k \in i + 1..Len(s) + 1 : k - i \in 1..Len(s) - i + 1 /\ i + (k - i) - 1 = k - 1
  OBVIOUS
<1>8. \A k \in 1..i - 1 : k \in 1..i
  OBVIOUS
<1>. QED
  BY <1>2, <1>4, <1>5, <1>6, <1>7, <1>8

-----------------------------------------------------------------------------
\* The steps that move a message.

\* Send puts a new message into the hands of its sender.
LEMMA SendKeeps ==
  ASSUME LoopInv, NEW p \in Threads, NEW m \in Messages, NEW delay \in Delays, Send(p, m, delay)
  PROVE  LoopInv'
<1> USE DEF LoopInv
<1>1. /\ call[p] = "idle" /\ m \notin sent /\ (p \in Loopers => pc[p] = "running")
      /\ sent' = sent \union {m} /\ sending' = [sending EXCEPT ![p] = m]
      /\ call' = [call EXCEPT ![p] = "get"]
      /\ UNCHANGED <<now, main, mutex, running, list, hold, stops, arrived, dropped, pc, job, handled>>
  BY DEF Send, CanCall, workers
<1>2. when' \in [Messages -> Nat] /\ \A n \in Messages : n # m => when'[n] = when[n]
  BY DelaysAssumption DEF Send, Types
<1>3. sending[p] = None /\ hold[p] = None /\ m # None
  BY <1>1, ThreadsAssumption DEF Stationed, Giving
<1>4. Types' /\ Stationed'
  BY <1>1, <1>2, <1>3 DEF Types, Stationed, Giving, Threads
<1>5. Owned'
  BY <1>1, <1>3 DEF Types, Owned, Alive, Destroying
<1>6. /\ Sending' = Sending \union {m} /\ UNCHANGED <<Waiting, Working>>
      /\ m \notin Sending
  BY <1>1, <1>3, ThreadsAssumption DEF Types, Sending, Waiting, Working, Placed
<1>7. Placed'
  BY <1>1, <1>6 DEF Placed
<1>8. Single'
  BY <1>1, <1>3, <1>6 DEF Types, Single, Sending
<1>9. \A l \in Loopers : \A i \in DOMAIN list[l] : list[l][i] \in Messages /\ list[l][i] # m
  BY <1>1 DEF Types, Placed, Waiting
<1>10. Sorted'
  BY <1>1, <1>2, <1>9 DEF Sorted, QueueOrdered, Before
<1>. QED
  BY <1>4, <1>5, <1>7, <1>8, <1>10

\* Next takes the first message of the list: the others keep their order.
LEMMA NextKeeps ==
  ASSUME LoopInv, NEW l \in Loopers, Next(l)
  PROVE  LoopInv'
<1> USE DEF LoopInv
<1> DEFINE m == Head(list[l])
           s == list[l]
<1>1. /\ pc[l] = "popping" /\ pc' = [pc EXCEPT ![l] = "running"]
      /\ job' = [job EXCEPT ![l] = m] /\ list' = [list EXCEPT ![l] = Tail(s)]
      /\ UNCHANGED <<handled, Apart>>
  BY DEF Next, Step
<1>2. /\ s \in Seq(Messages) /\ s # <<>> /\ m \in Messages /\ m = s[1] /\ Len(s) \in Nat \ {0}
      /\ Tail(s) \in Seq(Messages) /\ DOMAIN Tail(s) = 1..Len(s) - 1
      /\ \A i \in 1..Len(s) - 1 : Tail(s)[i] = s[i + 1]
      /\ DOMAIN s = 1..Len(s)
  BY <1>1 DEF Types, Stationed
<1> HIDE DEF m, s
<1>3. Types' /\ Stationed'
  BY <1>1, <1>2, ThreadsAssumption DEF Types, Stationed, Stages, Apart, messages, m, s
<1>4. Owned'
  BY <1>1, <1>2 DEF Types, Owned, Alive, Apart, messages
<1>5. \A k \in Loopers : k # l => list'[k] = list[k]
  BY <1>1 DEF Types
<1>6. list'[l] = Tail(s) /\ \A i \in DOMAIN Tail(s) : i + 1 \in DOMAIN s /\ Tail(s)[i] = s[i + 1]
  BY <1>1, <1>2 DEF Types
<1>7. 1 \in DOMAIN s /\ \A i \in DOMAIN s : i # 1 => i - 1 \in DOMAIN Tail(s) /\ Tail(s)[i - 1] = s[i]
  BY <1>2
<1>8. m \in Waiting /\ m \notin Waiting'
  <2>1. m \in Waiting
    BY <1>2, <1>7 DEF Waiting, s
  <2>2. ASSUME NEW k \in Loopers, NEW i \in DOMAIN list'[k], list'[k][i] = m PROVE FALSE
    <3>1. CASE k = l
      <4>1. i + 1 \in DOMAIN s /\ s[i + 1] = s[1] /\ i \in Nat /\ i # 0
        BY <1>2, <1>6, <2>2, <3>1
      <4>. QED
        BY <1>7, <4>1 DEF Single, s
    <3>2. CASE k # l
      BY <1>2, <1>5, <1>7, <2>2, <3>2 DEF Single, s
    <3>. QED
      BY <3>1, <3>2
  <2>. QED
    BY <2>1, <2>2 DEF Waiting
<1>9. Waiting' = Waiting \ {m}
  <2>1. ASSUME NEW n \in Messages, n # m, NEW k \in Loopers, NEW i \in DOMAIN list[k], list[k][i] = n
        PROVE  \E j \in DOMAIN list'[k] : list'[k][j] = n
    <3>1. CASE k = l
      <4>1. i \in DOMAIN s /\ i # 1 /\ s[i] = n
        BY <1>2, <2>1, <3>1 DEF s
      <4>. QED
        BY <1>6, <1>7, <3>1, <4>1
    <3>2. CASE k # l
      BY <1>5, <2>1, <3>2
    <3>. QED
      BY <3>1, <3>2
  <2>2. ASSUME NEW n \in Messages, NEW k \in Loopers, NEW i \in DOMAIN list'[k], list'[k][i] = n
        PROVE  \E j \in DOMAIN list[k] : list[k][j] = n
    BY <1>5, <1>6, <2>2 DEF s
  <2>. QED
    BY <1>8, <2>1, <2>2 DEF Waiting
<1>10. Working' = Working \union {m} /\ job[l] = None
  BY <1>1, <1>2, ThreadsAssumption DEF Working, Types, Stationed
<1>11. Placed'
  BY <1>1, <1>8, <1>9, <1>10 DEF Placed, Sending, Apart, messages
<1>12. Single'
  <2>1. \A p, q \in Threads : sending'[p] = sending'[q] /\ sending'[p] # None => p = q
    BY <1>1 DEF Single, Apart
  <2>2. m \notin Working
    BY <1>8 DEF Placed
  <2>3. \A j, k \in Loopers : job'[j] = job'[k] /\ job'[j] # None => j = k
    BY <1>1, <1>2, <2>2 DEF Single, Types, Working
  <2>4. ASSUME NEW j \in Loopers, NEW k \in Loopers,
               NEW a \in DOMAIN list'[j], NEW b \in DOMAIN list'[k], list'[j][a] = list'[k][b]
        PROVE  j = k /\ a = b
    <3>1. PICK x \in DOMAIN list[j] :
            list'[j][a] = list[j][x] /\ x = IF j = l THEN a + 1 ELSE a
      BY <1>5, <1>6 DEF s
    <3>2. PICK y \in DOMAIN list[k] :
            list'[k][b] = list[k][y] /\ y = IF k = l THEN b + 1 ELSE b
      BY <1>5, <1>6 DEF s
    <3>3. list[j][x] = list[k][y]
      BY <2>4, <3>1, <3>2
    <3>4. j = k /\ x = y
      BY <3>3 DEF Single
    <3>5. j = l => a \in Nat /\ b \in Nat
      BY <1>2, <1>6, <3>4
    <3>. QED
      BY <3>1, <3>2, <3>4, <3>5
  <2>. QED
    BY <2>1, <2>3, <2>4 DEF Single
<1>13. Sorted'
  <2>1. \A n, o : Before(n, o) = Before(n, o)'
    BY <1>1 DEF Before, Apart
  <2>2. UNCHANGED <<when, arrived>>
    BY <1>1 DEF Apart, messages
  <2>3. \A k \in Loopers : \A i \in DOMAIN list'[k] : \E j \in DOMAIN list[k] : list'[k][i] = list[k][j]
    BY <1>5, <1>6 DEF s
  <2>4. ASSUME NEW k \in Loopers, NEW i \in DOMAIN list'[k], NEW j \in DOMAIN list'[k], i < j
        PROVE  \/ when[list'[k][i]] < when[list'[k][j]]
               \/ when[list'[k][i]] = when[list'[k][j]] /\ Before(list'[k][i], list'[k][j])
    <3>1. CASE k = l
      <4>1. i + 1 < j + 1
        BY <1>2, <1>6, <2>4, <3>1
      <4>2. /\ i + 1 \in DOMAIN list[k] /\ list'[k][i] = list[k][i + 1]
            /\ j + 1 \in DOMAIN list[k] /\ list'[k][j] = list[k][j + 1]
        BY <1>6, <3>1 DEF s
      <4>3. \/ when[list[k][i + 1]] < when[list[k][j + 1]]
            \/ when[list[k][i + 1]] = when[list[k][j + 1]] /\ Before(list[k][i + 1], list[k][j + 1])
        BY <4>1, <4>2 DEF Sorted, QueueOrdered
      <4>. QED
        BY <4>2, <4>3
    <3>2. CASE k # l
      BY <1>5, <2>4, <3>2 DEF Sorted, QueueOrdered
    <3>. QED
      BY <3>1, <3>2
  <2>5. QueueOrdered'
    BY <2>1, <2>2, <2>4 DEF QueueOrdered
  <2>6. \A k \in Loopers : \A i \in DOMAIN list'[k] : \E j \in DOMAIN arrived' : arrived'[j] = list'[k][i]
    BY <2>2, <2>3 DEF Sorted
  <2>. QED
    BY <2>5, <2>6 DEF Sorted
<1>. QED
  BY <1>3, <1>4, <1>11, <1>12, <1>13

\* Enqueue inserts behind what is not due later and hands the message over.
LEMMA EnqueueKeeps ==
  ASSUME LoopInv, NEW p \in Threads, Enqueue(p)
  PROVE  LoopInv'
<1> USE DEF LoopInv
<1>l. PICK l : l = hold[p]
  OBVIOUS
<1>m. PICK m : m = sending[p]
  OBVIOUS
<1>s. PICK s : s = list[l]
  OBVIOUS
<1> DEFINE later == {k \in DOMAIN s : when[s[k]] > when[m]}
           place == IF later = {} THEN Len(s) + 1 ELSE Min(later)
<1>t. PICK t : t = InsertAt(s, place, m)
  OBVIOUS
<1> HIDE DEF later, place
<1>1. /\ call[p] = "enqueue" /\ call' = [call EXCEPT ![p] = "drop"]
      /\ list' = [list EXCEPT ![l] = t] /\ arrived' = Append(arrived, m)
      /\ sending' = [sending EXCEPT ![p] = None]
      /\ UNCHANGED <<now, main, hold, when, sent, dropped, pc, job, handled>>
  BY <1>l, <1>m, <1>s, <1>t DEF Enqueue, later, place, messages, workers
<1>2. l \in Loopers /\ m \in Messages /\ m # None /\ s \in Seq(Messages) /\ Alive(l)
  BY <1>1, <1>l, <1>m, <1>s, ThreadsAssumption DEF Types, Stationed, Giving, Owned
<1>3. DOMAIN s = 1..Len(s) /\ Len(s) \in Nat
  BY <1>2
<1>4. /\ place \in 1..Len(s) + 1
      /\ \A k \in 1..place - 1 : when[s[k]] <= when[m]
      /\ place \in DOMAIN s => when[m] < when[s[place]]
  <2>1. later \subseteq Nat
    BY <1>3 DEF later
  <2>2. \A k \in DOMAIN s : when[s[k]] \in Nat
    BY <1>2 DEF Types
  <2>3. when[m] \in Nat
    BY <1>2 DEF Types
  <2>4. CASE later = {}
    BY <1>3, <2>2, <2>3, <2>4 DEF later, place
  <2>5. CASE later # {}
    <3>1. place \in later /\ \A k \in later : place <= k
      BY <2>1, <2>5, LeastNumber DEF place
    <3>2. place \in 1..Len(s) /\ when[s[place]] > when[m]
      BY <1>3, <3>1 DEF later
    <3>3. ASSUME NEW k \in 1..place - 1 PROVE when[s[k]] <= when[m]
      <4>1. k \in DOMAIN s /\ k \notin later
        BY <1>3, <3>1, <3>2
      <4>2. ~ (when[s[k]] > when[m])
        BY <4>1 DEF later
      <4>. QED
        BY <2>2, <2>3, <4>1, <4>2
    <3>. QED
      BY <1>3, <2>2, <2>3, <3>2, <3>3
  <2>. QED
    BY <2>4, <2>5
<1>5. /\ t \in Seq(Messages)
      /\ DOMAIN t = 1..Len(s) + 1
      /\ t[place] = m
      /\ \A k \in 1..place - 1 : t[k] = s[k]
      /\ \A k \in place + 1..Len(s) + 1 : t[k] = s[k - 1]
  BY <1>2, <1>4, <1>t, Inserted
<1>6. list'[l] = t /\ \A k \in Loopers : k # l => list'[k] = list[k]
  BY <1>1, <1>2 DEF Types
<1>7. Types' /\ Stationed'
  <2>1. t # <<>>
    BY <1>3, <1>5
  <2>. QED
    BY <1>1, <1>2, <1>5, <2>1, ThreadsAssumption DEF Types, Stationed, Giving, Threads
<1>8. Owned'
  BY <1>1, <1>2, <1>6 DEF Types, Owned, Alive, Destroying
\* Where a message of the new list was before, unless it is the one inserted.
<1>9. \A i \in DOMAIN t : i # place =>
         \E k \in DOMAIN s : t[i] = s[k] /\ k = IF i < place THEN i ELSE i - 1
  BY <1>3, <1>4, <1>5
<1>10. \A k \in DOMAIN s : \E i \in DOMAIN t : t[i] = s[k]
  <2>1. ASSUME NEW k \in DOMAIN s, k < place PROVE \E i \in DOMAIN t : t[i] = s[k]
    BY <1>3, <1>4, <1>5, <2>1
  <2>2. ASSUME NEW k \in DOMAIN s, ~ (k < place) PROVE \E i \in DOMAIN t : t[i] = s[k]
    <3>1. k + 1 \in place + 1..Len(s) + 1 /\ k + 1 \in DOMAIN t /\ (k + 1) - 1 = k
      BY <1>3, <1>4, <1>5, <2>2
    <3>2. t[k + 1] = s[k]
      BY <1>5, <3>1
    <3>. QED
      BY <3>1, <3>2
  <2>. QED
    BY <2>1, <2>2
<1>11. place \in DOMAIN t
  BY <1>4, <1>5
<1>12. m \in Sending /\ m \in Messages
  BY <1>m, <1>2 DEF Sending
<1>13. m \notin Waiting /\ m \notin Working /\ m \notin handled /\ m \notin dropped
  BY <1>12 DEF Placed
<1>14. Waiting' = Waiting \union {m}
  <2>1. ASSUME NEW n \in Messages, NEW k \in Loopers, NEW i \in DOMAIN list[k], list[k][i] = n
        PROVE  \E j \in DOMAIN list'[k] : list'[k][j] = n
    BY <1>s, <1>6, <1>10, <2>1
  <2>2. ASSUME NEW n \in Messages, n # m, NEW k \in Loopers, NEW i \in DOMAIN list'[k], list'[k][i] = n
        PROVE  \E j \in DOMAIN list[k] : list[k][j] = n
    <3>1. CASE k = l
      BY <1>s, <1>5, <1>6, <1>9, <2>2, <3>1
    <3>2. CASE k # l
      BY <1>6, <2>2, <3>2
    <3>. QED
      BY <3>1, <3>2
  <2>3. m \in Waiting'
    BY <1>2, <1>5, <1>6, <1>11 DEF Waiting
  <2>. QED
    BY <2>1, <2>2, <2>3 DEF Waiting
<1>15. Sending' = Sending \ {m} /\ Working' = Working
  <2>1. \A q \in Threads : sending[q] = m => q = p
    BY <1>m, <1>2 DEF Single
  <2>. QED
    BY <1>m, <1>1, <1>2, <2>1, ThreadsAssumption DEF Sending, Working, Types
<1>16. Placed'
  BY <1>1, <1>12, <1>13, <1>14, <1>15 DEF Placed
<1>17. Single'
  <2>1. \A q, r \in Threads : sending'[q] = sending'[r] /\ sending'[q] # None => q = r
    BY <1>1 DEF Single, Types
  <2>2. \A j, k \in Loopers : job'[j] = job'[k] /\ job'[j] # None => j = k
    BY <1>1 DEF Single
  <2>3. \A k \in Loopers : \A i \in DOMAIN list[k] : list[k][i] # m
    BY <1>12, <1>13 DEF Waiting
  <2>4. ASSUME NEW j \in Loopers, NEW k \in Loopers,
               NEW a \in DOMAIN list'[j], NEW b \in DOMAIN list'[k], list'[j][a] = list'[k][b]
        PROVE  j = k /\ a = b
    <3>1. CASE list'[j][a] = m
      <4>1. \A i \in Loopers : \A c \in DOMAIN list'[i] : list'[i][c] = m => i = l /\ c = place
        BY <1>s, <1>6, <1>9, <2>3
      <4>. QED
        BY <2>4, <3>1, <4>1
    <3>2. CASE list'[j][a] # m
      <4>1. PICK x \in DOMAIN list[j] :
              list'[j][a] = list[j][x] /\ x = IF j = l /\ ~ (a < place) THEN a - 1 ELSE a
        <5>1. CASE j = l
          BY <1>s, <1>5, <1>6, <1>9, <3>2, <5>1
        <5>2. CASE j # l
          BY <1>6, <5>2
        <5>. QED
          BY <5>1, <5>2
      <4>2. PICK y \in DOMAIN list[k] :
              list'[k][b] = list[k][y] /\ y = IF k = l /\ ~ (b < place) THEN b - 1 ELSE b
        <5>1. CASE k = l
          BY <1>s, <1>5, <1>6, <1>9, <2>4, <3>2, <5>1
        <5>2. CASE k # l
          BY <1>6, <5>2
        <5>. QED
          BY <5>1, <5>2
      <4>3. list[j][x] = list[k][y]
        BY <2>4, <4>1, <4>2
      <4>4. j = k /\ x = y
        BY <4>3 DEF Single
      <4>5. j = l => a \in Nat /\ b \in Nat /\ a # place /\ b # place
        BY <1>3, <1>5, <1>6, <2>4, <3>2, <4>4
      <4>. QED
        BY <1>4, <4>1, <4>2, <4>4, <4>5
    <3>. QED
      BY <3>1, <3>2
  <2>. QED
    BY <2>1, <2>2, <2>4 DEF Single
<1>18. DOMAIN arrived' = 1..Len(arrived) + 1 /\ DOMAIN arrived = 1..Len(arrived) /\ Len(arrived) \in Nat
       /\ arrived'[Len(arrived) + 1] = m /\ \A k \in 1..Len(arrived) : arrived'[k] = arrived[k]
  BY <1>1, <1>2 DEF Types
<1>19. \A n, o : Before(n, o) => Before(n, o)'
  BY <1>18 DEF Before
<1>20. \A n : (\E k \in DOMAIN arrived : arrived[k] = n)
              => (\E k \in DOMAIN arrived' : arrived'[k] = n) /\ Before(n, m)'
  BY <1>18 DEF Before
<1>21. \E k \in DOMAIN arrived' : arrived'[k] = m
  BY <1>18
<1>22. Sorted'
  <2>1. ASSUME NEW k \in Loopers, NEW i \in DOMAIN list'[k]
        PROVE  \E j \in DOMAIN arrived' : arrived'[j] = list'[k][i]
    <3>1. list'[k][i] = m \/ \E j \in DOMAIN list[k] : list'[k][i] = list[k][j]
      BY <1>s, <1>5, <1>6, <1>9
    <3>. QED
      BY <1>20, <1>21, <3>1 DEF Sorted
  <2>2. \A i, j \in DOMAIN s :
          i < j => when[s[i]] < when[s[j]] \/ (when[s[i]] = when[s[j]] /\ Before(s[i], s[j]))
    BY <1>s, <1>2 DEF Sorted, QueueOrdered
  <2>3. \A k \in DOMAIN s : when[s[k]] \in Nat
    BY <1>2, <1>3 DEF Types
  <2>4. \A k \in DOMAIN s : place <= k => when[m] < when[s[k]]
    <3>1. when[m] \in Nat
      BY <1>2 DEF Types
    <3>2. ASSUME NEW k \in DOMAIN s, place < k PROVE when[m] < when[s[k]]
      <4>1. place \in DOMAIN s
        BY <1>3, <1>4, <3>2
      <4>2. when[s[place]] <= when[s[k]]
        BY <2>2, <2>3, <3>2, <4>1
      <4>. QED
        BY <1>4, <2>3, <3>1, <4>1, <4>2
    <3>. QED
      BY <1>3, <1>4, <3>2
  <2>5. \A k \in DOMAIN s : k < place => when[s[k]] < when[m] \/ (when[s[k]] = when[m] /\ Before(s[k], m)')
    <3>1. when[m] \in Nat
      BY <1>2 DEF Types
    <3>2. \A k \in DOMAIN s : \E j \in DOMAIN arrived : arrived[j] = s[k]
      BY <1>s, <1>2 DEF Sorted
    <3>. QED
      BY <1>3, <1>4, <1>20, <2>3, <3>1, <3>2
  <2>6. ASSUME NEW i \in DOMAIN t, NEW j \in DOMAIN t, i < j
        PROVE  when[t[i]] < when[t[j]] \/ (when[t[i]] = when[t[j]] /\ Before(t[i], t[j])')
    <3>1. CASE i = place
      <4>1. PICK k \in DOMAIN s : t[j] = s[k] /\ k = IF j < place THEN j ELSE j - 1
        BY <1>4, <1>5, <1>9, <2>6, <3>1
      <4>2. place <= k
        BY <1>3, <1>4, <1>5, <2>6, <3>1, <4>1
      <4>. QED
        BY <1>5, <2>4, <3>1, <4>1, <4>2
    <3>2. CASE j = place
      <4>1. PICK k \in DOMAIN s : t[i] = s[k] /\ k = IF i < place THEN i ELSE i - 1
        BY <1>4, <1>5, <1>9, <2>6, <3>2
      <4>2. k < place
        BY <1>3, <1>4, <1>5, <2>6, <3>2, <4>1
      <4>. QED
        BY <1>5, <2>5, <3>2, <4>1, <4>2
    <3>3. CASE i # place /\ j # place
      <4>1. PICK x \in DOMAIN s : t[i] = s[x] /\ x = IF i < place THEN i ELSE i - 1
        BY <1>9, <3>3
      <4>2. PICK y \in DOMAIN s : t[j] = s[y] /\ y = IF j < place THEN j ELSE j - 1
        BY <1>9, <3>3
      <4>3. x < y
        BY <1>3, <1>4, <1>5, <2>6, <3>3, <4>1, <4>2
      <4>. QED
        BY <1>19, <2>2, <4>1, <4>2, <4>3
    <3>. QED
      BY <3>1, <3>2, <3>3
  <2>7. QueueOrdered'
    BY <1>1, <1>6, <2>6, <1>19 DEF Sorted, QueueOrdered
  <2>. QED
    BY <2>1, <2>7 DEF Sorted
<1>. QED
  BY <1>7, <1>8, <1>16, <1>17, <1>22

\* A message that was handled leaves the hands of the worker.
LEMMA HandledKeeps ==
  ASSUME LoopInv, NEW l \in Loopers, Handled(l)
  PROVE  LoopInv'
<1> USE DEF LoopInv
<1>m. PICK m : m = job[l]
  OBVIOUS
<1>1. /\ call[l] = "idle" /\ pc[l] = "running" /\ pc' = [pc EXCEPT ![l] = "test"]
      /\ handled' = handled \union {m} /\ job' = [job EXCEPT ![l] = None]
      /\ UNCHANGED <<list, Apart>>
  BY <1>m DEF Handled, Step
<1>2. m \in Messages /\ m # None /\ m \in Working
  BY <1>m, <1>1, ThreadsAssumption DEF Types, Stationed, Working
<1>3. Types'
  BY <1>1 DEF Types, Stages, Apart, messages
<1>4. Stationed'
  BY <1>1 DEF Types, Stationed, Apart, messages
<1>5. Owned'
  BY <1>1 DEF Types, Owned, Alive, Apart, messages
<1>6. \A k \in Loopers : job[k] = m => k = l
  BY <1>m, <1>2 DEF Single
<1>7. Working' = Working \ {m}
  BY <1>1, <1>2, <1>6, <1>m, ThreadsAssumption DEF Working, Types
<1>8. UNCHANGED <<Sending, Waiting>>
  BY <1>1 DEF Sending, Waiting, Apart
<1>9. Placed'
  BY <1>1, <1>2, <1>7, <1>8 DEF Placed, Apart, messages
<1>10. Single'
  <2>1. \A j, k \in Loopers : job'[j] = job'[k] /\ job'[j] # None => j = k
    BY <1>1 DEF Single, Types
  <2>. QED
    BY <1>1, <2>1 DEF Single, Apart
<1>11. Sorted'
  BY <1>1, OrderSame DEF Apart, messages
<1>. QED
  BY <1>3, <1>4, <1>5, <1>9, <1>10, <1>11

\* The destructor loses the messages of the list.
LEMMA JoinedKeeps ==
  ASSUME LoopInv, NEW p \in Threads, Join(p)
  PROVE  LoopInv'
<1> USE DEF LoopInv
<1>l. PICK l : l = hold[p]
  OBVIOUS
<1>1. /\ call[p] = "join" /\ call' = [call EXCEPT ![p] = "idle"]
      /\ pc[l] = "exited" /\ pc' = [pc EXCEPT ![l] = "gone"]
      /\ hold' = [hold EXCEPT ![p] = None] /\ list' = [list EXCEPT ![l] = <<>>]
      /\ dropped' = dropped \union Queued(l)
      /\ UNCHANGED <<now, main, sending, arrived, when, sent, job, handled>>
  BY <1>l DEF Join
<1>2. l \in Loopers /\ l # None
  BY <1>l, <1>1 DEF Types, Stationed, Giving
<1>3. main # l /\ \A q \in Threads : hold[q] = l => q = p
  BY <1>l, <1>1 DEF Owned, Destroying
<1>4. Types'
  BY <1>1, <1>2 DEF Types, Stages
<1>5. Stationed'
  BY <1>1, <1>2 DEF Types, Stationed, Giving, Threads
<1>6. Owned'
  <2>1. \A k \in Loopers : Alive(k)' <=> k # l /\ Alive(k)
    BY <1>1, <1>2 DEF Types, Alive
  <2>2. \A k \in Loopers : (\E q \in Threads : hold'[q] = k) <=> k # l /\ \E q \in Threads : hold[q] = k
    BY <1>1, <1>2, <1>3, <1>l, ThreadsAssumption DEF Types
  <2>3. \A k \in Loopers : Alive(k)' <=> main' = k \/ \E q \in Threads : hold'[q] = k
    BY <1>1, <1>3, <2>1, <2>2 DEF Owned
  <2>4. \A q, r \in Threads :
          call'[q] \in Destroying /\ hold'[r] = hold'[q] => r = q /\ main' # hold'[q]
    <3>1. \A q \in Threads : call[q] \in Destroying => hold[q] # None
      BY DEF Stationed, Destroying, Giving
    <3>. QED
      BY <1>1, <3>1 DEF Types, Owned, Destroying
  <2>5. \A k \in Loopers : ~Alive(k)' => list'[k] = <<>>
    BY <1>1, <2>1 DEF Types, Owned
  <2>. QED
    BY <2>3, <2>4, <2>5 DEF Owned
<1>7. list'[l] = <<>> /\ \A k \in Loopers : k # l => list'[k] = list[k]
  BY <1>1, <1>2 DEF Types
<1>8. \A k \in Loopers : \A i \in DOMAIN list'[k] : k # l /\ i \in DOMAIN list[k] /\ list'[k][i] = list[k][i]
  BY <1>7
<1>9. Waiting' = Waiting \ Queued(l) /\ Queued(l) \subseteq Waiting
  <2>1. Queued(l) \subseteq Waiting
    BY <1>2 DEF Queued, Waiting, Types
  <2>2. ASSUME NEW m \in Waiting, m \notin Queued(l) PROVE m \in Waiting'
    BY <1>7, <2>2 DEF Waiting, Queued
  <2>3. ASSUME NEW m \in Waiting' PROVE m \in Waiting /\ m \notin Queued(l)
    <3>1. PICK k \in Loopers : \E i \in DOMAIN list'[k] : list'[k][i] = m
      BY <2>3 DEF Waiting
    <3>2. PICK i \in DOMAIN list[k] : list[k][i] = m /\ k # l
      BY <1>8, <3>1
    <3>3. m \in Messages
      BY <2>3 DEF Waiting
    <3>. QED
      BY <1>2, <3>2, <3>3 DEF Waiting, Queued, Single
  <2>. QED
    BY <2>1, <2>2, <2>3
<1>10. UNCHANGED <<Sending, Working>>
  BY <1>1 DEF Sending, Working
<1>11. Placed'
  BY <1>1, <1>9, <1>10 DEF Placed
<1>12. Single'
  BY <1>1, <1>8 DEF Single
<1>13. Sorted'
  BY <1>1, <1>8 DEF Sorted, QueueOrdered, Before
<1>. QED
  BY <1>4, <1>5, <1>6, <1>11, <1>12, <1>13

\* Time passes and changes no place.
LEMMA TickKeeps == LoopInv /\ Tick => LoopInv'
<1> SUFFICES ASSUME LoopInv, Tick PROVE LoopInv'
  OBVIOUS
<1> USE DEF LoopInv
<1>1. Placed' /\ Single' /\ Sorted'
  BY PlacesSame, OrderSame DEF Tick, UsedByPlaces, messages, workers
<1>. QED
  BY <1>1 DEF Tick, Types, Stationed, Owned, Alive, messages, workers

\* Nothing happens.
LEMMA IdleKeeps == LoopInv /\ UNCHANGED vars => LoopInv'
<1> SUFFICES ASSUME LoopInv, UNCHANGED vars PROVE LoopInv'
  OBVIOUS
<1> USE DEF LoopInv
<1>1. Placed' /\ Single' /\ Sorted'
  BY PlacesSame, OrderSame DEF vars, UsedByPlaces, messages, workers
<1>. QED
  BY <1>1 DEF vars, Types, Stationed, Owned, Alive, messages, workers

\* Every action keeps the invariant.
LEMMA LoopStep == LoopInv /\ [Steps]_vars => LoopInv'
<1> SUFFICES ASSUME LoopInv, Steps PROVE LoopInv'
  BY IdleKeeps
<1>1. CASE \E p \in Threads : \E m \in Messages, delay \in Delays : Send(p, m, delay)
  BY <1>1, SendKeeps
<1>2. CASE \E p \in Threads : ExitCall(p) \/ StopCall(p) \/ Call(p)
  BY <1>2, CallKeeps, EnqueueKeeps, JoinedKeeps DEF Call
<1>3. CASE \E l \in Loopers : Work(l) \/ Spurious(l)
  BY <1>3, TurnKeeps, NextKeeps, HandledKeeps DEF Work
<1>. QED
  BY <1>1, <1>2, <1>3, TickKeeps DEF Steps

\* LoopInv holds in every reachable state.
LEMMA LoopInvariant == Spec => []LoopInv
BY LoopInit, LoopStep, PTL DEF Spec

\* Of two messages that wait in one looper the one due first is handled first, and of
\* two due at the same time the one enqueued first (MessageQueue::Enqueue).
THEOREM EveryQueueOrdered == Spec => []QueueOrdered
BY LoopInvariant, PTL DEF LoopInv, Sorted

\* A looper exists exactly as long as it is the main looper or a thread has a shared
\* pointer to it, and who destroys one is alone with it (MainLooper, StopMainLooper,
\* ~Looper).
THEOREM EveryLooperOwned == Spec => []LooperOwned
<1>1. LoopInv => LooperOwned
  <2> SUFFICES ASSUME LoopInv, NEW l \in Loopers
               PROVE  /\ Alive(l) <=> main = l \/ Owners(l) # {}
                      /\ Destroyers(l) # {} => main # l /\ Cardinality(Owners(l)) = 1
                      /\ ~Alive(l) => list[l] = <<>>
    BY DEF LooperOwned
  <2>1. Alive(l) <=> main = l \/ Owners(l) # {}
    BY DEF LoopInv, Owned, Owners
  <2>2. ASSUME NEW p \in Destroyers(l) PROVE main # l /\ Cardinality(Owners(l)) = 1
    <3>1. p \in Threads /\ hold[p] = l /\ call[p] \in Destroying
      BY <2>2 DEF Destroyers, Owners, Destroying
    <3>2. main # l /\ Owners(l) = {p}
      BY <3>1 DEF LoopInv, Owned, Owners
    <3>. QED
      BY <3>2, FS_Singleton
  <2>. QED
    BY <2>1, <2>2 DEF LoopInv, Owned
<1>. QED
  BY <1>1, LoopInvariant, PTL

\* A message that was sent is with its sender, once in one list, with one worker,
\* handled, or lost with its looper (Send, Enqueue, Next, ~Looper).
THEOREM EveryMessageKept == Spec => []MessagesKept
<1>1. LoopInv => MessagesKept
  <2> SUFFICES ASSUME LoopInv PROVE MessagesKept
    OBVIOUS
  <2>1. InCall = Sending
    BY ThreadsAssumption DEF LoopInv, Types, Stationed, InCall, Sending
  <2>2. UNION {Queued(l) : l \in Loopers} = Waiting
    BY DEF LoopInv, Types, Queued, Waiting
  <2>3. {job[l] : l \in Running} = Working
    BY ThreadsAssumption DEF LoopInv, Types, Stationed, Running, Working
  <2>4. \A k, l \in Loopers : k # l => Queued(k) \intersect Queued(l) = {}
    BY DEF LoopInv, Single, Queued
  <2>5. ASSUME NEW l \in Loopers PROVE Cardinality(Queued(l)) = Len(list[l])
    <3>1. list[l] \in Seq(Messages)
      BY DEF LoopInv, Types
    <3>2. list[l] \in Bijection(1..Len(list[l]), Queued(l))
      BY <3>1 DEF LoopInv, Single, Queued, Bijection, Injection, Surjection, IsInjective
    <3>. QED
      BY <3>1, <3>2, FS_CountingElements DEF ExistsBijection
  <2> DEFINE places == <<InCall, UNION {Queued(l) : l \in Loopers}, {job[l] : l \in Running},
                         handled, dropped>>
  <2>6. /\ DOMAIN places = 1..5 /\ places[1] = Sending /\ places[2] = Waiting
        /\ places[3] = Working /\ places[4] = handled /\ places[5] = dropped
    BY <2>1, <2>2, <2>3
  <2> HIDE DEF places
  <2>7. sent = UNION {places[k] : k \in DOMAIN places}
    BY <2>6 DEF LoopInv, Placed
  <2>8. \A j, k \in DOMAIN places : j # k => places[j] \intersect places[k] = {}
    BY <2>6 DEF LoopInv, Placed
  <2>. QED
    BY <2>4, <2>5, <2>7, <2>8 DEF MessagesKept, places
<1>. QED
  BY <1>1, LoopInvariant, PTL
===============================================================================
