# A TLA+ model of mToolkit

mToolkit is a C++ library of building blocks for embedded services. Its core is
concurrent: a timer manager with a driver thread, a thread pool, a message loop,
actors, and containers with locks; a second library, `toolkit_enckit`, wraps
libcurl, D-Bus, gRPC, PulseAudio and GStreamer. This directory holds TLA+ models
of the core, the TLC configurations that check them on small instances, and
proofs that TLAPS checks for every instance.

Paths below are relative to `toolkit/source/` unless they begin with
`toolkit_enckit/`.

## 1. Inventory

| Component | State | Operations | Interacts with |
|---|---|---|---|
| `timer/` | a near list of 256 slots, four wheels of 64, `_tickTime`, `_lastTime`, three maps event → node | Start, Pause, Resume, Destroy, Stop; the driver's Update, Executes, Cascade | callbacks on the driver thread, which may call the API |
| `poll/` | a queue of tasks, `_isClose`, `_freeSize`, threads | Commit, Wait, IsComplete, Release; the worker loop | tasks |
| `message_queue/` | the main looper and its mutex; per looper a sorted list and `_running`; per builder a list of handlers | Send, PostHandler, MainLooper, StopMainLooper, Exit; Loop, Next | `LockList`; handlers on the looper's thread, which may call the API |
| `actor/` | a deque, `_running` and a thread per `Active`; the map of subscriptions and the list of actors in `Handle` | Start, Stop, PushBack, PushFront, Subscribe, UnSubscribe, Publish, RegisterActor, start | an actor's queue is filled by `Handle::Publish` |
| `lock_container/` | a container, a mutex, a condition variable | push, pop, timed and untimed waits, ForEach, RemoveIf | used by the message queue and by clients |
| `efficient/` | a byte ring with two counters; intrusive and owning linked lists | Push, Pop, insert, destroy | `utilities/math.cpp` sizes the ring |
| `utilities/` | none, but for the buffer and offset of `Serialize` | arithmetic, strings, address ranges, serialising, files, sockets, clocks | the operating system |
| `module/`, `system/` | a registry of plug factories; none | register, load; fork, waitpid | the dynamic loader, which may take a library away again; the operating system |
| `toolkit_enckit/source/http_client` | a session, a proxy and a response; a handle of libcurl while it performs | setters, clearers, Get, Put, Post, Request | callbacks of libcurl |
| `toolkit_enckit/source/dbus`, `grpc` | a map of proxies; a server | subscribe, unsubscribe, call; run | sdbus-c++, gRPC |
| `toolkit_enckit/source/speaker_*` | a map of streams, flags set by clients and read by library callbacks | Play, Pause, Resume, Cancel, Stop | the library's main loop thread |

What is hard in each, and what makes it correct:

* **timer** – nodes travel between slots, a list being served and three maps,
  while callbacks change them; a late driver executes many ticks in a row; a
  cascade must empty a slot before anything in it is due. Correct: every timer
  fires when it is due, as often as asked, and never after it was cancelled;
  every timer reports its stop; no node is lost or filed twice.
* **thread pool** – wake-ups, flags read without the mutex. Correct: no task is
  lost, run twice or forgotten behind sleeping workers; Wait and Release mean
  something definite.
* **message queue** – the looper is reached through shared pointers, made on
  demand and destroyed by whoever lets go last, under a mutex that handlers use.
  Correct: order by time, no message lost but with its looper, no use of a
  destroyed looper, a stop that ends.
* **actor** – several queues are filled under one mutex. Correct: all subscribers
  see one order, each gets each event once, a stop always ends.
* **ring** – counters that wrap. Correct: a bounded queue of bytes.
* **linked lists** – two pointers per node that must stay inverse to each other,
  and loops that delete the node they stand on. Correct: a queue, a stack, a list.
* **utilities** – boundaries: empty fields, a line end at the end of a text, a mask of
  0 or 32, items without tags; a directory removed entry by entry, up to the first that
  fails. Correct: nothing lost, what is written is read, what is reported is so.
* **speakers** – streams, flags and handles shared by clients, which hold a lock, and
  the library's loop, which holds none. Correct: every stream that plays can be
  stopped, a stopped one is closed, and none is dropped while the loop uses it; the code keeps
  the last of these but for the ways that section 3 names.
* **lock containers** – waits with a time have no predicate. Correct: nobody sleeps
  beside an item, and a waiter that was called finds one or returns.
* **module** – a registry that outlives the libraries its entries point into. Correct:
  a plug-in that was found can be made, from the library that registered it first.
* **http client** – one object for many launches, filled by callbacks. Correct: what
  it holds after a launch is of that launch.

`PROJECT.json` lists every component, and under `hazards` the places where the
code can go wrong in ways a test would hardly reach.

## 2. Plan

Done, in this order: `TimerManager` over `Timers`, `ThreadPool`, `Looper`, `Actor`,
`AnnularCache` over `ByteBuffer`, `Math`, `LinkedList` over `Container`, `Strings`,
`Net`, `Serialize`, `Filesystem`, `Speaker`; then `TimerRace` over `TimerManager`,
`Handlers`, `LockQueue`, `SpeakerGst`, `PlugFactory` and `HttpClient`. All but
`Filesystem` and `Math` by itself have their proofs.

Next:

1. A proof of `FilesAgree`, the one safety property of a run that no theorem states: it takes
   `Remove` as a function, an induction over the depth of a tree, and lemmas about sorting.
2. Pause and Resume that overlap a tick in `TimerRace`.
3. A task, a handler or a callback that throws; a handler that runs its own Builder.
4. The Stop of the PulseAudio speaker; the map of proxies of the D-Bus client; two
   threads that load plug-ins at once.

## 3. Modules

| Module | What it is |
|---|---|
| `Timers` | what a timer manager promises: a clock and one timer per event |
| `TimerManager` | the wheel, its driver thread and its API |
| `ThreadPool` | the pool's workers, committers, one Wait and one Release |
| `TimerRace` | a client's Start and Destroy between the steps of a tick; extends `TimerManager` |
| `Looper` | senders, handlers and destroyers of main loopers |
| `Handlers` | the handlers of a Builder, and Run, which walks them |
| `LockQueue` | the waits of `LockQueue` and `LockList` |
| `Actor` | actors, publishers and the thread that starts and stops them |
| `ByteBuffer` | a bounded first-in first-out buffer |
| `AnnularCache` | the ring of bytes; extends `Math` |
| `Math` | `GetRoundupPowerOfTwo` and the disabled loop beside it |
| `Container` | what a queue, a stack and a list of values promise |
| `LinkedList` | the three linked containers as nodes and pointers |
| `Strings`, `Net` | the functions of `utilities/string.cpp` and the address ranges of `utilities/net.cpp`, as operators, and one variable: the argument they are called with |
| `Serialize` | a writer and a reader of one buffer |
| `Filesystem` | the operations of `utilities/filesystem.cpp` on a tree of directories and files |
| `Speaker` | the PulseAudio manager, its streams and the main loop |
| `SpeakerGst` | the GStreamer manager, its players and its listener thread |
| `PlugFactory` | the registry of plug-ins and the dynamic loader |
| `HttpClient` | an HTTP client and the callbacks of libcurl |
| `TimerManagerProofs` | theorems and proofs about `TimerManager`, its refinement of `Timers`, and `TimerRace` |
| `ThreadPoolProofs`, `ActorProofs`, `SpeakerProofs`, `SpeakerGstProofs` | the same for the module of the name |
| `MessageQueueProofs` | the same for `Handlers` and `Looper` |
| `PartsProofs` | the same for `LinkedList` and its refinement of `Container`, `LockQueue`, `PlugFactory`, `HttpClient` |
| `BytesProofs` | the same for `AnnularCache` and its refinement of `ByteBuffer`, `Serialize`, `Net`, `Strings` |
| `MC…` | instances for TLC |

Components that share no state are put side by side in one instance where one set of
bounds suits both: `MCLooper` (`Looper` and `Handlers`), `MCLooperLiveness` (`Looper` and
`LockQueue`) and `MCSequential` (everything that one thread uses at a time, with the
reference definitions for files and trees). A behaviour of such an instance takes the steps
of one part only, chosen at the start in `part`.

A definition preceded by a comment that starts with `Mutant:` is not part of the
model: it is the definition below it, changed as a plausible bug would change it.
TLC finds the property that `PROJECT.json` pairs with it violated when the two are
exchanged.

### TimerManager

`slots` is `_nearList` and `_wheelList` in one function from level and index, with
level 1 the near list, as the comment in `manager.h` numbers them. The
shifts and masks of `AddNode` and `Executes` are the quotients and remainders of
`SlotOf`; the sizes are parameters. One tick is several actions, because callbacks
run inside it: `BeginTick`, `CascadeNode` for each node put back, `CascadeNext`
(the `&&` chain), `Advance` (`++_tickTime` and the swap of the near slot), then for
each node served either `DropInvalid`, `DropPaused`, or `Trigger`, `AfterTrigger`,
`AfterStop` and `Requeue`, with the driver inside OnTrigger or OnStop in between.
`spokes` is the local `spokesList`. The API is callable when the driver sleeps, in
a callback, and after it has left its loop (`Callable`). A call that overlaps a
tick on another thread is in `TimerRace`.

`Pause` shows what the code does: the event stays in `_normal`, and `Resume` finds
nothing in `_pause`. So a paused timer never fires again, and `Timers` says so:
that is the implemented contract, not the one the name of Resume suggests. An
event that was destroyed can be started again only after its slot has come up
(`Forget`). The repetition count is unsigned: -1 stands for the largest value.
An interval of 0 ends in a division by zero in `RevisedExpire` (`crashed`).

### TimerRace

The driver's steps are those of `TimerManager`, with `Advance` split into `Count`
(`++_tickTime`) and `Swap`. Start is `StartCall`, which reads `_tickTime` for the expiry,
`Choose` and `PushBack`, which hold `_lock` and read `_tickTime` again for the slot, and
`Register`. Destroy is the test and the write of `_isValid`. A push into the vector that
the driver swaps next may get in or be lost, and the process may end; so may an insertion
into a map that the driver erases from, and a use of a node that is gone. What is left of
the promises of `TimerManager` is `RacedInTime` and `RacedHeld`: a timer is late by at
most one turn of its slot; it is early only if it was pushed between the increment and the
swap, by one turn of the near list (256 ms with the sizes of the code); and an event whose
node was served and dropped before `Register` stays registered without a node for ever.

### ThreadPool

A worker's steps follow `Create`: `Look` (mutex and predicate), `Block`, `Decide`
(the second look at `_isClose`), `Pop`, `Run` (`--_freeSize`), `Finish`, `Free`.
`Commit` is `Push` and, after the mutex is let go, `Notify`. `Release` is four
steps without the mutex. `IsComplete` is two reads.

### Looper

Every thread, client or worker, can be in one call: `Send` stamps the message,
`MainLooper` gets or makes the looper under the mutex, `Enqueue` inserts under the
mutex of the list, `Drop` is the end of the temporary shared pointer. `Unset` is the
assignment in `StopMainLooper`. Whoever lets go last performs `Destroy` and
`Join`; from `Unset` it does so holding `main_looper_mutex_`. A handler that ends
up joining its own thread terminates the process (`JoinSelf`). `Enqueue` uses
`std::list::insert`, which does not notify, so a worker in `waiting` is woken by
`Spurious` only. `Next` takes the first message whether it is due or not.

### Handlers and LockQueue

`ForEach` holds the recursive mutex of the list from end to end, so that a walk is the
steps of one thread, the owner: `Run`, `NextHandler` for each call, and between them the
changes that the running handler makes itself. A node is the number of its registration,
and the list a function from nodes to handlers. `NextFreed` is the step of an iterator
whose node is gone, which is undefined; the model stops there.

In `LockQueue` each call is one action under the mutex, but for the waits. Which items
the queue holds makes no difference to a wait, so that `items` is their number. A waiter
is `called` from a push until somebody takes an item, and `woken` if there is no such
push behind its waking. `TimedPop` is `front()` of an empty queue.

### Actor

`Deque` pushes and notifies in one critical section, so `Push` is one step.
`Publish` takes `Handle::_mutex`, `Deliver` is one turn of its loop. Stop is four
steps: `_running`, `Size`, the push of `EVENT_EMPTY`, the join. The owner thread
does all registering, starting and stopping, as `_work_thread` and `_actors` have
no lock. `Launch` ends the process if the actor still has a thread. `Dispatch`
is an empty function in the code: `Pop` includes it.

### AnnularCache and Math

An index is the counter modulo the size; the mask in the code is the same because
the size is a power of two. `Push` and `Pop` are one action each with both copies.
`moved` is the last call with the bytes it took or gave, so that the refinement
ties the bytes a caller passes to the bytes the buffer holds.

### LinkedList

One module for `Queue`, `Stack` and `INSTWLinkList`, as all are rings through a head:
`kind` says which class the object has. `next` and `prev` are the pointers of
every node; `New` takes an address that is not in use, so freed addresses come
back, and `Unlink` is `DestroyNode` with the `delete` that follows it. The loops of
`INSTWLinkList` (`RemoveStart`, `LoopKeep`, `LoopDelete`, `LoopEnd` and the
destructor) take one step per node. `Contents` reads the ring as a sequence, the
queue from its other end.

### Strings, Net, Serialize, Filesystem

`Strings` and `Net` are operators, recursion as recursive functions over positions. The
functions keep no state; `text` and `address` are only the argument that the properties
speak of. `Typed` makes a text longer, so that every text of the bounded length is a state,
and `Choose` picks any address.
Each property compares a function with a definition that does not follow the code: `Taken`
and `Free` in `Strings` say where keys are without walking the text, and `Or` in `Net` is the
number with the ones of both operands, not a loop over their bits.
`Split` drops a field that has no character whatever `keepEmpty` says: that is the
code, and `SplitAgrees`, a part of `TextKept`, states it. The head of a block a.b.c.d/e is the address as
given, not masked, and two ends written out are accepted by the order of the numbers: in net
form, where the octets are swapped, that is the order of the last octets. `BlockAgrees` states
both as the code has them. An address is its octets; `HostByte` and `NetByte`
are `inet_network` and `inet_pton` on a little-endian host, for texts that are
addresses. In `Serialize`, `Chars` and `Value` are what `memcpy` of an integer does
to the bytes, with a signed type among them; the buffer never fills up.

In `Filesystem` every function takes the tree and returns the tree it leaves and its
result; `Remove` returns all that the order of `readdir` allows. `Erase`, `Writable`
and `Replaceable` stand for `std::remove`, directory permissions and `std::rename`.
`Remove` passes over every name that begins with '.', so that a directory that holds
such a name loses what else is in it and stays, with the result false (`Stuck` in
`MCSequential`). `CreateDirectory` also succeeds where a file has the name. `mkdir` may fail at
any time, for a read-only parent or for reasons the tree does not tell (a name too long, a
full disk), so that it and `CreateDirectories` return all outcomes too. The loop of
`CreateDirectories` takes nothing back: where it stops, the prefixes made so far stay, and
`TreeKept`, a part of `FilesAgree`, states that, with the one way to undo it, a Remove of the
first that was made.
`ReadFile` leaves out a last line that no line end closes and `FileContent` does not;
both are in `FilesKeepText`, a part of `FilesAgree`. `Protect`, by which another program
changes a directory's permissions, is there to make calls fail.

### Speaker

`stream` holds what an `AudioStream` has and PulseAudio's side of it: `connected`,
`callback`, `corked`, `draining`. A client's call takes the lock of the map
(`Call`), visits streams (`Each`), and lets go (`Release`); `Resume` and `Uncork` are
the two writes of `AudioStream::Resume` after its look at `stream_`. Play goes on
with `Start` and `Insert`, and with `Destroy` if its stream was not started or not
kept. The loop's `Request` is the write callback up to the flags, `CheckPause`,
`Cork` and `CheckCancel` the rest, `DrainComplete` the drain callback; `Close` and
`Destroy` run the three steps of `AudioStream::Close`. `Close` takes back the
callbacks that Start set, but not the drain that a request has asked for at the end of the file:
`draining` stays, and `DrainComplete` may come to a stream that a cancel has closed (169-172),
and that RemoveIf or the destructor has freed by then. That the server answers such a drain is
PulseAudio's doing, not in this repository; nothing here excludes it. Where a thread uses what
another has freed or closed (`Misuse`), the process may end (`aborted`) or go on. `RacesOnly`
names all that leads there: Resume against a close by the loop, a callback on a second stream of
a task that plays, and a drain that is answered after Close. It also says that a resumed stream
stays corked only when the loop had seen it paused. `DroppedClosed` says that a stream is
dropped closed, and under no other callback than such a drain. `Stop`, which frees the main loop first
and joins its thread afterwards, is not modelled.

### SpeakerGst

The listener and every call but Play hold the mutex of the map throughout, so that each
is one action; Play is `Play` and `Insert`. GStreamer's side is the last state a pipeline
was set to and whether its bus holds an end or an error (`Post`). `late` remembers that a
player was paused or resumed after its end: `Pause` and `Resume` do not ask, and `Close`
only lets the pipeline go, so that such a player, like the second one of a task, is let
go while it plays. `DroppedQuiet` says that no other is: it shows nothing about those two, which are as the code
has them.

### PlugFactory and HttpClient

`dlopen` runs a library's constructors when it comes into memory (`Registered`), not
when it is there already. A factory is known by its library and the load it was
registered in; it is `Loaded` while that load lasts. A name that is not found closes the
library again, and what the library registered stays: `Called` of such a factory is the
end of the process, or a plug-in if the library was loaded again to the same place.

In `HttpClient` a number or text that libcurl delivers is the launch it came in, which is
what `LaunchFresh` asks about. `Launch` is everything up to `curl_easy_perform`, which
calls back in any order and any number of times until `Performed`. The lengths and the
host are asked for with the first part of the body, so that a launch without a body keeps
the host and the compressed length of the one before, as `ClearedResponse` does not touch
them; the theorem states both.

## 4. What the runs check

| Run | Instance | Shows |
|---|---|---|
| `TimerManager.cfg` | 2 events, wheels of 2 slots (levels of 1, 2, 4, 8, 16 ticks), counts -1 and 1, intervals 0, 1, 18, 32, five ticks per wake-up, 19 ticks | every node is held once, stops are reported, and the wheel implements `Timers`: a timer fires in the tick it is due |
| `TimerLiveness.cfg` | counts 0 and 2, intervals 1 and 5, 7 ticks | due timers are served; Stop ends the driver |
| `TimerRace.cfg` | 2 events, count 1, intervals 0, 1, 3, three ticks per wake-up, 9 ticks | what a Start or Destroy in the middle of a tick can do to a timer, and what it cannot |
| `ThreadPool.cfg` | 3 workers, 2 tasks | conservation of tasks and wake-ups; what Wait covers; at most one task popped after Release; Release returns if nobody falls asleep unseen |
| `Looper.cfg` | 2 clients, 2 loopers, 3 messages, delays 0 and 1; 2 handlers, 5 registrations | order, ownership, conservation of messages; Run reaches every handler, and loses its iterator only to a handler that removes itself |
| `LooperLiveness.cfg` | 1 client, 2 messages and a stop; 2 clients, 3 loopers, 1 message and 2 stops; 3 threads and a queue of up to 3 items | delivery to a worker that is awake; a thread that joins an awake worker returns, unless its handler is stuck in one of the ways named; waits of a queue end, and nobody sleeps beside an item |
| `Actor.cfg` | 2 actors, 2 publishers, 2 events of one signal | one order for all; each event to every subscriber and nobody else, once |
| `ActorLiveness.cfg` | 1 actor, 3 events, 2 stops | events are dispatched; Stop returns |
| `Sequential.cfg` | 4 nodes and 2 values; rings of 1 and 4 bytes, 3-bit counters, blocks up to 5 bytes; texts up to 5 characters of 5; addresses of 3 octets of 2 bits with all masks; 3 items of 7; trees of 2 names (one hidden) and 2 levels; 3 libraries, 3 names, 2 loads of each; 2 launches, 2 texts | lists and ring implement `Container` and `ByteBuffer`; text, file and address functions agree with reference definitions; items come back; Remove does what it says or leaves what is stuck, and CreateDirectories makes the missing prefixes up to where it stops; plug-ins once found stay, but for failed loads; launches do not mix |
| `Speaker.cfg` | 2 clients (one makes every call on streams, one plays and ends the loop), 1 task, 2 streams, files of one chunk | streams stay in reach, are dropped only when closed and under no callback but a late drain, go wrong only in the ways named, and Cancel and Pause act |
| `SpeakerGst.cfg` | 2 clients, 2 tasks, 3 players | which players are let go while they play; ended ones leave the map |
| `Math.cfg` | all arguments of an 8-bit word | the roundup differs from its disabled loop (violation expected) |

**Bounds.** The timer wheel is scaled: two slots per level are the fewest for which
every level has a boundary, and 19 ticks let the clock pass a multiple of every
level's span, so that the last wheel is turned, while the interval 18 puts nodes on
the last level and 32 is the first one refused. Five ticks per wake-up make a late
driver. Two events are enough for two nodes in one slot or in one served list.
Three workers allow one to sleep, one to wake and one to run. Two loopers are one
that is being destroyed and one that replaces it; three messages give a middle
place to insert at. For the joins of `LooperLiveness.cfg` it takes more: one client that holds a
looper while its handler runs and another that stops the next one, whose worker sleeps, are two
clients and two stops, and a third looper is one whose making or joining the first two wait for.
One message is enough there, as a handler is stuck in what it calls, not in what it is given. Two actors and two publishers are what a disagreement on order
takes. Three-bit counters wrap twice over a ring of four. In `TimerRace` an interval
of 3 puts a node on the second level, and nine ticks let the driver pass its slot and come back.
Five registrations are two handlers, one registered by a handler on the way, and one
removed and registered again. Three threads of a queue are two that wait and one that takes
the item between. Two loads of a library are one that fails and one after it.
Four nodes give a removal in the middle of a list and two matches in one walk.
Five characters hold two overlapping keys, or a CR LF between two line ends; three
octets tell a swap of octets from a swap of neighbours. A tree of two levels gives a
directory inside the one removed, and every entry may be hidden, a file, or a directory
that is read-only or cannot be listed. One task and two streams
are what a second Play of a task that plays takes, and one chunk is a request
before the one that finds the end of the file.
A new looper or stream is the next unused one (`Fresh`), as nothing tells those apart.
The bounds `MaxTime`, `MaxStops`, `MaxActors`, `MaxLength`, `MaxText`, `MaxItems`, `MaxNodes`, `MaxLoads`, `MaxLaunches`, `Depth`, `Streams` and the count of stops in
`Looper` appear in guards only.

**Deadlock** is checked for `ThreadPool.cfg` (its Wait can always be called). The others switch it off: the timer
manager stops when it is destroyed or has divided by zero, a looper and an actor
may end the process, `StopMainLooper` may hang, messages and events are finite, a
container is destroyed, loads and launches are finite, a broken queue or iterator is not
followed further, and a use of a closed or freed stream may end the process.

**Fairness.** Each thread is weakly fair: it goes on when it can. Calls that have
begun go on; nobody has to make one. Callbacks, tasks and handlers return; for
handlers of a looper that takes strong fairness of `Handled`, because a handler may
make any number of calls before. `Enqueue` is strongly fair: a worker that wakes
up without cause for ever does not keep the list's mutex from it for ever, which
any mutex of the supported platforms satisfies. `Fairness` of `Looper` has one such condition
for all threads, which comes to the same as one for each: a message is sent once, so that only
finitely many are enqueued or handled, and in the end nobody can any more. No property relies on spurious
wake-ups: `Spurious` has no fairness anywhere. In `Speaker` only the loop and the server
are fair, the server to streams that are not corked: it has no reason to ask for
data that nobody plays. In `LockQueue` the waits go on, the time of a timed one passing
sooner or later; nobody has to push. In `SpeakerGst` the listener thread is fair, and the
destructor goes on after its join.

**Conditional liveness.** `ControlsAct` leaves a corked stream out, as one that was
paused and is then cancelled stays open until it is resumed. `ReleaseReturns` of the pool, `Delivered` and `StopReturns`
of the looper carry conditions, and the conditions are what the code does: Release
notifies without the mutex, so a worker between predicate and block is missed;
`Enqueue` does not notify; Next does not look at `_running`; StopMainLooper joins
under a mutex that handlers use. `StopReturns` says of a join of an awake worker that it returns,
unless that worker runs a handler that is stuck: one that waits, for the mutex of the main looper
or in a join of its own, for threads that all wait in their turn, for each other or for a worker
asleep in Next (`WaitsFor`, `Stuck`). So a handler stops the looper that is being stopped; a
handler sends while the mutex is held by who joins a worker asleep; a handler lets go of such a
looper last and joins it itself; and whoever joins one of these handlers is stuck with it.
`Stuck` asks for the whole knot, so that a wait that could end is none. No text in the repository promises more. The
actor's Stop, which orders its steps better, returns unconditionally.

**Finding.** `GetRoundupPowerOfTwo` (`utilities/math.cpp:11`) shifts by one more
than the bit length: it returns 4 for 1 and 16 for 4, where the loop kept under
`#if 0` returns 1 and 4. The ring is therefore two to four times as large as
asked for; its correctness is not affected.

## 5. What is proved

The eight modules of proofs show, for all values of the constants
that satisfy the named assumptions of the modules:

* `TypesHold`, `NodesConserved`, `TicksConserved`, `StopsReported` for the wheel.
  The inductive invariant has two layers. `TypeInv` is `TypeOK` with `DriverBusy`:
  a tick in progress is still counted in `todo`, a valid node is registered, and
  the node being triggered is registered with triggers left; without it the
  types of the step after a callback do not follow. `HeldInv` adds that
  `spokes` is empty whenever no list is being walked. Conservation of nodes (`TimersHeld`)
  is then shown action by action
  from lemmas on moving an element between sequences: `SwapKeeps` (a slot is
  swapped out), `FileKeeps` and `RefileKeeps` (a node is put into a slot), `DropKeeps`
  (a node leaves). The lemmas need only that a node is filed in one place, never
  which, so that this theorem does not depend on the arithmetic of the wheel. Slots
  exist for every expiry because `UnitPositive` and `SlotOfType` bound `SlotOf`.
* `TimersRefined`: the wheel implements `Timers`, step by step. A timer of `Timers` is due
  when its expiry has come; that the driver serves it in that tick and no other is
  `WheelInv`. A node in the wheel stands in the slot of its expiry, and the tick in
  which that slot comes up (`Turn`) has not passed and is less than one round ahead
  (`Placed`). A node out of the wheel is due before the slot's turn ends while a cascade
  puts it back, and due in this tick when it is served (`InHand`); the one that has fired
  is due an interval later. A cascade that empties a slot makes its turn pass without
  a node in it (`Emptied`), and it may skip a level only where the clock is no multiple of
  the level's unit: that is arithmetic on quotients (`Apart`, `Divides`), with the units
  as parameters. `Revised` shows that a node
  that has fired is never overdue when `Requeue` files it, so that the correction in
  `RevisedExpire` does nothing, or divides by zero if the interval is 0 (`crashed`).
* `RacedHolds` for a Start or Destroy that meets the driver. `HeldInv` fails there: between
  `Choose` and `Register` a node is in the wheel and its event in no map. `RaceInv` counts
  such an event as entered (`Entered`) and keeps `stray`, the entered events
  without a node; a step that drops a node of an event not registered yet makes one.
* `EveryRaceInTime`: how late, or how early, such a Start can make a timer. `WheelInv` does not
  hold any more, since a node can miss its turn; `LateInv` says what is left of it. Every
  slot has a next tick in which it comes up (`ComesUp`, counted from `Coming`, the first tick whose
  slot of that level has not been swapped out), and each node waits in a slot that comes up in
  time for it (`Waits`, `InTime`), or in the slot that is about to be swapped, for which it is too
  early or too late by what is allowed (`Overtaken`). Between the steps of the call `Chosen` keeps
  what Start has read, weakened as the driver goes on. The step that needs most is the push into a
  slot that has just passed: `EverySlot` gives its next turn, one round later at most.
* `WakeupsKept`, `PoolTypes`, `WaitsCover`, `TasksConserved`, `LatesBounded` for the
  pool, for any finite set of workers. The bound of the free count needs
  `FreeExact`: it is the number of workers minus those between `Run` and
  `Free`, which counts with `AtMoves` (a worker that changes its place changes two
  cardinalities by one). `WaitCovers` rests on it too, since the second read of
  `IsComplete` sees only the count. `Shape` (the ranges, and `Seen`: what a
  worker read under the mutex still holds, and the mutex admits one worker) is the
  base of all five. `LateInv` says that no task is late before `_isClose` is set, and
  that afterwards the late tasks and the workers about to pop are at most one together.
* `EveryQueueOrdered`, `EveryLooperOwned` and `EveryMessageKept` of `Looper`, for any threads,
  loopers, messages and delays, from one invariant, `LoopInv`. `Stationed` says what a
  thread has in its hands at each place of a call. `Owned` says that a looper is alive
  exactly while it is the main one or a thread holds it, and that who destroys it is
  alone with it, so that its list cannot be filled any more. `Placed` and `Single` put every
  message that was sent in one place, once; without them an insertion could put a message
  beside a copy of itself, whose place among its equals is not defined. `Sorted` adds to
  the order that what is in a list has arrived, so that a new message comes after all of its time.
* `EveryEventKept` and `EveryOrderAgrees` of `Actor`, for any actors, publishers and events.
  Both are about the path of an actor: what it has seen and what is in its queue. `Reached`
  says that an event is on it, once, if the publisher meant the actor and has been there.
  Agreement between two actors is not inductive, as one of them may have the event that is
  being published and the other not yet; `Newest` says that, for each actor, nothing that
  has other receivers comes after such an event, which the mutex of `Handle` gives.
* `EveryStreamInReach`, `EveryDroppedClosed` and `EveryRaceKnown` of `Speaker`, for any clients,
  tasks, streams and chunks. `SpeakerInv` says who has a stream in hand (`Stationed`), that
  a stream has one task or one call of Play that made it (`Single`), and that the loop closes
  the handles before it says so in `is_running_` (`Closing`), so that a call that sees a
  stream not running drops one that is closed. A stream that is not running is in no callback
  of the loop but stream_drain_complete (`drains`), which needs a drain that was asked for and
  not answered; the theorems say so, and not that it cannot come. The two action properties
  follow from `SpeakerInv` and from `Moves`, which says for each step what it may do to a stream.
* `RingsLinked` and `NodesFreed` for the linked containers, for any number of nodes.
  That the pointers are inverse to each other is not inductive: it admits a
  second ring beside the one through the head, whose nodes the destructor would
  never meet. `LinkInv` therefore asks for one ring (`OneRing`): a path from the
  head through all nodes that exist and back, given as a function on 0..size
  (`IsPath`). `RingLinks` reads the pointers off the path, `InsertPath` and
  `UnlinkPath` say how a push at either end and a removal anywhere change it, and
  `LoopPlace` keeps the loop variable on it, at its first node while the
  destructor runs, which is why nothing is left when the destructor meets the head.
* `ListsRefined`: read along its ring, the list implements `Container`. The path of `OneRing` is
  only known to exist, while `Contents` walks the pointers; `PathIs` shows that the walk
  visits the path, by `Induction` on its length. `Inserted` and `Removed` say what a push and a
  removal do to the path, `Without` what a removal does to the sequence read. Since `Remove`
  takes one step per node, `Passed` says that it has passed none that it should have deleted.
* `RingRefined`: the ring implements `ByteBuffer`, for every width of the counters and every
  size that the constructor can be asked for (`InWord`). The sizes are what
  `GetRoundupPowerOfTwo` returns, and `RoundupSize` shows that these are powers of two that
  divide the word: without that an index, the counter modulo the size, would jump where the
  counter wraps. `RingInv` says that no more is unread than the ring holds. From it `Reading`
  gives the bytes in the buffer as the slots from the read index on, `PushKeeps` and
  `PopKeeps` what a call does to them. The one hypothesis that is not about the
  arguments is `Doubling`, the law 2^(n+1) = 2 * 2^n: the provers do not know `^`.
* `ItemsReadBack`: what `operator<<` wrote comes back from `operator>>`, for any base, widths,
  items and lengths. The buffer has no tags, so that nothing in it says where an item begins.
  `SerialInv` therefore says that there are places, one behind each item (`Places`), between
  which stand the chars of that item, and that the offset is the place behind the last one
  read. That the chars of a number are its digits and give it back is `NumberIs`, an induction
  over their number; `UnsignedBack` and `SignedBack` add the range and the sign. As for the ring,
  one hypothesis (`Powers`) says what `^` is.
* `RangesAgree`: a block goes from the address given, which the code does not mask, to the last
  one with the same first bits, and in network order from the same head to the same tail with
  their octets swapped, for octets of any number and width; a range of two ends is accepted in
  host form by the order of its octets, in net form by their order from the last. An address is the
  sum of its octets and its octets are the digits of the sum (`ByteDigits`, `StringOfByte`).
  Bits are quotients, so that `FewerOnes` can say which of two numbers is smaller by their
  ones, `OrIs` what `|` returns, and `BitOfSwap` where `htonl` puts a bit; `LastOf` gives the
  last address of a block, and `SwapOr` carries it to network order. The end of a block
  whose octets are swapped is not the last number of any range of numbers: that it is
  still not below its head is a part of the theorem. `OctetOrder` says that numbers are in
  the order of their octets, and `SwappedOrder` that swapped numbers are in the order from the
  other end. The hypothesis is `Doubling` again.
* `TextsKept`: the functions on texts, for any characters and keys and any length. They all
  walk a text from place to place, each to one behind it; `Downwards` is induction from the
  last place to the first, `Walk` gives the function that such a recursion defines, `Cuts` the
  places it meets, and `Tiled` says that the parts between them, put together, are the text.
  That is enough for `SplitLines`, `SplitString` and the digits (`LinesKeep`, `ChunksKeep`,
  `HexBack`). For `Split`, `GreedyExists` shows that keys can be taken from the left as `Taken`
  says, and the induction goes from one fresh place, which no key taken before it reaches
  (`Fresh`), to the one behind the next key: what lies between is free, and
  that key is one of those taken (`Runs`). That is where a key that overlaps itself matters.
* `CallsHold` of `LockQueue`, for any set of threads: a push calls everybody
  who sleeps, nobody goes to sleep beside an item, and whoever takes one makes `woken` of
  all that were `called`.
* `OnlySelf` and `AllCalled` of `Handlers`, for any registrations: `Progress` says that
  the walk has called every node of the list up to the one it stands on and none beyond,
  which a registration keeps because its number is new, and a removal because it only
  takes away.
* `DropsQuiet` of `SpeakerGst`: a player in the map runs, or is set to NULL, or was
  turned on after its end; and one that a Play has in hand is in no other hand and not in
  the map (`EndedStill`), so that a cancel never meets it.
* `DriversKept` of `PlugFactory`, if the special names are no libraries or plug-ins
  (`PlugsNamed`): what a library in memory offers is registered, and a factory that is not in
  memory is of a library that failed (`Kept`).
* `LaunchesFresh` of `HttpClient`, for any texts and number of launches: while libcurl
  performs, `_isFirstWrite` tells whether a part of the body has come (`Flagged`), which
  is why the code belongs to the body that is there.

Special values (`None`, `Null`, the head node, the empty event) are none of the ordinary
ones, by named assumptions of their modules (`NoneAssumption`, `NamesAssumption`,
`HeadAssumption`, `NullAssumption`, `ThreadsAssumption`). `ItemsAssumption`, `NetAssumption` and
`TextAssumption` say that items fit their widths, that there are octets, that no key is
empty and that a space is no digit. Also assumed: finite sets of workers and tasks, at least two slots per
level, natural intervals and delays, positive elapsed times (for the exact form see the
assumptions in the modules).

Induction over numbers is within reach where the statement is a set: `Induction` is proved
in `PartsProofs` and `BytesProofs` from `WFMin`, with the order as a relation, since
the library's own induction theorem takes an operator.

Only model-checked:

* `FilesAgree`. `Remove` returns all outcomes of a recursion over a tree that it changes on the
  way, as RECURSIVE operators, in whose modules the provers here lose their arithmetic; and the
  readers of files are built from folds and sorts of the library, about which there are no
  lemmas to cite. It is checked for every tree and text within the bounds.
* All liveness (`TimerServed`, `StopJoins`, `ReleaseReturns`, `Delivered`, `StopReturns`, `WaitsEnd`,
  `Dispatched`, `ControlsAct`, `EndedRemoved`): fairness is stated with ENABLED, which
  the provers installed here do not reason about.

## 6. Not modelled

* Pause and Resume of another thread during a tick, negative intervals,
  and a manager destroyed by its own callback.
* A task or a handler that throws; concurrent Release or Stop of one object by two
  threads; a message sent again while it is queued.
* `LockEvent`, which keeps no state but its condition variable; a handler that runs its
  own `Builder`; the Stop of the PulseAudio speaker.
* The D-Bus client's map of proxies, and plug-ins loaded by two threads at once.
* The HTTP client's DNS cache, which is shared by all clients and made without a lock, its
  copies and its counters.
* Copies of linked containers, callbacks that change the list they walk, texts that
  are no addresses, a serialising buffer that is too small.
* Links, paths with '.', '..' or empty components, and other programs that act while
  a call of `Filesystem` runs.
* Sockets and clocks of `utilities/`, `system/`, `grpc`, the D-Bus server, build scripts and
  images: stateless wrappers or calls into libraries. `grpc_server_loop.h` calls
  `try_pop_front` and `remove`, which no container of the repository has, and cannot be
  instantiated.
