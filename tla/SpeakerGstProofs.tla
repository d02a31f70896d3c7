--------------------------- MODULE SpeakerGstProofs ---------------------------
\* Proofs about SpeakerGst, for any clients, tasks and streams.
EXTENDS SpeakerGst, TLAPS

Stream == [pipeline : {"none", "null", "failed", "playing", "paused"},
           running : BOOLEAN, posted : BOOLEAN, late : BOOLEAN]

\* The ranges of the variables.
Ranges ==
  /\ stream \in [Streams -> Stream]
  /\ stream_manager_ \in [Tasks -> Streams \union {None}]
  /\ hand \in [Clients -> [task : Tasks, stream : Streams] \union {NoPlay}]

Quiet(s) == stream[s].running \/ stream[s].pipeline = "null" \/ stream[s].late

\* A stream in the map has ended only with its pipeline set to NULL, unless it was turned
\* on afterwards; and one that a Play has in hand is in no other hand and not in the map.
EndedStill ==
  /\ \A t \in Tasks : stream_manager_[t] # None =>
       Quiet(stream_manager_[t]) /\ stream[stream_manager_[t]].pipeline # "none"
  /\ \A c \in Clients : hand[c] # NoPlay =>
       /\ stream[hand[c].stream].running /\ stream[hand[c].stream].pipeline # "none"
       /\ \A t \in Tasks : stream_manager_[t] # hand[c].stream
       /\ \A d \in Clients : d # c => hand[d].stream # hand[c].stream

StillInv == Ranges /\ EndedStill

\* The invariant holds at the start.
LEMMA StillInit == Init => StillInv
<1> SUFFICES ASSUME Init PROVE StillInv
  OBVIOUS
<1>1. Unmade \in Stream
  BY DEF Unmade, Stream
<1>2. Ranges
  BY <1>1 DEF Init, Ranges
<1>3. EndedStill
  BY DEF Init, EndedStill
<1>4. QED
  BY <1>2, <1>3 DEF StillInv

\* Play makes a stream that only its caller has.
LEMMA PlayKeeps ==
  ASSUME StillInv, NEW c \in Clients, NEW t \in Tasks, NEW s \in Streams, Play(c, t, s)
  PROVE  StillInv'
<1>1. stream[s] = Unmade /\ hand[c] = NoPlay /\ stream_manager_' = stream_manager_
  BY DEF Play
<1>2. /\ stream' \in [Streams -> Stream]
      /\ \A x \in Streams : x # s => stream'[x] = stream[x]
  BY DEF Play, StillInv, Ranges, Stream
<1>3. s # None /\ (\A u \in Tasks : stream_manager_[u] # s) /\ \A d \in Clients : hand[d].stream # s
  BY <1>1, NoneAssumption DEF StillInv, EndedStill, Unmade, Ranges, NoPlay
<1>4. CASE hand' = hand
  BY <1>1, <1>2, <1>3, <1>4 DEF StillInv, Ranges, EndedStill, Quiet, NoPlay
<1>5. CASE hand' = [hand EXCEPT ![c] = [task |-> t, stream |-> s]] /\ stream'[s].running /\ stream'[s].pipeline = "playing"
  <2>1. Ranges'
    BY <1>1, <1>2, <1>5 DEF StillInv, Ranges
  <2>2. EndedStill'
    BY <1>1, <1>2, <1>3, <1>5 DEF StillInv, Ranges, EndedStill, Quiet, NoPlay
  <2>3. QED
    BY <2>1, <2>2 DEF StillInv
<1>6. QED
  BY <1>4, <1>5 DEF Play, StillInv, Ranges, Stream

\* The map gets the stream that Play has in hand.
LEMMA InsertKeeps ==
  ASSUME StillInv, NEW c \in Clients, Insert(c)
  PROVE  StillInv'
<1>1. hand[c] \in [task : Tasks, stream : Streams] /\ hand[c] # NoPlay
  BY DEF Insert, StillInv, Ranges
<1>2. Ranges'
  BY <1>1 DEF Insert, StillInv, Ranges
<1>3. EndedStill'
  BY <1>1, NoneAssumption DEF Insert, StillInv, Ranges, EndedStill, Quiet, NoPlay
<1>4. QED
  BY <1>2, <1>3 DEF StillInv

\* A change of streams that are in the map, each of which stays quiet.
LEMMA ChangeKeeps ==
  ASSUME StillInv, UNCHANGED <<stream_manager_, hand>>,
         stream' \in [Streams -> Stream],
         \A s \in Streams :
           \/ stream'[s] = stream[s]
           \/ Kept(s) /\ Quiet(s)' /\ stream'[s].pipeline # "none"
  PROVE  StillInv'
<1>1. Ranges'
  BY DEF StillInv, Ranges
<1>2. EndedStill'
  BY DEF StillInv, Ranges, EndedStill, Quiet, Kept, NoPlay
<1>3. QED
  BY <1>1, <1>2 DEF StillInv

\* Pause, Resume and Cancel turn the streams they are called for.
LEMMA TurnKeeps ==
  ASSUME StillInv, NEW tasks \in SUBSET Tasks, NEW state \in {"playing", "paused"}, Turn(tasks, state)
  PROVE  StillInv'
<1>1. Called(tasks) \subseteq Streams /\ \A s \in Called(tasks) : Kept(s)
  BY DEF StillInv, Ranges, Called, Kept
<1>2. ASSUME NEW s \in Streams
      PROVE  /\ stream'[s] \in Stream
             /\ \/ stream'[s] = stream[s]
                \/ Kept(s) /\ Quiet(s)' /\ stream'[s].pipeline # "none"
  BY <1>1 DEF Turn, StillInv, Ranges, Stream, Quiet
<1>3. QED
  BY <1>2, ChangeKeeps DEF Turn

\* Streams that end, with the pipeline set to NULL, stay still.
LEMMA EndKeeps ==
  ASSUME StillInv, NEW ends \in SUBSET Streams, \A s \in ends : Kept(s),
         stream' = [s \in Streams |-> IF s \in ends THEN Ended(s) ELSE stream[s]],
         UNCHANGED <<stream_manager_, hand>>
  PROVE  StillInv'
<1>1. ASSUME NEW s \in Streams
      PROVE  /\ stream'[s] \in Stream
             /\ \/ stream'[s] = stream[s]
                \/ Kept(s) /\ Quiet(s)' /\ stream'[s].pipeline # "none"
  BY DEF Ended, StillInv, Ranges, Stream, Quiet
<1>2. QED
  BY <1>1, ChangeKeeps

\* A pipeline posts the end of its stream.
LEMMA PostKeeps ==
  ASSUME StillInv, NEW s \in Streams, Post(s)
  PROVE  StillInv'
<1>1. /\ stream' \in [Streams -> Stream]
      /\ \A x \in Streams : /\ stream'[x].running = stream[x].running
                            /\ stream'[x].late = stream[x].late
                            /\ stream'[x].pipeline = stream[x].pipeline
  BY DEF Post, StillInv, Ranges, Stream
<1>2. QED
  BY <1>1, NoneAssumption DEF Post, StillInv, Ranges, EndedStill, Quiet, NoPlay

\* DeleteExpired and Join only take streams out of the map.
LEMMA DropKeeps ==
  ASSUME StillInv, UNCHANGED <<stream, hand>>, stream_manager_' \in [Tasks -> Streams \union {None}],
         \A t \in Tasks : stream_manager_'[t] \in {stream_manager_[t], None}
  PROVE  StillInv'
BY NoneAssumption DEF StillInv, Ranges, EndedStill, Quiet, NoPlay

\* Every action keeps the invariant.
LEMMA StillStep == StillInv /\ [Next]_vars => StillInv'
<1> SUFFICES ASSUME StillInv, [Next]_vars PROVE StillInv'
  OBVIOUS
<1>1. CASE UNCHANGED <<stream, stream_manager_, hand>>
  BY <1>1 DEF StillInv, Ranges, EndedStill, Quiet
<1>2. ASSUME NEW c \in Clients, Insert(c) PROVE StillInv'
  BY <1>2, InsertKeeps
<1>3. ASSUME NEW c \in Clients, NEW t \in Tasks, NEW s \in Streams, Play(c, t, s) PROVE StillInv'
  BY <1>3, PlayKeeps
<1>4. ASSUME NEW tasks \in SUBSET Tasks, Pause(tasks) \/ Resume(tasks) PROVE StillInv'
  BY <1>4, TurnKeeps DEF Pause, Resume
<1>5. ASSUME NEW tasks \in SUBSET Tasks, Cancel(tasks) PROVE StillInv'
  <2>1. Called(tasks) \subseteq Streams /\ \A s \in Called(tasks) : Kept(s)
    BY DEF StillInv, Ranges, Called, Kept
  <2>2. QED
    BY <1>5, <2>1, EndKeeps DEF Cancel
<1>6. CASE PrintBus
  <2> DEFINE ends == {s \in Streams : Kept(s) /\ stream[s].running /\ stream[s].posted}
  <2>1. stream' = [s \in Streams |-> IF s \in ends THEN Ended(s) ELSE stream[s]]
    BY <1>6 DEF PrintBus
  <2>2. QED
    BY <1>6, <2>1, EndKeeps DEF PrintBus
<1>7. CASE DeleteExpired \/ Join
  BY <1>7, DropKeeps DEF DeleteExpired, Join, StillInv, Ranges
<1>8. ASSUME NEW s \in Streams, Post(s) PROVE StillInv'
  BY <1>8, PostKeeps
<1>9. QED
  BY <1>1, <1>2, <1>3, <1>4, <1>5, <1>6, <1>7, <1>8 DEF Next, Call, Listener, Stop, vars

\* StillInv holds in every reachable state.
LEMMA Still == Spec => []StillInv
BY StillInit, StillStep, PTL DEF Spec

\* A pipeline that still plays is let go only if it never was in the map, if it was turned
\* on after its end, or with the manager: what DeleteExpired drops has ended.
THEOREM DropsQuiet == Spec => DroppedQuiet
<1> DEFINE Step(s) == (~Dropped(s) /\ Dropped(s)' /\ stream'[s].pipeline # "null") =>
                        ~Kept(s) \/ stream[s].late \/ listener' = "joined"
<1>1. ASSUME StillInv, [Next]_vars PROVE [\A s \in Streams : Step(s)]_vars
  <2> SUFFICES ASSUME NEW s \in Streams, Kept(s), ~Kept(s)', listener' # "joined",
                      stream'[s].pipeline # "null"
               PROVE  stream[s].late
    BY DEF Dropped
  <2>1. PICK t \in Tasks : stream_manager_[t] = s /\ stream_manager_'[t] # s
    BY DEF Kept
  <2>2. s # None
    BY NoneAssumption
  <2>3. ~ \E c \in Clients : Insert(c)
    BY <1>1, <2>1, <2>2 DEF Insert, StillInv, Ranges
  <2>4. DeleteExpired
    BY <1>1, <2>1, <2>3 DEF Next, Call, Play, Pause, Resume, Turn, Cancel, Listener, PrintBus, Stop, Join, Post, vars
  <2>5. ~stream[s].running /\ stream' = stream
    BY <2>1, <2>2, <2>4 DEF DeleteExpired
  <2>6. QED
    BY <1>1, <2>1, <2>2, <2>5 DEF StillInv, EndedStill, Quiet
<1>2. QED
  BY <1>1, Still, PTL DEF Spec, DroppedQuiet
=============================================================================
