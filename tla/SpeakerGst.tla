----------------------------- MODULE SpeakerGst -----------------------------
(***************************************************************************)
(* The GStreamer speaker of speaker_gst.cpp.  Pause, Resume and Cancel and *)
(* the two walks of the listener hold the recursive mutex of               *)
(* stream_manager_ from end to end, so that each is one action; Play makes *)
(* its stream before it takes the mutex, and GStreamer posts the end of a  *)
(* stream, or an error, on its bus at any time.                            *)
(***************************************************************************)
EXTENDS FiniteSets

CONSTANTS Clients, Tasks,
          Streams,   \* bound: the GstAudio objects that Play may make
          None

ASSUME NoneAssumption == None \notin Streams

VARIABLES
  stream,            \* the GstAudio objects with their pipelines
  stream_manager_,   \* the stream of each task, or None
  hand,              \* per client, the task and stream of a Play that has not inserted it
  is_running_,       \* of the manager
  listener           \* where the listener thread is

vars == <<stream, stream_manager_, hand, is_running_, listener>>

\* pipeline: the state the pipeline was last set to; posted: an end or an error is on
\* the bus; late: paused or resumed after it had ended or was cancelled.
Unmade == [pipeline |-> "none", running |-> FALSE, posted |-> FALSE, late |-> FALSE]

NoPlay == [task |-> None, stream |-> None]

Init ==
  /\ stream = [s \in Streams |-> Unmade]
  /\ stream_manager_ = [t \in Tasks |-> None]
  /\ hand = [c \in Clients |-> NoPlay]
  /\ is_running_ = TRUE
  /\ listener = "print"

Kept(s) == \E t \in Tasks : stream_manager_[t] = s
Dropped(s) ==
  stream[s] # Unmade /\ ~Kept(s) /\ \A c \in Clients : hand[c].stream # s

\* Play, up to the insertion.  gst_parse_launch may refuse the description, and the
\* pipeline the state; the stream then dies with the call.
Play(c, t, s) ==
  /\ hand[c] = NoPlay /\ stream[s] = Unmade
  /\ \/ /\ stream' = [stream EXCEPT ![s].pipeline = "playing", ![s].running = TRUE]
        /\ hand' = [hand EXCEPT ![c] = [task |-> t, stream |-> s]]
     \/ /\ \E left \in {"null", "failed"} : stream' = [stream EXCEPT ![s].pipeline = left]
        /\ UNCHANGED hand
  /\ UNCHANGED <<stream_manager_, is_running_, listener>>

\* map::insert keeps the stream that a task has already, cancelled or not; the new one
\* is then dropped with the pipeline still playing.
Insert(c) ==
  /\ hand[c] # NoPlay
  /\ LET t == hand[c].task
     IN  stream_manager_' = IF stream_manager_[t] = None
                            THEN [stream_manager_ EXCEPT ![t] = hand[c].stream]
                            ELSE stream_manager_
  /\ hand' = [hand EXCEPT ![c] = NoPlay]
  /\ UNCHANGED <<stream, is_running_, listener>>

\* The streams a call is for: that of one task, or all.
Called(tasks) == {stream_manager_[t] : t \in tasks} \ {None}

\* Pause and Resume do not ask whether the stream has ended.
Turn(tasks, state) ==
  /\ stream' = [s \in Streams |->
                  IF s \in Called(tasks)
                  THEN [stream[s] EXCEPT !.pipeline = state, !.late = @ \/ ~stream[s].running]
                  ELSE stream[s]]
  /\ UNCHANGED <<stream_manager_, hand, is_running_, listener>>

Pause(tasks) == Turn(tasks, "paused")
Resume(tasks) == Turn(tasks, "playing")

\* A stream is ended by a flag, and its pipeline set to GST_STATE_NULL, which flushes
\* the bus.
Ended(s) == [stream[s] EXCEPT !.running = FALSE, !.pipeline = "null", !.posted = FALSE]

\* Mutant: only the flag.
CancelFlag(tasks) ==
  /\ stream' = [s \in Streams |-> IF s \in Called(tasks) THEN [stream[s] EXCEPT !.running = FALSE]
                                  ELSE stream[s]]
  /\ UNCHANGED <<stream_manager_, hand, is_running_, listener>>

Cancel(tasks) ==
  /\ stream' = [s \in Streams |-> IF s \in Called(tasks) THEN Ended(s) ELSE stream[s]]
  /\ UNCHANGED <<stream_manager_, hand, is_running_, listener>>

\* GStreamer: the end of what plays, or an error.
Post(s) ==
  /\ stream[s].pipeline \in {"playing", "paused"} /\ ~Dropped(s)
  /\ stream' = [stream EXCEPT ![s].posted = TRUE]
  /\ UNCHANGED <<stream_manager_, hand, is_running_, listener>>

-----------------------------------------------------------------------------
\* The listener thread.

\* GstAudio::Print empties the bus of every stream and ends those with a message.
PrintBus ==
  /\ listener = "print"
  /\ stream' = [s \in Streams |-> IF Kept(s) /\ stream[s].running /\ stream[s].posted
                                  THEN Ended(s) ELSE stream[s]]
  /\ listener' = "delete"
  /\ UNCHANGED <<stream_manager_, hand, is_running_>>

\* Mutant: the streams of an early end only.
DeleteExpiredPosted ==
  /\ listener = "delete"
  /\ stream_manager_' = [t \in Tasks |->
                           LET s == stream_manager_[t]
                           IN  IF s # None /\ ~stream[s].running /\ stream[s].posted THEN None ELSE s]
  /\ listener' = IF is_running_ THEN "print" ELSE "exited"
  /\ UNCHANGED <<stream, hand, is_running_>>

\* After the sleep: the expired streams are dropped, and the loop goes on or ends.
DeleteExpired ==
  /\ listener = "delete"
  /\ stream_manager_' = [t \in Tasks |->
                           LET s == stream_manager_[t]
                           IN  IF s # None /\ ~stream[s].running THEN None ELSE s]
  /\ listener' = IF is_running_ THEN "print" ELSE "exited"
  /\ UNCHANGED <<stream, hand, is_running_>>

-----------------------------------------------------------------------------
\* The destructor of the manager, when no call is under way.

Stop ==
  /\ is_running_ /\ \A c \in Clients : hand[c] = NoPlay
  /\ is_running_' = FALSE
  /\ UNCHANGED <<stream, stream_manager_, hand, listener>>

\* The join has returned: gst_deinit, and the map goes with whatever it holds.
Join ==
  /\ listener = "exited"
  /\ stream_manager_' = [t \in Tasks |-> None]
  /\ listener' = "joined"
  /\ UNCHANGED <<stream, hand, is_running_>>

Listener == PrintBus \/ DeleteExpired

Call ==
  /\ is_running_
  /\ \/ \E c \in Clients : Insert(c) \/ \E t \in Tasks, s \in Streams : Play(c, t, s)
     \/ \E tasks \in {{t} : t \in Tasks} \union {Tasks} :
          Pause(tasks) \/ Resume(tasks) \/ Cancel(tasks)

Next == Call \/ Listener \/ Stop \/ Join \/ \E s \in Streams : Post(s)

Spec == Init /\ [][Next]_vars

\* The listener thread is scheduled, and the destructor goes on after its join.
FairSpec == Spec /\ WF_vars(Listener) /\ WF_vars(Join)

-----------------------------------------------------------------------------
\* Properties.

\* DroppedQuiet: Close only lets the pipeline go, so that whoever drops a stream must
\* have set it to NULL.  A pipeline that still plays, pauses or is half set up is let go
\* only if the stream never came into the map (the task had one, or the set-up failed),
\* if somebody paused or resumed it after its end, or with the manager.
DroppedQuiet ==
  [][\A s \in Streams :
       (~Dropped(s) /\ Dropped(s)' /\ stream'[s].pipeline # "null") =>
         ~Kept(s) \/ stream[s].late \/ listener' = "joined"]_vars

\* EndedRemoved: a stream in the map whose pipeline has posted its end, or that was
\* cancelled, leaves the map, so that its task can be played again, unless the manager
\* is destroyed first, which it can be.
EndedRemoved ==
  /\ \A s \in Streams : (Kept(s) /\ (stream[s].posted \/ ~stream[s].running)) ~> ~Kept(s)
  /\ ~is_running_ ~> listener = "joined"
=============================================================================
