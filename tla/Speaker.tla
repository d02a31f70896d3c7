------------------------------ MODULE Speaker ------------------------------
(***************************************************************************)
(* PulseAudioManager and its AudioStreams, of speaker_pulseaudio.cpp.      *)
(* Clients call the manager; one thread runs the PulseAudio main loop and  *)
(* makes the callbacks.  The loop takes no lock: it shares the flags and   *)
(* the handles of a stream with the clients, which hold the mutex of       *)
(* stream_manager_.  A step is what one thread does to one of those fields.*)
(* PulseAudio itself is external: a call of it is one step, it asks an     *)
(* open stream for data at any time, corked or not, and it is fair to      *)
(* those that are not corked.                                              *)
(***************************************************************************)
EXTENDS Integers, FiniteSets

CONSTANTS Clients, Tasks,
          Calls,     \* the operations that each client calls
          Streams,   \* bound on the AudioStreams made
          Chunks,    \* the requests that one file can fulfil
          None

ASSUME ChunksAssumption == Chunks \in Nat
ASSUME NoneAssumption == None \notin Clients \union Tasks \union Streams

VARIABLES
  stream,              \* the AudioStreams made, with PulseAudio's side of each
  stream_manager_,     \* the stream of each task, or None
  mutex,               \* the client that holds the lock of stream_manager_, or None
  client,              \* where each client is in its call
  loop,                \* where the loop thread is in a callback, of which stream, and whether
                       \* that is stream_drain_complete
  context,             \* PulseAudio's context: "connecting", "ready" or "failed"
  context_is_connect_,
  running,             \* pa_mainloop_run has not been told to quit
  aborted              \* an access to a destroyed stream ended the process

clientVars == <<stream_manager_, mutex, client>>    \* the loop changes none of these

loopVars == <<loop, context, running>>              \* the clients change none of these, but for Quit

vars == <<stream, clientVars, loopVars, context_is_connect_, aborted>>

Idle == [pc |-> "idle", op |-> "", todo |-> {}, task |-> None, stream |-> None]

LoopIdle == [pc |-> "idle", stream |-> None, drains |-> FALSE]

Destructing == {"closeStream", "closeFile", "closed"}

Init ==
  /\ stream = [s \in {} |-> None]
  /\ stream_manager_ = [t \in Tasks |-> None]
  /\ mutex = None
  /\ client = [c \in Clients |-> Idle]
  /\ loop = LoopIdle
  /\ context = "connecting"
  /\ context_is_connect_ = FALSE
  /\ running = TRUE
  /\ aborted = FALSE

Goto(c, pc) == client' = [client EXCEPT ![c].pc = pc]

Set(s, field, value) == stream' = [stream EXCEPT ![s][field] = value]

----------------------------------------------------------------------------
(* AudioStream::Close, by the destructor on a client or by a callback.  What *)
(* is in pc is what is next: stream_, sndfile_, is_running_.  It takes back  *)
(* the callbacks of line 34, not the drain that a request has asked for.     *)

\* Mutant: the stream tells that it is closed first.
CloseStepEarly(pc, s) ==
  CASE pc = "closeStream" -> Set(s, "is_running_", FALSE)
    [] pc = "closeFile" -> Set(s, "sndfile_", FALSE)
    [] pc = "closed" ->
         stream' = [stream EXCEPT ![s].stream_ = FALSE, ![s].connected = FALSE,
                                  ![s].callback = FALSE]

\* stream_, sndfile_, is_running_
CloseStep(pc, s) ==
  CASE pc = "closeStream" ->
         stream' = [stream EXCEPT ![s].stream_ = FALSE, ![s].connected = FALSE,
                                  ![s].callback = FALSE]
    [] pc = "closeFile" -> Set(s, "sndfile_", FALSE)
    [] pc = "closed" -> Set(s, "is_running_", FALSE)

AfterClose(pc) ==
  CASE pc = "closeStream" -> "closeFile"
    [] pc = "closeFile" -> "closed"
    [] pc = "closed" -> "idle"

----------------------------------------------------------------------------
(* Clients *)

Held == {t \in Tasks : stream_manager_[t] # None}

\* Pause, Resume and Cancel, of every task or of one that may not be there, and
\* Play of task, which first looks at every task for streams that have expired.
Call(c, op, tasks, task) ==
  /\ client[c] = Idle /\ mutex = None
  /\ mutex' = c
  /\ client' = [client EXCEPT ![c] = [pc |-> "each", op |-> op, todo |-> tasks \intersect Held,
                                     task |-> task, stream |-> None]]
  /\ UNCHANGED <<stream, stream_manager_, context_is_connect_>>

\* Mutant: Resume does not look at stream_.
AlwaysResumed(s) == TRUE

\* The test of Resume.
Resumable(s) == stream[s].stream_

\* One turn of ForEach, or of RemoveIf.  The destructor of a stream that RemoveIf
\* erases finds nothing left to close.
Each(c) ==
  /\ client[c].pc = "each"
  /\ \E t \in client[c].todo :
       LET s == stream_manager_[t]
           op == client[c].op
       IN  \/ /\ op = "Resume" /\ Resumable(s)
              /\ client' = [client EXCEPT ![c].todo = @ \ {t}, ![c].pc = "resume", ![c].stream = s]
              /\ UNCHANGED <<stream, stream_manager_>>
           \/ /\ client' = [client EXCEPT ![c].todo = @ \ {t}]
              /\ \/ op = "Resume" /\ ~Resumable(s) /\ UNCHANGED <<stream, stream_manager_>>
                 \/ op = "Pause" /\ Set(s, "is_pause_", TRUE) /\ UNCHANGED stream_manager_
                 \/ op = "Cancel" /\ Set(s, "is_cancel_", TRUE) /\ UNCHANGED stream_manager_
                 \/ /\ op = "Play" /\ UNCHANGED stream
                    /\ stream_manager_' = [stream_manager_ EXCEPT ![t] = IF stream[s].is_running_ THEN s ELSE None]
  /\ UNCHANGED <<mutex, context_is_connect_>>

\* The rest of AudioStream::Resume, after it has seen stream_.
Resume(c) ==
  /\ client[c].pc = "resume"
  /\ Set(client[c].stream, "is_pause_", FALSE)
  /\ Goto(c, "uncork")
  /\ UNCHANGED <<stream_manager_, mutex, context_is_connect_>>

\* pa_stream_cork(stream_, 0).  The loop may have closed stream_ by now (Misuse).
Uncork(c) ==
  /\ client[c].pc = "uncork"
  /\ Set(client[c].stream, "corked", FALSE)
  /\ client' = [client EXCEPT ![c].pc = "each", ![c].stream = None]
  /\ UNCHANGED <<stream_manager_, mutex, context_is_connect_>>

Release(c) ==
  /\ client[c].pc = "each" /\ client[c].todo = {}
  /\ mutex' = None
  /\ client' = [client EXCEPT ![c] = IF @.op = "Play" THEN [@ EXCEPT !.pc = "start"] ELSE Idle]
  /\ UNCHANGED <<stream, stream_manager_, context_is_connect_>>

\* The rest of Play: the context, and AudioStream::Start, which opens the file, makes
\* the stream and connects it; each may fail.
Refuse(c) ==
  /\ client[c].pc = "start"
  /\ ~context_is_connect_
  /\ client' = [client EXCEPT ![c] = Idle]
  /\ UNCHANGED <<stream, stream_manager_, mutex, context_is_connect_>>

Start(c, s) ==
  /\ client[c].pc = "start"
  /\ context_is_connect_
  /\ \E opened \in 0..3 :     \* how many of the three succeed
       /\ stream' = [x \in DOMAIN stream \union {s} |->
                       IF x # s THEN stream[x]
                       ELSE [is_pause_ |-> FALSE, is_cancel_ |-> FALSE, is_running_ |-> TRUE,
                             sndfile_ |-> opened > 0, stream_ |-> opened > 1, connected |-> opened > 2,
                             callback |-> opened > 1, corked |-> FALSE, draining |-> FALSE, left |-> Chunks]]
       /\ client' = [client EXCEPT ![c].pc = IF opened = 3 THEN "insert" ELSE "closeStream", ![c].stream = s]
  /\ UNCHANGED <<stream_manager_, mutex, context_is_connect_>>

\* Insert leaves the stream a task has; the new one is then destroyed.
Insert(c) ==
  /\ client[c].pc = "insert" /\ mutex = None
  /\ IF stream_manager_[client[c].task] = None
     THEN /\ stream_manager_' = [stream_manager_ EXCEPT ![client[c].task] = client[c].stream]
          /\ client' = [client EXCEPT ![c] = Idle]
     ELSE Goto(c, "closeStream") /\ UNCHANGED stream_manager_
  /\ UNCHANGED <<stream, mutex, context_is_connect_>>

\* Mutant: the destructor does not close.
DestroyForgets(c) ==
  /\ client[c].pc \in Destructing
  /\ client' = [client EXCEPT ![c] = Idle]
  /\ UNCHANGED <<stream, stream_manager_, mutex, context_is_connect_>>

\* The destructor of a stream that Play leaves behind.
Destroy(c) ==
  /\ client[c].pc \in Destructing
  /\ CloseStep(client[c].pc, client[c].stream)
  /\ IF client[c].pc = "closed" THEN client' = [client EXCEPT ![c] = Idle] ELSE Goto(c, AfterClose(client[c].pc))
  /\ UNCHANGED <<stream_manager_, mutex, context_is_connect_>>

\* ExitLoop, in two steps
Disconnect(c) ==
  /\ client[c] = Idle
  /\ context_is_connect_' = FALSE
  /\ Goto(c, "quit")
  /\ UNCHANGED <<stream, stream_manager_, mutex>>

Quit(c) ==
  /\ client[c].pc = "quit"
  /\ running' = FALSE
  /\ client' = [client EXCEPT ![c] = Idle]
  /\ UNCHANGED <<stream, stream_manager_, mutex, loop, context, context_is_connect_>>

----------------------------------------------------------------------------
(* The loop thread *)

\* context_state_callback
ContextState(state) ==
  /\ running /\ loop = LoopIdle
  /\ context = "connecting" \/ (context = "ready" /\ state = "failed")
  /\ context' = state
  /\ context_is_connect_' = (state = "ready")
  /\ UNCHANGED <<stream, loop>>

Serving == running /\ loop = LoopIdle /\ context = "ready"

\* Mutant: the end of the file does not ask for a drain.
RequestNoDrain(s) ==
  /\ Serving /\ stream[s].connected /\ stream[s].callback
  /\ \/ /\ loop' = [pc |-> "closeStream", stream |-> s, drains |-> FALSE]
        /\ UNCHANGED stream
     \/ /\ loop' = [pc |-> "pause", stream |-> s, drains |-> FALSE]
        /\ IF stream[s].left > 0
           THEN Set(s, "left", stream[s].left - 1)
           ELSE Set(s, "callback", FALSE)
  /\ UNCHANGED <<context, context_is_connect_>>

\* stream_request_cb up to the flags: a chunk is written, or the file is at its end
\* and the stream is drained; begin_write and drain may fail.
Request(s) ==
  /\ Serving /\ stream[s].connected /\ stream[s].callback
  /\ \/ /\ loop' = [pc |-> "closeStream", stream |-> s, drains |-> FALSE]
        /\ UNCHANGED stream
     \/ /\ loop' = [pc |-> "pause", stream |-> s, drains |-> FALSE]
        /\ IF stream[s].left > 0
           THEN Set(s, "left", stream[s].left - 1)
           ELSE stream' = [stream EXCEPT ![s].callback = FALSE, ![s].draining = TRUE]
  /\ UNCHANGED <<context, context_is_connect_>>

\* stream_drain_complete: the drain has ended or failed, or the server answers it when
\* the stream has been closed, and even destroyed, before (Misuse).
DrainComplete(s) ==
  /\ Serving /\ stream[s].draining
  /\ loop' = [pc |-> "closeStream", stream |-> s, drains |-> TRUE]
  /\ Set(s, "draining", FALSE)
  /\ UNCHANGED <<context, context_is_connect_>>

\* The rest of stream_request_cb.
CheckPause ==
  /\ loop.pc = "pause"
  /\ loop' = [loop EXCEPT !.pc = IF stream[loop.stream].is_pause_ THEN "cork" ELSE "cancel"]
  /\ UNCHANGED <<stream, context, context_is_connect_>>

Cork ==
  /\ loop.pc = "cork"
  /\ Set(loop.stream, "corked", TRUE)
  /\ loop' = [loop EXCEPT !.pc = "cancel"]
  /\ UNCHANGED <<context, context_is_connect_>>

CheckCancel ==
  /\ loop.pc = "cancel"
  /\ loop' = IF stream[loop.stream].is_cancel_ THEN [loop EXCEPT !.pc = "closeStream"] ELSE LoopIdle
  /\ UNCHANGED <<stream, context, context_is_connect_>>

Close ==
  /\ loop.pc \in Destructing
  /\ CloseStep(loop.pc, loop.stream)
  /\ loop' = IF loop.pc = "closed" THEN LoopIdle ELSE [loop EXCEPT !.pc = AfterClose(@)]
  /\ UNCHANGED <<context, context_is_connect_>>
----------------------------------------------------------------------------
(* What keeps a stream from being destroyed: the manager, or a call of Play. *)

Owned(s) ==
  \/ \E t \in Tasks : stream_manager_[t] = s
  \/ \E c \in Clients : client[c].pc = "insert" /\ client[c].stream = s

\* An access to freed memory or to a closed handle: pa_stream_cork of a stream that
\* the loop has closed since stream_ was looked at, or a callback of a stream that Play
\* destroys because the task had one already, or that RemoveIf has destroyed.
Misuse ==
  \/ \E c \in Clients : client[c].pc = "uncork" /\ ~stream[client[c].stream].stream_
  \/ loop.stream # None /\ ~Owned(loop.stream)

\* The process may go on after it as if the memory were still there, or not.
Abort == ~aborted /\ Misuse /\ aborted' = TRUE /\ UNCHANGED <<stream, clientVars, loopVars, context_is_connect_>>

\* The next AudioStream; nothing tells which of the unused ones it is.
Fresh == CHOOSE s \in Streams : s \notin DOMAIN stream

ClientStep(c) ==
  \/ \E op \in Calls[c] \intersect {"Pause", "Resume", "Cancel"}, tasks \in {Tasks} \union {{t} : t \in Tasks} : Call(c, op, tasks, None)
  \/ "Play" \in Calls[c] /\ \E t \in Tasks : Call(c, "Play", Tasks, t)
  \/ Each(c) \/ Resume(c) \/ Uncork(c) \/ Release(c)
  \/ Refuse(c) \/ (\E s \in Streams \ DOMAIN stream : s = Fresh /\ Start(c, s)) \/ Insert(c) \/ Destroy(c)
  \/ "ExitLoop" \in Calls[c] /\ Disconnect(c)

Callback == CheckPause \/ Cork \/ CheckCancel \/ Close

Alive(A) == ~aborted /\ A /\ UNCHANGED aborted

ByLoop(A) == Alive(A /\ UNCHANGED <<clientVars, running>>)

Next ==
  \/ \E c \in Clients : Alive(ClientStep(c) /\ UNCHANGED loopVars) \/ Alive(Quit(c))
  \/ \E state \in {"ready", "failed"} : ByLoop(ContextState(state))
  \/ \E s \in DOMAIN stream : ByLoop(Request(s)) \/ ByLoop(DrainComplete(s))
  \/ ByLoop(Callback)
  \/ Abort

Spec == Init /\ [][Next]_vars

\* The loop thread runs, and the server asks for more of what it plays.
Playing(s) == s \in DOMAIN stream /\ stream[s].connected /\ ~stream[s].corked

FairSpec ==
  /\ Spec
  /\ WF_vars(ByLoop(Callback))
  /\ \A s \in Streams : WF_vars(ByLoop(Playing(s) /\ Request(s))) /\ WF_vars(ByLoop(Playing(s) /\ DrainComplete(s)))

----------------------------------------------------------------------------
\* InReach: no stream plays on that Pause and Cancel cannot find, and none is lost
\* before it is closed: one that is connected or counts as running is the stream of a
\* task, or of a call of Play that has yet to insert it or to close it.
InReach ==
  \A s \in DOMAIN stream :
    stream[s].connected \/ stream[s].is_running_ =>
      Owned(s) \/ \E c \in Clients : client[c].stream = s /\ client[c].pc \in Destructing

\* DroppedClosed: a task loses its stream, to RemoveIf or to another stream, only
\* when nothing of the stream is open, and no callback of it is under way but for
\* one: stream_drain_complete, which comes when it likes.
DroppedClosed ==
  [][\A t \in Tasks :
       LET s == stream_manager_[t]
       IN  s # None /\ stream_manager_'[t] # s =>
             /\ ~stream[s].stream_ /\ ~stream[s].sndfile_ /\ ~stream[s].connected
             /\ loop.stream = s => loop.drains]_vars

\* A client in Resume of s; one that will pass a closed stream_ to PulseAudio; and a stream
\* that stays silent although it is not paused.
Resuming(s) == \E c \in Clients : client[c].stream = s /\ client[c].pc \in {"resume", "uncork"}
Lost(s) == Resuming(s) /\ ~stream[s].stream_
Silent(s) == stream[s].corked /\ ~stream[s].is_pause_ /\ ~Resuming(s)

\* The loop works on a stream that nobody keeps: Play destroys one because its task had one,
\* or the drain of one that is closed is yet to be answered, or is being answered.
Stray(s) == loop.stream = s /\ ~Owned(s)
Left(s) == \E c \in Clients : client[c].stream = s /\ client[c].pc \in {"insert"} \union Destructing
Late(s) == ~stream[s].is_running_ /\ (stream[s].draining \/ (loop.stream = s /\ loop.drains))

\* RacesOnly: in these ways, and in no other, Resume loses its stream or its effect and the
\* loop a stream it works on.  The handle that Resume has tested is closed under it only by
\* the loop; a stream that is not paused stays corked only when a callback had seen it
\* paused; and the loop comes to work on a stream that nobody keeps only when a call of Play
\* leaves it, or in stream_drain_complete of a stream that was closed with a drain asked for.
RacesOnly ==
  [][\A s \in DOMAIN stream :
       /\ ~Lost(s) /\ Lost(s)' => loop.stream = s /\ loop.pc = "closeStream"
       /\ ~Silent(s) /\ Silent(s)' => loop.stream = s /\ loop.pc = "cork"
       /\ ~Stray(s) /\ Stray(s)' => Left(s) \/ Late(s)]_vars

Gone == aborted \/ ~running \/ context # "ready"

\* ControlsAct: a cancelled stream is closed in the end, unless it stands corked,
\* when the server may never ask again; and a paused stream is corked or closed,
\* or resumed before that.
ControlsAct ==
  \A s \in Streams :
    LET Has(flags) == s \in DOMAIN stream /\ \E f \in flags : stream[s][f]
        Closed == s \in DOMAIN stream /\ ~stream[s].is_running_
    IN  /\ Has({"is_cancel_"}) ~> (Gone \/ Closed \/ Has({"corked"}))
        /\ Has({"is_pause_"}) ~> (Gone \/ Closed \/ Has({"corked"}) \/ ~Has({"is_pause_"}))
=============================================================================
