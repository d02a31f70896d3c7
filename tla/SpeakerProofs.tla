---------------------------- MODULE SpeakerProofs ----------------------------
\* Proofs about Speaker, for any clients, tasks, streams and calls.
EXTENDS Speaker, TLAPS

AudioStream ==
  [is_pause_ : BOOLEAN, is_cancel_ : BOOLEAN, is_running_ : BOOLEAN, sndfile_ : BOOLEAN,
   stream_ : BOOLEAN, connected : BOOLEAN, callback : BOOLEAN, corked : BOOLEAN,
   draining : BOOLEAN, left : Nat]

Locking == {"each", "resume", "uncork"}     \* under the lock of stream_manager_
Making == {"insert"} \union Destructing     \* a stream that Play has made and not inserted
Operations == {"Play", "Pause", "Resume", "Cancel"}

Caller(streams) ==
  [pc : {"idle", "start", "quit"} \union Locking \union Making, op : {""} \union Operations,
   todo : SUBSET Tasks, task : Tasks \union {None}, stream : streams \union {None}]

Types ==
  /\ DOMAIN stream \subseteq Streams /\ stream \in [DOMAIN stream -> AudioStream]
  /\ stream_manager_ \in [Tasks -> DOMAIN stream \union {None}]
  /\ mutex \in Clients \union {None}
  /\ client \in [Clients -> Caller(DOMAIN stream)]
  /\ loop \in [pc : {"idle", "pause", "cork", "cancel"} \union Destructing,
               stream : DOMAIN stream \union {None}, drains : BOOLEAN]

\* What a client and the loop have in their hands at each place of a call.
Stationed ==
  /\ \A c \in Clients :
       /\ client[c].pc \in Locking <=> mutex = c
       /\ client[c].pc \in Making => client[c].stream # None
       /\ client[c].pc \in {"resume", "uncork"} =>
            client[c].stream # None /\ \E t \in Tasks : stream_manager_[t] = client[c].stream
       /\ client[c].pc \in Locking =>
            client[c].op \in Operations /\ \A t \in client[c].todo : stream_manager_[t] # None
       /\ client[c].pc \in {"start", "insert"} \/ (client[c].pc \in Locking /\ client[c].op = "Play") =>
            client[c].task \in Tasks
  /\ loop.pc = "idle" <=> loop.stream = None

\* A stream has one task, or one call of Play that has yet to insert or to destroy it.
Single ==
  /\ \A t, u \in Tasks : stream_manager_[t] = stream_manager_[u] /\ stream_manager_[t] # None => t = u
  /\ \A c \in Clients, t \in Tasks : client[c].pc \in Making => stream_manager_[t] # client[c].stream
  /\ \A c, d \in Clients :
       client[c].pc \in Making /\ client[d].pc \in Making /\ client[c].stream = client[d].stream => c = d

\* The loop closes the handles one by one and tells it last; a stream that is owned and
\* does not run has nothing open, and the loop is at it only to answer a drain.
Closing ==
  /\ loop.pc \in {"closeFile", "closed"} =>
       ~stream[loop.stream].stream_ /\ ~stream[loop.stream].connected
  /\ loop.pc = "closed" => ~stream[loop.stream].sndfile_
  /\ \A s \in DOMAIN stream : Owned(s) /\ ~stream[s].is_running_ =>
       /\ ~stream[s].stream_ /\ ~stream[s].sndfile_ /\ ~stream[s].connected
       /\ loop.stream = s => loop.drains

\* Play, when it destroys a stream, begins with the handle.
Shut == \A c \in Clients :
  client[c].pc \in {"closeFile", "closed"} => ~stream[client[c].stream].connected

SpeakerInv == Types /\ Stationed /\ Single /\ Closing /\ Shut /\ InReach

\* The invariant holds at the start.
LEMMA SpeakerInit == Init => SpeakerInv
<1> SUFFICES ASSUME Init PROVE SpeakerInv
  OBVIOUS
<1>1. Types
  BY DEF Init, Types, Caller, Idle, LoopIdle, Locking, Making, Destructing, Operations
<1>2. Stationed /\ Single
  BY NoneAssumption DEF Init, Stationed, Single, Idle, LoopIdle, Locking, Making, Destructing
<1>3. Closing /\ Shut /\ InReach
  BY DEF Init, Closing, Shut, InReach, Idle, LoopIdle
<1>. QED
  BY <1>1, <1>2, <1>3 DEF SpeakerInv

-----------------------------------------------------------------------------
\* What the steps do to a stream.

\* No stream is made or forgotten, and what tells whether one is open stays.
OpenSame ==
  /\ DOMAIN stream' = DOMAIN stream /\ stream' \in [DOMAIN stream -> AudioStream]
  /\ \A s \in DOMAIN stream :
       /\ stream'[s].is_running_ = stream[s].is_running_
       /\ stream'[s].sndfile_ = stream[s].sndfile_
       /\ stream'[s].stream_ = stream[s].stream_
       /\ stream'[s].connected = stream[s].connected

\* Setting one of these flags opens and closes nothing.
LEMMA FlagSet ==
  ASSUME Types, NEW s \in DOMAIN stream, NEW f \in {"is_pause_", "is_cancel_", "corked", "callback", "draining"},
         NEW v \in BOOLEAN, Set(s, f, v)
  PROVE  OpenSame
<1>1. stream \in [DOMAIN stream -> AudioStream] /\ stream' = [stream EXCEPT ![s][f] = v]
  BY DEF Types, Set
<1>. QED
  BY <1>1 DEF OpenSame, AudioStream

\* One step of Close.
LEMMA Closed ==
  ASSUME Types, NEW s \in DOMAIN stream, NEW at \in Destructing, CloseStep(at, s)
  PROVE  /\ DOMAIN stream' = DOMAIN stream /\ stream' \in [DOMAIN stream -> AudioStream]
         /\ \A x \in DOMAIN stream : x # s => stream'[x] = stream[x]
         /\ stream'[s].is_running_ = (stream[s].is_running_ /\ at # "closed")
         /\ stream'[s].sndfile_ = (stream[s].sndfile_ /\ at # "closeFile")
         /\ stream'[s].stream_ = (stream[s].stream_ /\ at # "closeStream")
         /\ stream'[s].connected = (stream[s].connected /\ at # "closeStream")
<1>1. stream \in [DOMAIN stream -> AudioStream]
  BY DEF Types
<1>2. CASE at = "closeStream"
  <2> DEFINE shut == [stream[s] EXCEPT !.stream_ = FALSE, !.connected = FALSE,
                                      !.callback = FALSE]
  <2>1. stream' = [stream EXCEPT ![s].stream_ = FALSE, ![s].connected = FALSE,
                                 ![s].callback = FALSE]
    BY <1>2 DEF CloseStep
  <2>2. stream' = [stream EXCEPT ![s] = shut]
    BY <1>1, <2>1
  <2>3. shut \in AudioStream /\ shut.is_running_ = stream[s].is_running_ /\ shut.sndfile_ = stream[s].sndfile_
        /\ shut.stream_ = FALSE /\ shut.connected = FALSE
    BY <1>1 DEF AudioStream
  <2> HIDE DEF shut
  <2>4. DOMAIN stream' = DOMAIN stream /\ stream' \in [DOMAIN stream -> AudioStream] /\ stream'[s] = shut
    BY <1>1, <2>2, <2>3
  <2>5. stream[s].is_running_ \in BOOLEAN /\ stream[s].sndfile_ \in BOOLEAN
    BY <1>1 DEF AudioStream
  <2>. QED
    BY <1>1, <1>2, <2>2, <2>3, <2>4, <2>5
<1>3. CASE at = "closeFile"
  BY <1>1, <1>3 DEF CloseStep, AudioStream, Set
<1>4. CASE at = "closed"
  BY <1>1, <1>4 DEF CloseStep, AudioStream, Set
<1>. QED
  BY <1>2, <1>3, <1>4 DEF Destructing

-----------------------------------------------------------------------------
\* The clients.

\* The place and the stream of a client outside every call.
LEMMA IdleFields == Idle.pc = "idle" /\ Idle.stream = None
BY DEF Idle

\* A client that does not have a stream of its own, before or after.
LEMMA CallKeeps ==
  ASSUME SpeakerInv, NEW c \in Clients, NEW op \in Operations, NEW tasks \in SUBSET Tasks,
         NEW task \in Tasks \union {None}, op = "Play" => task \in Tasks,
         Call(c, op, tasks, task), UNCHANGED loopVars
  PROVE  SpeakerInv'
<1> USE DEF SpeakerInv
<1>1. /\ client[c] = Idle /\ mutex = None /\ mutex' = c
      /\ client' = [client EXCEPT ![c] = [pc |-> "each", op |-> op, todo |-> tasks \intersect Held,
                                          task |-> task, stream |-> None]]
      /\ UNCHANGED <<stream, stream_manager_, loop>>
  BY DEF Call, loopVars
<1>2. \A d \in Clients : d # c => client'[d] = client[d]
  BY <1>1 DEF Types, Caller
<1>3. /\ client'[c].pc = "each" /\ client'[c].op = op /\ client'[c].task = task
      /\ client'[c].todo = tasks \intersect Held /\ client'[c].stream = None
  BY <1>1 DEF Types, Caller
<1>4. Types'
  BY <1>1 DEF Types, Caller, Locking, Held
<1>5. client[c].pc = "idle" /\ client[c].stream = None
  BY <1>1, IdleFields
<1>6. \A d \in Clients : client[d].pc \notin Locking
  BY <1>1, NoneAssumption DEF Stationed
<1>7. \A t \in client'[c].todo : stream_manager_'[t] # None
  BY <1>1, <1>3 DEF Held
<1>8. Stationed'
  BY <1>1, <1>2, <1>3, <1>6, <1>7 DEF Stationed, Locking, Making, Destructing
<1>9. Single'
  BY <1>1, <1>2, <1>3 DEF Single, Making, Destructing
<1>10. \A s : Owned(s)' <=> Owned(s)
  BY <1>1, <1>2, <1>3, <1>5 DEF Owned
<1>11. Closing'
  BY <1>1, <1>10 DEF Closing
<1>12. InReach'
  BY <1>1, <1>2, <1>5, <1>10 DEF InReach, Destructing
<1>13. Shut'
  BY <1>1, <1>2, <1>3 DEF Shut
<1>. QED
  BY <1>4, <1>8, <1>9, <1>11, <1>12, <1>13

\* The loop of Pause, Resume, Cancel or RemoveIf over the tasks.
LEMMA EachKeeps ==
  ASSUME SpeakerInv, NEW c \in Clients, Each(c), UNCHANGED loopVars
  PROVE  SpeakerInv'
<1> USE DEF SpeakerInv
<1>1. client[c].pc = "each" /\ mutex = c /\ UNCHANGED <<mutex, loop>>
  BY DEF Each, Stationed, Locking, loopVars
<1>2. PICK t \in client[c].todo :
        LET s == stream_manager_[t]
            op == client[c].op
        IN  \/ /\ op = "Resume" /\ Resumable(s)
               /\ client' = [client EXCEPT ![c].todo = @ \ {t}, ![c].pc = "resume", ![c].stream = s]
               /\ UNCHANGED <<stream, stream_manager_>>
            \/ /\ client' = [client EXCEPT ![c].todo = @ \ {t}]
               /\ \/ op = "Resume" /\ ~Resumable(s) /\ UNCHANGED <<stream, stream_manager_>>
                  \/ op = "Pause" /\ Set(s, "is_pause_", TRUE) /\ UNCHANGED stream_manager_
                  \/ op = "Cancel" /\ Set(s, "is_cancel_", TRUE) /\ UNCHANGED stream_manager_
                  \/ /\ op = "Play" /\ UNCHANGED stream
                     /\ stream_manager_' = [stream_manager_ EXCEPT ![t] = IF stream[s].is_running_ THEN s ELSE None]
  BY DEF Each
<1>s. PICK s : s = stream_manager_[t]
  OBVIOUS
<1>3. t \in Tasks /\ s \in DOMAIN stream /\ s # None /\ client[c].op \in Operations
  BY <1>1, <1>s, NoneAssumption DEF Types, Caller, Stationed, Locking
<1>t. \/ /\ client[c].op = "Resume"
         /\ client' = [client EXCEPT ![c].todo = @ \ {t}, ![c].pc = "resume", ![c].stream = s]
      \/ client' = [client EXCEPT ![c].todo = @ \ {t}]
  BY <1>2, <1>s
<1>4. \A d \in Clients : d # c => client'[d] = client[d]
  BY <1>t DEF Types
<1>5. /\ client'[c].todo \subseteq client[c].todo \ {t}
      /\ client'[c].op = client[c].op /\ client'[c].task = client[c].task
      /\ \/ client'[c].pc = "each" /\ client'[c].stream = client[c].stream
         \/ client[c].op = "Resume" /\ client'[c].pc = "resume" /\ client'[c].stream = s
      /\ client' \in [Clients -> Caller(DOMAIN stream)]
  <2>1. CASE client' = [client EXCEPT ![c].todo = @ \ {t}]
    BY <1>1, <2>1 DEF Types, Caller
  <2>2. CASE /\ client[c].op = "Resume"
             /\ client' = [client EXCEPT ![c].todo = @ \ {t}, ![c].pc = "resume", ![c].stream = s]
    <3> DEFINE next == [client[c] EXCEPT !.todo = @ \ {t}, !.pc = "resume", !.stream = s]
    <3>1. client' = [client EXCEPT ![c] = next]
      BY <2>2 DEF Types
    <3>2. /\ next.todo = client[c].todo \ {t} /\ next.op = client[c].op /\ next.task = client[c].task
          /\ next.pc = "resume" /\ next.stream = s
          /\ next \in Caller(DOMAIN stream)
      BY <1>3 DEF Types, Caller, Locking
    <3> HIDE DEF next
    <3>. QED
      BY <2>2, <3>1, <3>2 DEF Types
  <2>. QED
    BY <1>t, <2>1, <2>2
<1>6. \A u \in Tasks : \/ stream_manager_'[u] = stream_manager_[u]
                       \/ /\ stream_manager_'[u] = None /\ client[c].op = "Play"
                          /\ u = t /\ ~stream[s].is_running_
  BY <1>2, <1>3, <1>s DEF Types, Operations
<1>7. stream_manager_' \in [Tasks -> DOMAIN stream \union {None}]
  BY <1>2, <1>3, <1>s DEF Types, Operations
<1>8. OpenSame
  <2>1. UNCHANGED stream => OpenSame
    BY DEF Types, OpenSame
  <2>. QED
    BY <1>2, <1>3, <1>s, <2>1, FlagSet DEF Operations
<1>9. Types'
  BY <1>1, <1>5, <1>7, <1>8 DEF Types, OpenSame
<1>10. Stationed'
  <2>1. ASSUME NEW d \in Clients, d # c, client[d].pc \in Locking PROVE FALSE
    BY <1>1, <2>1 DEF Stationed
  <2>2. ASSUME client'[c].pc = "resume" PROVE \E u \in Tasks : stream_manager_'[u] = client'[c].stream
    BY <1>1, <1>3, <1>5, <1>6, <1>s, <2>2
  <2>3. \A u \in client'[c].todo : stream_manager_'[u] # None
    BY <1>1, <1>5, <1>6 DEF Stationed, Locking, Types, Caller
  <2>. QED
    BY <1>1, <1>3, <1>4, <1>5, <2>1, <2>2, <2>3 DEF Stationed, Locking, Making, Destructing
<1>11. client[c].pc \notin Making /\ client'[c].pc \notin Making
  BY <1>1, <1>5 DEF Making, Destructing
<1>12. Single'
  <2>1. \A u, w \in Tasks :
          stream_manager_'[u] = stream_manager_'[w] /\ stream_manager_'[u] # None => u = w
    BY <1>6 DEF Single
  <2>2. \A d \in Clients, u \in Tasks : client'[d].pc \in Making => stream_manager_'[u] # client'[d].stream
    BY <1>4, <1>6, <1>11 DEF Single, Stationed
  <2>. QED
    BY <1>4, <1>11, <2>1, <2>2 DEF Single
<1>13. \A x \in DOMAIN stream : Owned(x)' => Owned(x)
  <2>1. \A x \in DOMAIN stream : x # None
    BY NoneAssumption DEF Types
  <2>. QED
    BY <1>4, <1>6, <1>11, <2>1 DEF Owned, Making
<1>14. \A x : Owned(x) /\ ~Owned(x)' => x = s /\ ~stream[s].is_running_
  BY <1>4, <1>6, <1>11, <1>s DEF Owned, Making
<1>15. Closing'
  BY <1>1, <1>8, <1>13 DEF Closing, OpenSame, Types, Stationed
<1>16. InReach'
  <2>1. ASSUME NEW x \in DOMAIN stream, stream[x].connected \/ stream[x].is_running_
        PROVE  Owned(x)' \/ \E d \in Clients : client'[d].stream = x /\ client'[d].pc \in Destructing
    <3>1. CASE Owned(x)
      BY <1>3, <1>14, <2>1, <3>1 DEF Closing
    <3>2. CASE ~Owned(x)
      <4>1. PICK d \in Clients : client[d].stream = x /\ client[d].pc \in Destructing
        BY <2>1, <3>2 DEF InReach
      <4>. QED
        BY <1>4, <1>11, <4>1 DEF Making
    <3>. QED
      BY <3>1, <3>2
  <2>. QED
    BY <1>8, <2>1 DEF InReach, OpenSame
<1>17. Shut'
  <2>1. \A d \in Clients : client[d].pc \in {"closeFile", "closed"} => client[d].stream \in DOMAIN stream
    BY DEF Types, Caller, Stationed, Making, Destructing
  <2>. QED
    BY <1>4, <1>8, <1>11, <2>1 DEF Shut, OpenSame, Making, Destructing
<1>. QED
  BY <1>9, <1>10, <1>12, <1>15, <1>16, <1>17

\* A flag is set for a stream of the manager.
LEMMA ResumeKeeps ==
  ASSUME SpeakerInv, NEW c \in Clients, Resume(c) \/ Uncork(c), UNCHANGED loopVars
  PROVE  SpeakerInv'
<1> USE DEF SpeakerInv
<1>s. PICK s : s = client[c].stream
  OBVIOUS
<1>1. /\ client[c].pc \in {"resume", "uncork"} /\ mutex = c
      /\ UNCHANGED <<stream_manager_, mutex, loop>>
  BY DEF Resume, Uncork, Stationed, Locking, loopVars
<1>2. s \in DOMAIN stream
  BY <1>1, <1>s, NoneAssumption DEF Types, Caller, Stationed
<1>3. OpenSame
  BY <1>2, <1>s, FlagSet DEF Resume, Uncork
<1>4. /\ client'[c].pc \in {"uncork", "each"} /\ client'[c].op = client[c].op
      /\ client'[c].task = client[c].task /\ client'[c].todo = client[c].todo
      /\ client'[c].pc = "uncork" => client'[c].stream = client[c].stream
      /\ client' \in [Clients -> Caller(DOMAIN stream)]
  <2>1. CASE client' = [client EXCEPT ![c].pc = "uncork"]
    BY <2>1 DEF Types, Caller, Locking
  <2>2. CASE client' = [client EXCEPT ![c].pc = "each", ![c].stream = None]
    <3> DEFINE next == [client[c] EXCEPT !.pc = "each", !.stream = None]
    <3>1. client' = [client EXCEPT ![c] = next]
      BY <2>2 DEF Types
    <3>2. /\ next \in Caller(DOMAIN stream) /\ next.pc = "each"
          /\ next.op = client[c].op /\ next.task = client[c].task /\ next.todo = client[c].todo
      BY DEF Types, Caller, Locking
    <3> HIDE DEF next
    <3>. QED
      BY <3>1, <3>2 DEF Types
  <2>. QED
    BY <2>1, <2>2 DEF Resume, Uncork, Goto
<1>5. \A d \in Clients : d # c => client'[d] = client[d]
  BY DEF Resume, Uncork, Goto, Types
<1>6. Types'
  BY <1>1, <1>3, <1>4 DEF Types, OpenSame
<1>7. Stationed'
  BY <1>1, <1>4, <1>5 DEF Stationed, Locking, Making, Destructing
<1>8. client[c].pc \notin Making /\ client'[c].pc \notin Making
  BY <1>1, <1>4 DEF Making, Destructing
<1>9. Single'
  BY <1>1, <1>5, <1>8 DEF Single
<1>10. \A x : Owned(x)' <=> Owned(x)
  BY <1>1, <1>5, <1>8 DEF Owned, Making
<1>11. Closing'
  BY <1>1, <1>3, <1>10 DEF Closing, OpenSame, Types, Stationed
<1>12. InReach'
  BY <1>3, <1>5, <1>8, <1>10 DEF InReach, OpenSame, Making
<1>13. Shut'
  <2>1. \A d \in Clients : client[d].pc \in {"closeFile", "closed"} => client[d].stream \in DOMAIN stream
    BY DEF Types, Caller, Stationed, Making, Destructing
  <2>. QED
    BY <1>3, <1>5, <1>8, <2>1 DEF Shut, OpenSame, Making, Destructing
<1>. QED
  BY <1>6, <1>7, <1>9, <1>11, <1>12, <1>13

\* A call comes back, moves on to Start, or begins or ends ExitLoop.
LEMMA TurnKeeps ==
  ASSUME SpeakerInv, NEW c \in Clients,
         (Release(c) \/ Refuse(c) \/ Disconnect(c) \/ Quit(c)), UNCHANGED loop
  PROVE  SpeakerInv'
<1> USE DEF SpeakerInv
<1>1. /\ client[c].pc \in {"each", "start", "idle", "quit"} /\ UNCHANGED <<stream, stream_manager_, loop>>
      /\ IF client[c].pc = "each" THEN mutex' = None ELSE UNCHANGED mutex
  BY IdleFields DEF Release, Refuse, Disconnect, Quit
<1>2. /\ client' \in [Clients -> Caller(DOMAIN stream)]
      /\ client'[c].pc \in {"idle", "start", "quit"}
      /\ client'[c].pc = "start" => client'[c].task \in Tasks
  <2>1. Idle \in Caller(DOMAIN stream) /\ Idle.pc = "idle"
    BY DEF Idle, Caller
  <2>2. ASSUME client' = [client EXCEPT ![c] = Idle]
        PROVE  client' \in [Clients -> Caller(DOMAIN stream)] /\ client'[c].pc = "idle"
    BY <2>1, <2>2 DEF Types
  <2>3. CASE Refuse(c) \/ Quit(c)
    BY <2>2, <2>3 DEF Refuse, Quit
  <2>4. CASE Disconnect(c)
    BY <2>4 DEF Disconnect, Goto, Types, Caller
  <2>5. CASE Release(c) /\ client[c].op = "Play"
    <3>1. client' = [client EXCEPT ![c] = [@ EXCEPT !.pc = "start"]] /\ client[c].pc = "each"
      BY <2>5 DEF Release
    <3> DEFINE next == [client[c] EXCEPT !.pc = "start"]
    <3>2. next \in Caller(DOMAIN stream) /\ next.pc = "start" /\ next.task = client[c].task
      BY DEF Types, Caller
    <3>3. client' = [client EXCEPT ![c] = next]
      BY <3>1
    <3>4. client[c].task \in Tasks
      BY <2>5, <3>1 DEF Stationed, Locking
    <3> HIDE DEF next
    <3>. QED
      BY <3>2, <3>3, <3>4 DEF Types
  <2>6. CASE Release(c) /\ client[c].op # "Play"
    BY <2>2, <2>6 DEF Release
  <2>. QED
    BY <2>3, <2>4, <2>5, <2>6
<1>3. \A d \in Clients : d # c => client'[d] = client[d]
  BY DEF Release, Refuse, Disconnect, Quit, Goto, Types
<1>4. Types'
  BY <1>1, <1>2 DEF Types
<1>5. Stationed'
  BY <1>1, <1>2, <1>3, NoneAssumption DEF Stationed, Locking, Making, Destructing
<1>6. client[c].pc \notin Making /\ client'[c].pc \notin Making
  BY <1>1, <1>2 DEF Making, Destructing
<1>7. Single'
  BY <1>1, <1>3, <1>6 DEF Single
<1>8. \A x : Owned(x)' <=> Owned(x)
  BY <1>1, <1>3, <1>6 DEF Owned, Making
<1>9. Closing' /\ InReach'
  BY <1>1, <1>3, <1>6, <1>8 DEF Closing, InReach, Making
<1>10. Shut'
  BY <1>1, <1>3, <1>6 DEF Shut, Making, Destructing
<1>. QED
  BY <1>4, <1>5, <1>7, <1>9, <1>10

\* Play makes a stream, which nobody knows but itself.
LEMMA StartKeeps ==
  ASSUME SpeakerInv, NEW c \in Clients, NEW s \in Streams \ DOMAIN stream, Start(c, s), UNCHANGED loopVars
  PROVE  SpeakerInv'
<1> USE DEF SpeakerInv
<1>1. client[c].pc = "start" /\ UNCHANGED <<stream_manager_, mutex, loop>>
  BY DEF Start, loopVars
<1>2. PICK opened \in 0..3 :
       /\ stream' = [x \in DOMAIN stream \union {s} |->
                       IF x # s THEN stream[x]
                       ELSE [is_pause_ |-> FALSE, is_cancel_ |-> FALSE, is_running_ |-> TRUE,
                             sndfile_ |-> opened > 0, stream_ |-> opened > 1, connected |-> opened > 2,
                             callback |-> opened > 1, corked |-> FALSE, draining |-> FALSE, left |-> Chunks]]
       /\ client' = [client EXCEPT ![c].pc = IF opened = 3 THEN "insert" ELSE "closeStream", ![c].stream = s]
  BY DEF Start
<1>3. /\ DOMAIN stream' = DOMAIN stream \union {s} /\ stream' \in [DOMAIN stream' -> AudioStream]
      /\ \A x \in DOMAIN stream : stream'[x] = stream[x]
      /\ stream'[s].is_running_ = TRUE /\ stream'[s].connected = (opened > 2)
  BY <1>2, ChunksAssumption DEF Types, AudioStream
<1>4. /\ client' \in [Clients -> Caller(DOMAIN stream')] /\ client'[c].stream = s
      /\ client'[c].pc \in {"insert", "closeStream"} /\ client'[c].task = client[c].task
  <2>1. PICK at \in {"insert", "closeStream"} : client' = [client EXCEPT ![c].pc = at, ![c].stream = s]
    BY <1>2
  <2> DEFINE next == [client[c] EXCEPT !.pc = at, !.stream = s]
  <2>2. client' = [client EXCEPT ![c] = next]
    BY <2>1 DEF Types
  <2>3. client \in [Clients -> Caller(DOMAIN stream')]
    BY <1>3 DEF Types, Caller
  <2>4. next \in Caller(DOMAIN stream') /\ next.pc = at /\ next.stream = s /\ next.task = client[c].task
    BY <1>3, <2>3 DEF Caller, Making, Destructing
  <2> HIDE DEF next
  <2>. QED
    BY <2>2, <2>3, <2>4
<1>5. \A d \in Clients : d # c => client'[d] = client[d]
  BY <1>2 DEF Types
<1>6. s # None /\ (\A t \in Tasks : stream_manager_[t] # s) /\ (\A d \in Clients : client[d].stream # s) /\ loop.stream # s
  <2>1. s \notin DOMAIN stream /\ s # None
    BY NoneAssumption
  <2>2. \A t \in Tasks : stream_manager_[t] \in DOMAIN stream \union {None}
    BY DEF Types
  <2>3. \A d \in Clients : client[d].stream \in DOMAIN stream \union {None}
    BY DEF Types, Caller
  <2>4. loop.stream \in DOMAIN stream \union {None}
    BY DEF Types
  <2>. QED
    BY <2>1, <2>2, <2>3, <2>4
<1>7. Types'
  BY <1>1, <1>3, <1>4 DEF Types
<1>8. Stationed'
  BY <1>1, <1>4, <1>5, <1>6 DEF Stationed, Locking, Making, Destructing
<1>9. Single'
  BY <1>1, <1>4, <1>5, <1>6 DEF Single, Making, Destructing
<1>10. \A x \in DOMAIN stream : Owned(x)' <=> Owned(x)
  BY <1>1, <1>4, <1>5, <1>6 DEF Owned
<1>11. Closing'
  BY <1>1, <1>3, <1>10 DEF Closing, Types, Stationed
<1>12. InReach'
  <2>1. Owned(s)' \/ client'[c].pc \in Destructing
    BY <1>4 DEF Owned, Destructing
  <2>2. ASSUME NEW x \in DOMAIN stream, stream[x].connected \/ stream[x].is_running_, ~Owned(x)
        PROVE  \E d \in Clients : client'[d].stream = x /\ client'[d].pc \in Destructing
    <3>1. PICK d \in Clients : client[d].stream = x /\ client[d].pc \in Destructing
      BY <2>2 DEF InReach
    <3>2. d # c
      BY <1>1, <3>1 DEF Destructing
    <3>. QED
      BY <1>5, <3>1, <3>2
  <2>. QED
    BY <1>3, <1>4, <1>10, <2>1, <2>2 DEF InReach
<1>13. Shut'
  <2>1. \A d \in Clients : client[d].pc \in {"closeFile", "closed"} => client[d].stream \in DOMAIN stream
    BY DEF Types, Caller, Stationed, Making, Destructing
  <2>. QED
    BY <1>3, <1>4, <1>5, <2>1 DEF Shut
<1>. QED
  BY <1>7, <1>8, <1>9, <1>11, <1>12, <1>13

\* The stream that Play has made is the task's own from now on, or goes.
LEMMA InsertKeeps ==
  ASSUME SpeakerInv, NEW c \in Clients, Insert(c), UNCHANGED loopVars
  PROVE  SpeakerInv'
<1> USE DEF SpeakerInv
<1>1. client[c].pc = "insert" /\ mutex = None /\ UNCHANGED <<stream, mutex, loop>>
  BY DEF Insert, loopVars
<1>2. client[c].task \in Tasks /\ client[c].stream \in DOMAIN stream /\ client[c].stream # None
  BY <1>1 DEF Types, Caller, Stationed, Making
<1>3. \A d \in Clients : d # c => client'[d] = client[d]
  BY DEF Insert, Goto, Types
<1>4. \A d \in Clients : client[d].pc \notin Locking
  BY <1>1, NoneAssumption DEF Stationed
<1>5. CASE stream_manager_[client[c].task] = None
  <2>1. /\ stream_manager_' = [stream_manager_ EXCEPT ![client[c].task] = client[c].stream]
        /\ client' = [client EXCEPT ![c] = Idle]
    BY <1>5 DEF Insert
  <2>2. client'[c] = Idle /\ client'[c].pc = "idle"
    BY <2>1, IdleFields DEF Types
  <2>3. Types'
    <3>1. Idle \in Caller(DOMAIN stream)
      BY DEF Idle, Caller
    <3>. QED
      BY <1>1, <1>2, <2>1, <3>1 DEF Types
  <2>4. Stationed'
    BY <1>1, <1>3, <1>4, <2>2 DEF Stationed, Locking, Making, Destructing
  <2>5. \A u \in Tasks : stream_manager_'[u] =
           IF u = client[c].task THEN client[c].stream ELSE stream_manager_[u]
    BY <1>2, <2>1 DEF Types
  <2>6. \A u \in Tasks : stream_manager_[u] # client[c].stream
    BY <1>1 DEF Single, Making
  <2>7. \A d \in Clients : client[d].pc \in Making /\ d # c => client[d].stream # client[c].stream
    BY <1>1 DEF Single, Making
  <2>8. Single'
    BY <1>3, <2>2, <2>5, <2>6, <2>7 DEF Single, Making, Destructing
  <2>9. \A x \in DOMAIN stream : Owned(x)' <=> Owned(x)
    <3>1. \A x \in DOMAIN stream : x # None
      BY NoneAssumption DEF Types
    <3>. QED
      BY <1>1, <1>2, <1>3, <1>5, <2>2, <2>5, <3>1 DEF Owned
  <2>10. Closing'
    BY <1>1, <2>9 DEF Closing
  <2>11. InReach'
    BY <1>1, <1>3, <2>9 DEF InReach, Destructing
  <2>12. Shut'
    BY <1>1, <1>3, <2>2 DEF Shut
  <2>. QED
    BY <2>3, <2>4, <2>8, <2>10, <2>11, <2>12
<1>6. CASE stream_manager_[client[c].task] # None
  <2>1. client' = [client EXCEPT ![c].pc = "closeStream"] /\ UNCHANGED stream_manager_
    BY <1>6 DEF Insert, Goto
  <2>2. /\ client' \in [Clients -> Caller(DOMAIN stream)]
        /\ client'[c].pc = "closeStream" /\ client'[c].stream = client[c].stream
    BY <2>1 DEF Types, Caller, Making, Destructing
  <2>3. Types'
    BY <1>1, <2>1, <2>2 DEF Types
  <2>4. Stationed'
    BY <1>1, <1>2, <1>3, <1>4, <2>1, <2>2 DEF Stationed, Locking, Making, Destructing
  <2>5. client[c].pc \in Making /\ client'[c].pc \in Making
    BY <1>1, <2>2 DEF Making, Destructing
  <2>6. Single'
    BY <1>3, <2>1, <2>2, <2>5 DEF Single
  <2>7. \A x : Owned(x)' => Owned(x)
    BY <1>3, <2>1, <2>2 DEF Owned
  <2>8. \A x : Owned(x) /\ ~Owned(x)' => x = client[c].stream
    BY <1>3, <2>1 DEF Owned
  <2>9. Closing'
    BY <1>1, <2>7 DEF Closing
  <2>10. InReach'
    BY <1>1, <1>3, <2>2, <2>8 DEF InReach, Destructing
  <2>11. Shut'
    BY <1>1, <1>3, <2>2 DEF Shut
  <2>. QED
    BY <2>3, <2>4, <2>6, <2>9, <2>10, <2>11
<1>. QED
  BY <1>5, <1>6

\* The destructor that Play runs closes a stream that no task and no other call has.
LEMMA DestroyKeeps ==
  ASSUME SpeakerInv, NEW c \in Clients, Destroy(c), UNCHANGED loopVars
  PROVE  SpeakerInv'
<1> USE DEF SpeakerInv
<1>s. PICK s : s = client[c].stream
  OBVIOUS
<1>1. client[c].pc \in Destructing /\ UNCHANGED <<stream_manager_, mutex, loop>>
  BY DEF Destroy, loopVars
<1>2. client[c].pc \in Making /\ client[c].pc \notin Locking
  BY <1>1 DEF Making, Locking, Destructing
<1>3. s \in DOMAIN stream
  BY <1>2, <1>s DEF Types, Caller, Stationed
<1>4. /\ DOMAIN stream' = DOMAIN stream /\ stream' \in [DOMAIN stream -> AudioStream]
      /\ \A x \in DOMAIN stream : x # s => stream'[x] = stream[x]
      /\ stream'[s].is_running_ = (stream[s].is_running_ /\ client[c].pc # "closed")
      /\ stream'[s].sndfile_ = (stream[s].sndfile_ /\ client[c].pc # "closeFile")
      /\ stream'[s].stream_ = (stream[s].stream_ /\ client[c].pc # "closeStream")
      /\ stream'[s].connected = (stream[s].connected /\ client[c].pc # "closeStream")
  BY <1>1, <1>3, <1>s, Closed DEF Destroy
<1>5. \A d \in Clients : d # c => client'[d] = client[d]
  BY DEF Destroy, Goto, Types
<1>6. /\ client' \in [Clients -> Caller(DOMAIN stream)]
      /\ IF client[c].pc = "closed" THEN client'[c].pc = "idle"
         ELSE client'[c].stream = s /\ client'[c].pc = AfterClose(client[c].pc)
  <2>1. CASE client[c].pc = "closed"
    <3>1. Idle \in Caller(DOMAIN stream) /\ Idle.pc = "idle"
      BY DEF Idle, Caller
    <3>. QED
      BY <2>1, <3>1 DEF Destroy, Types
  <2>2. CASE client[c].pc # "closed"
    <3>1. client' = [client EXCEPT ![c].pc = AfterClose(client[c].pc)]
      BY <2>2 DEF Destroy, Goto
    <3>2. AfterClose(client[c].pc) \in {"closeFile", "closed"}
      BY <1>1, <2>2 DEF AfterClose, Destructing
    <3> DEFINE next == [client[c] EXCEPT !.pc = AfterClose(client[c].pc)]
    <3>3. next \in Caller(DOMAIN stream) /\ next.pc = AfterClose(client[c].pc) /\ next.stream = s
      BY <1>s, <3>2 DEF Types, Caller, Making, Destructing
    <3>4. client' = [client EXCEPT ![c] = next]
      BY <3>1
    <3> HIDE DEF next
    <3>. QED
      BY <2>2, <3>3, <3>4 DEF Types
  <2>. QED
    BY <2>1, <2>2
<1>7. /\ client[c].pc = "closeStream" => client'[c].pc = "closeFile" /\ client'[c].stream = s
      /\ client[c].pc = "closeFile" => client'[c].pc = "closed" /\ client'[c].stream = s
      /\ client[c].pc = "closed" => client'[c].pc = "idle"
  BY <1>1, <1>6 DEF AfterClose
<1>8. client'[c].pc = "idle" \/ (client'[c].pc \in Making /\ client'[c].stream = s)
  BY <1>1, <1>7 DEF Making, Destructing
<1>9. Types'
  BY <1>1, <1>4, <1>6 DEF Types
<1>10. Stationed'
  <2>1. client'[c].pc \notin Locking \union {"start", "insert"}
    BY <1>1, <1>7 DEF Locking, Destructing
  <2>. QED
    BY <1>1, <1>2, <1>3, <1>5, <1>8, <2>1, NoneAssumption DEF Stationed, Types, Locking, Making, Destructing
<1>11. Single'
  BY <1>1, <1>2, <1>5, <1>8, <1>s DEF Single, Making, Destructing
<1>12. \A x \in DOMAIN stream : Owned(x)' => Owned(x) /\ x # s
  <2>1. client'[c].pc # "insert"
    BY <1>1, <1>7 DEF Destructing
  <2>. QED
    BY <1>1, <1>2, <1>5, <1>s, <2>1 DEF Owned, Single, Making
<1>13. \A x : Owned(x) => Owned(x)'
  <2>1. client[c].pc # "insert"
    BY <1>1 DEF Destructing
  <2>. QED
    BY <1>1, <1>5, <2>1 DEF Owned
<1>14. \A x \in DOMAIN stream :
         /\ stream'[x].connected => stream[x].connected
         /\ stream'[x].is_running_ => stream[x].is_running_
  BY <1>4
<1>15. Closing'
  <2>1. loop.pc \in {"closeFile", "closed"} => loop.stream \in DOMAIN stream
    BY DEF Types, Stationed
  <2>2. \A x \in DOMAIN stream :
          /\ stream'[x].stream_ => stream[x].stream_
          /\ stream'[x].sndfile_ => stream[x].sndfile_
    BY <1>4
  <2>3. /\ loop'.pc \in {"closeFile", "closed"} =>
             ~stream'[loop'.stream].stream_ /\ ~stream'[loop'.stream].connected
        /\ loop'.pc = "closed" => ~stream'[loop'.stream].sndfile_
    <3>1. loop' = loop
      BY <1>1
    <3>2. loop.pc \in {"closeFile", "closed"} =>
             ~stream[loop.stream].stream_ /\ ~stream[loop.stream].connected
      BY DEF Closing
    <3>3. loop.pc = "closed" => ~stream[loop.stream].sndfile_
      BY DEF Closing
    <3>4. ASSUME loop.pc \in {"closeFile", "closed"}
          PROVE  /\ ~stream'[loop.stream].stream_ /\ ~stream'[loop.stream].connected
                 /\ loop.pc = "closed" => ~stream'[loop.stream].sndfile_
      <4>1. loop.stream \in DOMAIN stream
        BY <2>1, <3>4
      <4>. QED
        BY <1>14, <2>2, <3>2, <3>3, <3>4, <4>1
    <3>. QED
      BY <3>1, <3>4
  <2>4. \A x \in DOMAIN stream : Owned(x)' /\ ~stream'[x].is_running_ =>
          ~stream'[x].stream_ /\ ~stream'[x].sndfile_ /\ ~stream'[x].connected /\ (loop'.stream = x => loop'.drains)
    BY <1>1, <1>4, <1>12 DEF Closing
  <2>. QED
    BY <1>4, <2>3, <2>4 DEF Closing
<1>17. Shut'
  <2>1. ASSUME NEW d \in Clients, client'[d].pc \in {"closeFile", "closed"}
        PROVE  ~stream'[client'[d].stream].connected
    <3>1. CASE d = c
      BY <1>1, <1>3, <1>4, <1>7, <1>s, <2>1, <3>1 DEF Shut, Destructing
    <3>2. CASE d # c
      <4>1. client[d].stream \in DOMAIN stream
        BY <1>5, <2>1, <3>2 DEF Types, Caller, Stationed, Making, Destructing
      <4>. QED
        BY <1>5, <1>14, <2>1, <3>2, <4>1 DEF Shut
    <3>. QED
      BY <3>1, <3>2
  <2>. QED
    BY <2>1 DEF Shut
<1>16. InReach'
  <2>1. ASSUME NEW x \in DOMAIN stream, stream'[x].connected \/ stream'[x].is_running_, ~Owned(x)'
        PROVE  \E d \in Clients : client'[d].stream = x /\ client'[d].pc \in Destructing
    <3>1. PICK d \in Clients : client[d].stream = x /\ client[d].pc \in Destructing
      BY <1>13, <1>14, <2>1 DEF InReach
    <3>2. CASE d # c
      BY <1>5, <3>1, <3>2
    <3>3. CASE d = c
      BY <1>1, <1>3, <1>4, <1>7, <1>s, <2>1, <3>1, <3>3 DEF Shut, Destructing
    <3>. QED
      BY <3>2, <3>3
  <2>. QED
    BY <1>4, <2>1 DEF InReach
<1>. QED
  BY <1>9, <1>10, <1>11, <1>15, <1>16, <1>17

-----------------------------------------------------------------------------
\* The loop thread.

\* The place and the stream of the loop between two callbacks.
LEMMA LoopIdleFields == LoopIdle.pc = "idle" /\ LoopIdle.stream = None
BY DEF LoopIdle

\* What the loop does not close it does not disturb, as long as it takes up a stream
\* only when that is connected, or to answer a drain.
LEMMA LoopMoves ==
  ASSUME SpeakerInv, OpenSame, UNCHANGED clientVars,
         loop' \in [pc : {"idle", "pause", "cork", "cancel", "closeStream"},
                   stream : DOMAIN stream \union {None}, drains : BOOLEAN],
         loop'.pc = "idle" <=> loop'.stream = None,
         loop'.stream # None =>
           /\ loop'.stream \in DOMAIN stream
           /\ \/ loop'.stream = loop.stream /\ loop'.drains = loop.drains
              \/ stream[loop'.stream].connected \/ loop'.drains
  PROVE  SpeakerInv'
<1> USE DEF SpeakerInv
<1>1. UNCHANGED <<stream_manager_, mutex, client>>
  BY DEF clientVars
<1>2. Types'
  BY <1>1 DEF Types, OpenSame, Destructing
<1>3. Stationed' /\ Single'
  BY <1>1 DEF Stationed, Single
<1>4. \A x : Owned(x)' <=> Owned(x)
  BY <1>1 DEF Owned
<1>5. Closing'
  <2>1. loop'.pc \notin {"closeFile", "closed"}
    OBVIOUS
  <2>2. \A x \in DOMAIN stream : Owned(x)' /\ ~stream'[x].is_running_ =>
          ~stream'[x].stream_ /\ ~stream'[x].sndfile_ /\ ~stream'[x].connected /\ (loop'.stream = x => loop'.drains)
    <3>1. \A x \in DOMAIN stream : x # None
      BY NoneAssumption DEF Types
    <3>. QED
      BY <1>4, <3>1 DEF Closing, OpenSame
  <2>. QED
    BY <2>1, <2>2 DEF Closing, OpenSame
<1>6. Shut'
  <2>1. \A d \in Clients : client[d].pc \in {"closeFile", "closed"} => client[d].stream \in DOMAIN stream
    BY DEF Types, Caller, Stationed, Making, Destructing
  <2>. QED
    BY <1>1, <2>1 DEF Shut, OpenSame
<1>7. InReach'
  BY <1>1, <1>4 DEF InReach, OpenSame
<1>. QED
  BY <1>2, <1>3, <1>5, <1>6, <1>7

\* A step that leaves the streams alone opens and closes nothing.
LEMMA UnchangedOpen == Types /\ UNCHANGED stream => OpenSame
BY DEF Types, OpenSame

\* A chunk is written, or the file is at its end.
LEMMA Requested ==
  ASSUME Types, NEW s \in DOMAIN stream, stream[s].left \in Nat,
         \/ stream[s].left > 0 /\ Set(s, "left", stream[s].left - 1)
         \/ stream' = [stream EXCEPT ![s].callback = FALSE, ![s].draining = TRUE]
  PROVE  OpenSame
<1>1. stream \in [DOMAIN stream -> AudioStream]
  BY DEF Types
<1>2. CASE stream[s].left > 0 /\ Set(s, "left", stream[s].left - 1)
  BY <1>1, <1>2 DEF OpenSame, AudioStream, Set
<1>3. CASE stream' = [stream EXCEPT ![s].callback = FALSE, ![s].draining = TRUE]
  <2> DEFINE drained == [stream[s] EXCEPT !.callback = FALSE, !.draining = TRUE]
  <2>1. stream' = [stream EXCEPT ![s] = drained]
    BY <1>1, <1>3
  <2>2. /\ drained \in AudioStream /\ drained.is_running_ = stream[s].is_running_
        /\ drained.sndfile_ = stream[s].sndfile_ /\ drained.stream_ = stream[s].stream_
        /\ drained.connected = stream[s].connected
    BY <1>1 DEF AudioStream
  <2> HIDE DEF drained
  <2>. QED
    BY <1>1, <2>1, <2>2 DEF OpenSame
<1>. QED
  BY <1>2, <1>3

\* The server asks for a chunk or reports that the stream is drained.
LEMMA ServeKeeps ==
  ASSUME SpeakerInv, NEW s \in DOMAIN stream, Request(s) \/ DrainComplete(s), UNCHANGED clientVars
  PROVE  SpeakerInv'
<1>1. Types /\ s # None /\ stream[s].left \in Nat
  BY NoneAssumption DEF SpeakerInv, Types, AudioStream
<1>2. OpenSame
  BY <1>1, UnchangedOpen, FlagSet, Requested DEF Request, DrainComplete
<1>3. \/ loop' = [pc |-> "closeStream", stream |-> s, drains |-> TRUE]
      \/ /\ \E at \in {"closeStream", "pause"} : loop' = [pc |-> at, stream |-> s, drains |-> FALSE]
         /\ stream[s].connected
  BY DEF Request, DrainComplete
<1>4. /\ loop' \in [pc : {"idle", "pause", "cork", "cancel", "closeStream"},
                    stream : DOMAIN stream \union {None}, drains : BOOLEAN]
      /\ loop'.pc # "idle" /\ loop'.stream = s /\ (loop'.drains \/ stream[s].connected)
  <2>1. PICK at \in {"closeStream", "pause"}, drains \in BOOLEAN :
          loop' = [pc |-> at, stream |-> s, drains |-> drains] /\ (drains \/ stream[s].connected)
    BY <1>3
  <2>. QED
    BY <2>1
<1>. QED
  BY <1>1, <1>2, <1>4, LoopMoves

\* The callbacks look at the flags.
LEMMA LookKeeps ==
  ASSUME SpeakerInv, UNCHANGED clientVars,
         (\E state \in {"ready", "failed"} : ContextState(state)) \/ CheckPause \/ Cork \/ CheckCancel
  PROVE  SpeakerInv'
<1>1. Types /\ (loop.pc = "idle" <=> loop.stream = None)
  BY DEF SpeakerInv, Stationed
<1>2. loop.pc \in {"pause", "cork", "cancel"} => loop.stream \in DOMAIN stream
  BY <1>1 DEF Types
<1>3. OpenSame
  BY <1>1, <1>2, UnchangedOpen, FlagSet DEF ContextState, CheckPause, Cork, CheckCancel
<1>4. /\ loop' \in [pc : {"idle", "pause", "cork", "cancel", "closeStream"},
                    stream : DOMAIN stream \union {None}, drains : BOOLEAN]
      /\ loop'.pc = "idle" <=> loop'.stream = None
      /\ loop'.stream # None =>
           loop'.stream = loop.stream /\ loop'.drains = loop.drains /\ loop.stream \in DOMAIN stream
  <2>1. CASE \E state \in {"ready", "failed"} : ContextState(state)
    BY <1>1, <2>1, LoopIdleFields DEF ContextState, Types, LoopIdle
  <2>2. CASE CheckPause
    BY <1>1, <1>2, <2>2 DEF CheckPause, Types
  <2>3. CASE Cork
    BY <1>1, <1>2, <2>3 DEF Cork, Types
  <2>4. CASE CheckCancel
    BY <1>1, <1>2, <2>4 DEF CheckCancel, Types, LoopIdle
  <2>. QED
    BY <2>1, <2>2, <2>3, <2>4
<1>. QED
  BY <1>3, <1>4, LoopMoves

\* One handle of a stream is closed after the other.
LEMMA CloseKeeps ==
  ASSUME SpeakerInv, Close, UNCHANGED clientVars
  PROVE  SpeakerInv'
<1> USE DEF SpeakerInv
<1>s. PICK s : s = loop.stream
  OBVIOUS
<1>1. loop.pc \in Destructing /\ UNCHANGED <<stream_manager_, mutex, client>>
  BY DEF Close, clientVars
<1>2. s \in DOMAIN stream /\ s # None
  BY <1>1, <1>s, NoneAssumption DEF Types, Stationed, Destructing
<1>3. /\ DOMAIN stream' = DOMAIN stream /\ stream' \in [DOMAIN stream -> AudioStream]
      /\ \A x \in DOMAIN stream : x # s => stream'[x] = stream[x]
      /\ stream'[s].is_running_ = (stream[s].is_running_ /\ loop.pc # "closed")
      /\ stream'[s].sndfile_ = (stream[s].sndfile_ /\ loop.pc # "closeFile")
      /\ stream'[s].stream_ = (stream[s].stream_ /\ loop.pc # "closeStream")
      /\ stream'[s].connected = (stream[s].connected /\ loop.pc # "closeStream")
  BY <1>1, <1>2, <1>s, Closed DEF Close
<1>4. /\ loop.pc = "closeStream" => loop'.pc = "closeFile" /\ loop'.stream = s
      /\ loop.pc = "closeFile" => loop'.pc = "closed" /\ loop'.stream = s
      /\ loop.pc = "closed" => loop'.pc = "idle" /\ loop'.stream = None
      /\ loop' \in [pc : {"idle", "pause", "cork", "cancel"} \union Destructing,
                    stream : DOMAIN stream \union {None}, drains : BOOLEAN]
      /\ loop.pc # "closed" => loop'.drains = loop.drains
  <2>1. CASE loop.pc = "closed"
    <3>1. loop' = LoopIdle
      BY <2>1 DEF Close
    <3>. QED
      BY <2>1, <3>1, LoopIdleFields DEF LoopIdle
  <2>2. CASE loop.pc # "closed"
    BY <1>1, <1>s, <2>2 DEF Close, AfterClose, Types, Destructing
  <2>. QED
    BY <2>1, <2>2
<1>5. Types'
  BY <1>1, <1>3, <1>4 DEF Types
<1>6. Stationed' /\ Single'
  BY <1>1, <1>2, <1>4 DEF Stationed, Single, Destructing
<1>7. \A x : Owned(x)' <=> Owned(x)
  BY <1>1 DEF Owned
<1>8. \A x \in DOMAIN stream :
        /\ stream'[x].stream_ => stream[x].stream_
        /\ stream'[x].sndfile_ => stream[x].sndfile_
        /\ stream'[x].connected => stream[x].connected
        /\ stream'[x].is_running_ => stream[x].is_running_
  BY <1>3
<1>9. Closing'
  <2>1. loop'.pc \in {"closeFile", "closed"} => ~stream'[loop'.stream].stream_ /\ ~stream'[loop'.stream].connected
    BY <1>1, <1>2, <1>3, <1>4, <1>s DEF Closing, Destructing
  <2>2. loop'.pc = "closed" => ~stream'[loop'.stream].sndfile_
    BY <1>1, <1>2, <1>3, <1>4, <1>s DEF Closing, Destructing
  <2>3. ASSUME NEW x \in DOMAIN stream, Owned(x), ~stream'[x].is_running_
        PROVE  /\ ~stream'[x].stream_ /\ ~stream'[x].sndfile_ /\ ~stream'[x].connected
               /\ loop'.stream = x => loop'.drains
    <3>1. CASE x = s /\ loop.pc = "closed"
      BY <1>2, <1>3, <1>4, <1>8, <1>s, <3>1 DEF Closing
    <3>2. CASE x = s /\ loop.pc # "closed"
      <4>1. ~stream[s].is_running_
        BY <1>3, <2>3, <3>2
      <4>2. ~stream[s].stream_ /\ ~stream[s].sndfile_ /\ ~stream[s].connected /\ loop.drains
        BY <1>2, <1>s, <2>3, <3>2, <4>1 DEF Closing
      <4>. QED
        BY <1>2, <1>4, <1>8, <3>2, <4>2
    <3>3. CASE x # s
      BY <1>1, <1>2, <1>3, <1>4, <2>3, <3>3, NoneAssumption DEF Closing, Types, Destructing
    <3>. QED
      BY <3>1, <3>2, <3>3
  <2>. QED
    BY <1>3, <1>7, <2>1, <2>2, <2>3 DEF Closing
<1>10. Shut'
  <2>1. \A d \in Clients : client[d].pc \in {"closeFile", "closed"} => client[d].stream \in DOMAIN stream
    BY DEF Types, Caller, Stationed, Making, Destructing
  <2>. QED
    BY <1>1, <1>8, <2>1 DEF Shut
<1>11. InReach'
  BY <1>1, <1>3, <1>7, <1>8 DEF InReach
<1>. QED
  BY <1>5, <1>6, <1>9, <1>10, <1>11

\* The process ends.
LEMMA AbortKeeps == SpeakerInv /\ UNCHANGED <<stream, clientVars, loop>> => SpeakerInv'
BY DEF SpeakerInv, clientVars, Types, Stationed, Single, Closing, Shut, InReach, Owned

\* Every action keeps the invariant.
LEMMA SpeakerStep == SpeakerInv /\ [Next]_vars => SpeakerInv'
<1> SUFFICES ASSUME SpeakerInv, [Next]_vars PROVE SpeakerInv'
  OBVIOUS
<1>1. CASE UNCHANGED vars \/ Abort
  BY <1>1, AbortKeeps DEF vars, loopVars, Abort
<1>2. ASSUME NEW c \in Clients, ClientStep(c), UNCHANGED loopVars PROVE SpeakerInv'
  <2>1. ASSUME NEW op \in Calls[c] \intersect {"Pause", "Resume", "Cancel"},
               NEW tasks \in {Tasks} \union {{t} : t \in Tasks}, Call(c, op, tasks, None)
        PROVE  SpeakerInv'
    <3>1. op \in Operations /\ op # "Play" /\ tasks \in SUBSET Tasks
      BY DEF Operations
    <3>. QED
      BY <1>2, <2>1, <3>1, CallKeeps
  <2>2. ASSUME NEW t \in Tasks, Call(c, "Play", Tasks, t) PROVE SpeakerInv'
    BY <1>2, <2>2, CallKeeps DEF Operations
  <2>3. ASSUME Release(c) \/ Refuse(c) \/ Disconnect(c) PROVE SpeakerInv'
    BY <1>2, <2>3, TurnKeeps DEF loopVars
  <2>. QED
    BY <1>2, <2>1, <2>2, <2>3, EachKeeps, ResumeKeeps, StartKeeps, InsertKeeps, DestroyKeeps DEF ClientStep
<1>3. ASSUME NEW c \in Clients, Quit(c) PROVE SpeakerInv'
  BY <1>3, TurnKeeps DEF Quit
<1>4. ASSUME UNCHANGED clientVars, (\E state \in {"ready", "failed"} : ContextState(state)) \/ Callback
      PROVE  SpeakerInv'
  BY <1>4, LookKeeps, CloseKeeps DEF Callback
<1>5. ASSUME UNCHANGED clientVars, NEW s \in DOMAIN stream, Request(s) \/ DrainComplete(s) PROVE SpeakerInv'
  BY <1>5, ServeKeeps
<1>6. CASE Next
  BY <1>1, <1>2, <1>3, <1>4, <1>5, <1>6 DEF Next, Alive, ByLoop
<1>. QED
  BY <1>1, <1>6

\* SpeakerInv holds in every reachable state.
LEMMA SpeakerInvariant == Spec => []SpeakerInv
BY SpeakerInit, SpeakerStep, PTL DEF Spec

\* No stream plays on that Pause and Cancel cannot find (Play, Insert, AudioStream::Close).
THEOREM EveryStreamInReach == Spec => []InReach
BY SpeakerInvariant, PTL DEF SpeakerInv

-----------------------------------------------------------------------------
\* What one step may take from a task, from a call of Resume and from a stream.

Resumes(c) == client[c].pc \in {"resume", "uncork"}

Moves ==
  /\ \A t \in Tasks : stream_manager_'[t] # stream_manager_[t] =>
       stream_manager_[t] = None \/ ~stream[stream_manager_[t]].is_running_
  /\ \A c \in Clients :
       /\ Resumes(c)' => \/ Resumes(c) /\ client'[c].stream = client[c].stream
                         \/ UNCHANGED stream /\ stream[client'[c].stream].stream_
       /\ Resumes(c) => \/ Resumes(c)' /\ client'[c].stream = client[c].stream
                        \/ ~stream'[client[c].stream].corked
  /\ \A s \in DOMAIN stream :
       /\ stream[s].stream_ /\ ~stream'[s].stream_ =>
            \/ loop.stream = s /\ loop.pc = "closeStream"
            \/ \E c \in Clients : client[c].stream = s /\ client[c].pc = "closeStream"
       /\ ~stream[s].corked /\ stream'[s].corked => loop.stream = s /\ loop.pc = "cork"
       /\ stream[s].is_pause_ /\ ~stream'[s].is_pause_ => Resuming(s)'

\* A client that is not in Resume touches no stream that is there, and gives a task one
\* at most.
LEMMA CalmMoves ==
  ASSUME SpeakerInv, NEW c \in Clients, ~Resumes(c), ~Resumes(c)',
         \A d \in Clients : d # c => client'[d] = client[d],
         \A s \in DOMAIN stream : stream'[s] = stream[s],
         \A t \in Tasks : stream_manager_'[t] # stream_manager_[t] => stream_manager_[t] = None
  PROVE  Moves
BY DEF Moves, Resumes

\* RemoveIf takes from a task what does not run; Resume begins with a stream that is open.
LEMMA EachMoves ==
  ASSUME SpeakerInv, NEW c \in Clients, Each(c)
  PROVE  Moves
<1> USE DEF SpeakerInv
<1>1. client[c].pc = "each" /\ mutex = c
  BY DEF Each, Stationed, Locking
<1>2. PICK t \in client[c].todo :
        LET s == stream_manager_[t]
            op == client[c].op
        IN  \/ /\ op = "Resume" /\ Resumable(s)
               /\ client' = [client EXCEPT ![c].todo = @ \ {t}, ![c].pc = "resume", ![c].stream = s]
               /\ UNCHANGED <<stream, stream_manager_>>
            \/ /\ client' = [client EXCEPT ![c].todo = @ \ {t}]
               /\ \/ op = "Resume" /\ ~Resumable(s) /\ UNCHANGED <<stream, stream_manager_>>
                  \/ op = "Pause" /\ Set(s, "is_pause_", TRUE) /\ UNCHANGED stream_manager_
                  \/ op = "Cancel" /\ Set(s, "is_cancel_", TRUE) /\ UNCHANGED stream_manager_
                  \/ /\ op = "Play" /\ UNCHANGED stream
                     /\ stream_manager_' = [stream_manager_ EXCEPT ![t] = IF stream[s].is_running_ THEN s ELSE None]
  BY DEF Each
<1>s. PICK s : s = stream_manager_[t]
  OBVIOUS
<1>3. t \in Tasks /\ s \in DOMAIN stream /\ stream \in [DOMAIN stream -> AudioStream]
  BY <1>1, <1>s, NoneAssumption DEF Types, Caller, Stationed, Locking
<1>4. \A d \in Clients : d # c => client'[d] = client[d]
  BY <1>2 DEF Types
<1>5. ~Resumes(c)
  BY <1>1 DEF Resumes
<1>6. Resumes(c)' => UNCHANGED stream /\ stream[client'[c].stream].stream_
  <2>1. CASE client' = [client EXCEPT ![c].todo = @ \ {t}]
    BY <1>1, <2>1 DEF Types, Caller, Resumes
  <2>2. CASE /\ client' = [client EXCEPT ![c].todo = @ \ {t}, ![c].pc = "resume", ![c].stream = s]
             /\ Resumable(s) /\ UNCHANGED stream
    <3> DEFINE next == [client[c] EXCEPT !.todo = @ \ {t}, !.pc = "resume", !.stream = s]
    <3>1. client' = [client EXCEPT ![c] = next]
      BY <2>2 DEF Types
    <3>2. next.stream = s
      BY DEF Types, Caller
    <3> HIDE DEF next
    <3>. QED
      BY <2>2, <3>1, <3>2 DEF Types, Resumable
  <2>. QED
    BY <1>2, <1>s, <2>1, <2>2
<1>7. \A u \in Tasks : stream_manager_'[u] # stream_manager_[u] => u = t /\ ~stream[s].is_running_
  BY <1>2, <1>3, <1>s DEF Types
<1>8. \A x \in DOMAIN stream :
        /\ stream'[x].stream_ = stream[x].stream_ /\ stream'[x].corked = stream[x].corked
        /\ stream[x].is_pause_ => stream'[x].is_pause_
  BY <1>2, <1>3, <1>s DEF Set, AudioStream
<1>. QED
  BY <1>4, <1>5, <1>6, <1>7, <1>8, <1>s DEF Moves, Resumes

\* Resume ends with pa_stream_cork, and is not over while the flag is cleared.
LEMMA ResumeMoves ==
  ASSUME SpeakerInv, NEW c \in Clients, Resume(c) \/ Uncork(c)
  PROVE  Moves
<1> USE DEF SpeakerInv
<1>s. PICK s : s = client[c].stream
  OBVIOUS
<1>1. Resumes(c) /\ UNCHANGED stream_manager_
  BY DEF Resume, Uncork, Resumes
<1>2. s \in DOMAIN stream /\ stream \in [DOMAIN stream -> AudioStream]
  BY <1>1, <1>s, NoneAssumption DEF Types, Caller, Stationed, Resumes
<1>3. \A d \in Clients : d # c => client'[d] = client[d]
  BY DEF Resume, Uncork, Goto, Types
<1>4. CASE Resume(c)
  <2>1. Resumes(c)' /\ client'[c].stream = s
    BY <1>4, <1>s DEF Resume, Goto, Resumes, Types, Caller
  <2>2. \A x \in DOMAIN stream :
          /\ stream'[x].stream_ = stream[x].stream_ /\ stream'[x].corked = stream[x].corked
          /\ x # s => stream'[x].is_pause_ = stream[x].is_pause_
    BY <1>2, <1>4, <1>s DEF Resume, Set, AudioStream
  <2>3. Resuming(s)'
    BY <2>1 DEF Resuming, Resumes
  <2>. QED
    BY <1>1, <1>3, <1>s, <2>1, <2>2, <2>3 DEF Moves, Resumes
<1>5. CASE Uncork(c)
  <2>1. client' = [client EXCEPT ![c].pc = "each", ![c].stream = None] /\ Set(s, "corked", FALSE)
    BY <1>5, <1>s DEF Uncork
  <2>2. ~Resumes(c)'
    BY <2>1 DEF Resumes, Types, Caller
  <2>3. \A x \in DOMAIN stream :
          /\ stream'[x].stream_ = stream[x].stream_ /\ stream'[x].is_pause_ = stream[x].is_pause_
          /\ stream'[x].corked => stream[x].corked
    BY <1>2, <2>1 DEF Set, AudioStream
  <2>4. ~stream'[s].corked
    BY <1>2, <2>1 DEF Set, AudioStream
  <2>. QED
    BY <1>1, <1>3, <1>s, <2>2, <2>3, <2>4 DEF Moves, Resumes
<1>. QED
  BY <1>4, <1>5

\* A step of Close, wherever it runs, touches no other stream and neither flag.
LEMMA ClosedFlags ==
  ASSUME Types, NEW s \in DOMAIN stream, NEW at \in Destructing, CloseStep(at, s)
  PROVE  \A x \in DOMAIN stream :
           /\ stream'[x].corked = stream[x].corked /\ stream'[x].is_pause_ = stream[x].is_pause_
           /\ stream[x].stream_ /\ ~stream'[x].stream_ => x = s /\ at = "closeStream"
<1>1. stream \in [DOMAIN stream -> AudioStream]
  BY DEF Types
<1>2. CASE at = "closeStream"
  <2> DEFINE shut == [stream[s] EXCEPT !.stream_ = FALSE, !.connected = FALSE,
                                      !.callback = FALSE]
  <2>1. stream' = [stream EXCEPT ![s] = shut]
    BY <1>1, <1>2 DEF CloseStep
  <2>2. shut.corked = stream[s].corked /\ shut.is_pause_ = stream[s].is_pause_
    BY <1>1 DEF AudioStream
  <2> HIDE DEF shut
  <2>. QED
    BY <1>1, <1>2, <2>1, <2>2
<1>3. CASE at = "closeFile"
  BY <1>1, <1>3 DEF CloseStep, AudioStream, Set
<1>4. CASE at = "closed"
  BY <1>1, <1>4 DEF CloseStep, AudioStream, Set
<1>. QED
  BY <1>2, <1>3, <1>4 DEF Destructing

\* The destructor of a stream that Play did not insert touches no other.
LEMMA DestroyMoves ==
  ASSUME SpeakerInv, NEW c \in Clients, Destroy(c)
  PROVE  Moves
<1> USE DEF SpeakerInv
<1>s. PICK s : s = client[c].stream
  OBVIOUS
<1>1. client[c].pc \in Destructing /\ client[c].pc \in Making /\ UNCHANGED stream_manager_
  BY DEF Destroy, Making
<1>2. s \in DOMAIN stream
  BY <1>1, <1>s DEF Types, Caller, Stationed
<1>3. \A d \in Clients : d # c => client'[d] = client[d]
  BY DEF Destroy, Goto, Types
<1>4. ~Resumes(c) /\ ~Resumes(c)'
  <2>1. ~Resumes(c)
    BY <1>1 DEF Resumes, Destructing
  <2>2. CASE client[c].pc = "closed"
    BY <2>2, IdleFields DEF Destroy, Types, Resumes
  <2>3. CASE client[c].pc # "closed"
    <3>1. client' = [client EXCEPT ![c].pc = AfterClose(client[c].pc)]
      BY <2>3 DEF Destroy, Goto
    <3>2. AfterClose(client[c].pc) \in {"closeFile", "closed"}
      BY <1>1, <2>3 DEF AfterClose, Destructing
    <3>3. client'[c].pc = AfterClose(client[c].pc)
      BY <3>1 DEF Types, Caller
    <3>. QED
      BY <2>1, <3>2, <3>3 DEF Resumes
  <2>. QED
    BY <2>1, <2>2, <2>3
<1>5. \A x \in DOMAIN stream :
        /\ stream'[x].corked = stream[x].corked /\ stream'[x].is_pause_ = stream[x].is_pause_
        /\ stream[x].stream_ /\ ~stream'[x].stream_ => x = s /\ client[c].pc = "closeStream"
  BY <1>1, <1>2, <1>s, ClosedFlags DEF Destroy
<1>. QED
  BY <1>1, <1>3, <1>4, <1>5, <1>s DEF Moves, Resumes

\* The loop corks a stream when it has seen is_pause_, and closes the one in its hands.
LEMMA CallbackMoves ==
  ASSUME SpeakerInv, UNCHANGED clientVars,
         \/ \E state \in {"ready", "failed"} : ContextState(state)
         \/ \E s \in DOMAIN stream : Request(s) \/ DrainComplete(s)
         \/ Callback
  PROVE  Moves
<1> USE DEF SpeakerInv
<1>1. UNCHANGED <<stream_manager_, client>> /\ stream \in [DOMAIN stream -> AudioStream]
  BY DEF clientVars, Types
<1>2. \A x \in DOMAIN stream :
        /\ stream[x].stream_ /\ ~stream'[x].stream_ => loop.stream = x /\ loop.pc = "closeStream"
        /\ ~stream[x].corked /\ stream'[x].corked => loop.stream = x /\ loop.pc = "cork"
        /\ stream[x].is_pause_ => stream'[x].is_pause_
        /\ stream[x].corked => stream'[x].corked
  <2>1. loop.pc # "idle" => loop.stream \in DOMAIN stream
    BY DEF Types, Stationed
  <2>2. CASE UNCHANGED stream
    BY <2>2
  <2>3. CASE Cork
    BY <1>1, <2>1, <2>3 DEF Cork, Set, AudioStream
  <2>4. CASE Close
    BY <2>1, <2>4, ClosedFlags DEF Close, Destructing
  <2>5. ASSUME NEW s \in DOMAIN stream, Request(s)
        PROVE \A x \in DOMAIN stream :
          stream'[x].stream_ = stream[x].stream_ /\ stream'[x].corked = stream[x].corked
            /\ stream'[x].is_pause_ = stream[x].is_pause_
    <3>1. CASE UNCHANGED stream
      BY <3>1
    <3>2. CASE Set(s, "left", stream[s].left - 1)
      BY <1>1, <3>2 DEF Set, AudioStream
    <3>3. CASE stream' = [stream EXCEPT ![s].callback = FALSE, ![s].draining = TRUE]
      <4> DEFINE drained == [stream[s] EXCEPT !.callback = FALSE, !.draining = TRUE]
      <4>1. stream' = [stream EXCEPT ![s] = drained]
        BY <1>1, <3>3
      <4>2. drained.stream_ = stream[s].stream_ /\ drained.corked = stream[s].corked
            /\ drained.is_pause_ = stream[s].is_pause_
        BY <1>1 DEF AudioStream
      <4> HIDE DEF drained
      <4>. QED
        BY <1>1, <4>1, <4>2
    <3>. QED
      BY <2>5, <3>1, <3>2, <3>3 DEF Request
  <2>6. ASSUME NEW s \in DOMAIN stream, DrainComplete(s)
        PROVE \A x \in DOMAIN stream :
          stream'[x].stream_ = stream[x].stream_ /\ stream'[x].corked = stream[x].corked
            /\ stream'[x].is_pause_ = stream[x].is_pause_
    BY <1>1, <2>6 DEF DrainComplete, Set, AudioStream
  <2>. QED
    BY <2>2, <2>3, <2>4, <2>5, <2>6 DEF ContextState, Callback, CheckPause, CheckCancel
<1>. QED
  BY <1>1, <1>2 DEF Moves, Resumes

\* Every action moves the streams as Moves says.
LEMMA EveryMove == SpeakerInv /\ Next => Moves
<1> SUFFICES ASSUME SpeakerInv, Next PROVE Moves
  OBVIOUS
<1>1. CASE Abort
  BY <1>1 DEF Abort, clientVars, Moves, Resumes
<1>2. ASSUME NEW c \in Clients, ClientStep(c) \/ Quit(c) PROVE Moves
  <2>1. CASE Each(c) \/ Resume(c) \/ Uncork(c) \/ Destroy(c)
    BY <2>1, EachMoves, ResumeMoves, DestroyMoves
  <2>2. CASE \E op \in Operations, tasks \in SUBSET Tasks, task \in Tasks \union {None} : Call(c, op, tasks, task)
    <3>1. client[c].pc = "idle" /\ client'[c].pc = "each"
      BY <2>2, IdleFields DEF Call, SpeakerInv, Types
    <3>2. \A d \in Clients : d # c => client'[d] = client[d]
      BY <2>2 DEF Call, SpeakerInv, Types
    <3>3. UNCHANGED <<stream, stream_manager_>>
      BY <2>2 DEF Call
    <3>. QED
      BY <3>1, <3>2, <3>3, CalmMoves DEF Resumes
  <2>3. CASE Release(c) \/ Refuse(c) \/ Disconnect(c) \/ Quit(c)
    <3>1. client[c].pc \notin {"resume", "uncork"} /\ UNCHANGED <<stream, stream_manager_>>
      BY <2>3, IdleFields DEF Release, Refuse, Disconnect, Quit
    <3>2. \A d \in Clients : d # c => client'[d] = client[d]
      BY <2>3 DEF Release, Refuse, Disconnect, Quit, Goto, SpeakerInv, Types
    <3>3. client'[c].pc \notin {"resume", "uncork"}
      <4>1. CASE Release(c) /\ client[c].op = "Play"
        <5> DEFINE next == [client[c] EXCEPT !.pc = "start"]
        <5>1. client' = [client EXCEPT ![c] = next]
          BY <4>1 DEF Release
        <5>2. next.pc = "start"
          BY DEF SpeakerInv, Types, Caller
        <5> HIDE DEF next
        <5>. QED
          BY <5>1, <5>2 DEF SpeakerInv, Types
      <4>2. CASE client' = [client EXCEPT ![c] = Idle]
        BY <4>2, IdleFields DEF SpeakerInv, Types
      <4>3. CASE Disconnect(c)
        BY <4>3 DEF Disconnect, Goto, SpeakerInv, Types, Caller
      <4>. QED
        BY <2>3, <4>1, <4>2, <4>3 DEF Release, Refuse, Quit
    <3>. QED
      BY <3>1, <3>2, <3>3, CalmMoves DEF Resumes
  <2>4. ASSUME NEW s \in Streams \ DOMAIN stream, Start(c, s) PROVE Moves
    <3>1. PICK at \in {"insert", "closeStream"} : client' = [client EXCEPT ![c].pc = at, ![c].stream = s]
      BY <2>4 DEF Start
    <3> DEFINE next == [client[c] EXCEPT !.pc = at, !.stream = s]
    <3>2. client' = [client EXCEPT ![c] = next]
      BY <3>1 DEF SpeakerInv, Types
    <3>3. next.pc = at
      BY DEF SpeakerInv, Types, Caller
    <3> HIDE DEF next
    <3>4. client'[c].pc = at /\ \A d \in Clients : d # c => client'[d] = client[d]
      BY <3>2, <3>3 DEF SpeakerInv, Types
    <3>5. client[c].pc = "start" /\ UNCHANGED stream_manager_ /\ \A x \in DOMAIN stream : stream'[x] = stream[x]
      BY <2>4 DEF Start
    <3>. QED
      BY <3>4, <3>5, CalmMoves DEF Resumes
  <2>5. CASE Insert(c)
    <3>1. client[c].pc = "insert" /\ UNCHANGED stream
      BY <2>5 DEF Insert
    <3>2. client'[c].pc \in {"idle", "closeStream"} /\ \A d \in Clients : d # c => client'[d] = client[d]
      BY <2>5, IdleFields DEF Insert, Goto, SpeakerInv, Types, Caller
    <3>3. \A t \in Tasks : stream_manager_'[t] # stream_manager_[t] => stream_manager_[t] = None
      BY <2>5 DEF Insert, SpeakerInv, Types
    <3>. QED
      BY <3>1, <3>2, <3>3, CalmMoves DEF Resumes
  <2>6. ClientStep(c) =>
          \/ \E op \in Operations, tasks \in SUBSET Tasks, task \in Tasks \union {None} : Call(c, op, tasks, task)
          \/ Each(c) \/ Resume(c) \/ Uncork(c) \/ Destroy(c)
          \/ Release(c) \/ Refuse(c) \/ Disconnect(c) \/ Insert(c)
          \/ \E s \in Streams \ DOMAIN stream : Start(c, s)
    <3>1. {Tasks} \union {{t} : t \in Tasks} \subseteq SUBSET Tasks
      OBVIOUS
    <3>. QED
      BY <3>1 DEF ClientStep, Operations
  <2>. QED
    BY <1>2, <2>1, <2>2, <2>3, <2>4, <2>5, <2>6
<1>3. CASE \/ \E state \in {"ready", "failed"} : ByLoop(ContextState(state))
           \/ \E s \in DOMAIN stream : ByLoop(Request(s)) \/ ByLoop(DrainComplete(s))
           \/ ByLoop(Callback)
  BY <1>3, CallbackMoves DEF ByLoop, Alive
<1>. QED
  BY <1>1, <1>2, <1>3 DEF Next, Alive

\* A task loses its stream only when nothing of it is open and no callback of it is under way
\* but stream_drain_complete: Play lets go of it only after is_running_ (RemoveIf, Close).
THEOREM EveryDroppedClosed == Spec => DroppedClosed
<1>1. SpeakerInv /\ [Next]_vars =>
        [\A t \in Tasks :
           LET s == stream_manager_[t]
           IN  s # None /\ stream_manager_'[t] # s =>
                 /\ ~stream[s].stream_ /\ ~stream[s].sndfile_ /\ ~stream[s].connected
                 /\ loop.stream = s => loop.drains]_vars
  <2> SUFFICES ASSUME SpeakerInv, Next, NEW t \in Tasks, NEW s, s = stream_manager_[t],
                      s # None, stream_manager_'[t] # s
               PROVE  /\ ~stream[s].stream_ /\ ~stream[s].sndfile_ /\ ~stream[s].connected
                      /\ loop.stream = s => loop.drains
    OBVIOUS
  <2>1. ~stream[s].is_running_
    BY EveryMove DEF Moves
  <2>2. s \in DOMAIN stream /\ Owned(s)
    BY DEF SpeakerInv, Types, Owned
  <2>. QED
    BY <2>1, <2>2 DEF SpeakerInv, Closing
<1>. QED
  BY <1>1, SpeakerInvariant, PTL DEF Spec, DroppedClosed

\* A step is the loop's or a client's: what the tasks have and where the loop is do not
\* change together.
LEMMA LoopOrClient == Next => UNCHANGED stream_manager_ \/ loop' = loop
BY DEF Next, Alive, ByLoop, Abort, Quit, clientVars, loopVars

\* The loop takes up a stream that is connected, or one that has asked for a drain.
LEMMA TakenUp ==
  ASSUME SpeakerInv, Next, NEW s \in DOMAIN stream, loop'.stream = s, loop.stream # s
  PROVE  stream[s].connected \/ stream[s].draining
<1>1. s # None
  BY NoneAssumption DEF SpeakerInv, Types
<1>2. CASE loop' = loop
  BY <1>2
<1>3. CASE \E x \in DOMAIN stream : Request(x)
  <2>1. PICK x \in DOMAIN stream : Request(x)
    BY <1>3
  <2>2. PICK at \in {"closeStream", "pause"} : loop' = [pc |-> at, stream |-> x, drains |-> FALSE]
    BY <2>1 DEF Request
  <2>. QED
    BY <2>1, <2>2 DEF Request
<1>4. CASE \E x \in DOMAIN stream : DrainComplete(x)
  <2>1. PICK x \in DOMAIN stream : DrainComplete(x)
    BY <1>4
  <2>. QED
    BY <2>1 DEF DrainComplete
<1>5. CASE Callback
  <2>1. loop'.stream = loop.stream \/ loop' = LoopIdle
    BY <1>5 DEF Callback, CheckPause, Cork, CheckCancel, Close, SpeakerInv, Types
  <2>. QED
    BY <1>1, <2>1, LoopIdleFields
<1>. QED
  BY <1>2, <1>3, <1>4, <1>5 DEF Next, Alive, ByLoop, Abort, Quit, loopVars, ContextState

\* Resume loses its handle or its effect only in a callback that had tested the flags, and the
\* loop works on a stream that nobody keeps only when a second Play leaves it, or when a drain
\* is answered after Close (Resume, stream_request_cb, stream_drain_complete).
THEOREM EveryRaceKnown == Spec => RacesOnly
<1>1. SpeakerInv /\ [Next]_vars =>
        [\A s \in DOMAIN stream :
           /\ ~Lost(s) /\ Lost(s)' => loop.stream = s /\ loop.pc = "closeStream"
           /\ ~Silent(s) /\ Silent(s)' => loop.stream = s /\ loop.pc = "cork"
           /\ ~Stray(s) /\ Stray(s)' => Left(s) \/ Late(s)]_vars
  <2> SUFFICES ASSUME SpeakerInv, Next, NEW s \in DOMAIN stream
               PROVE  /\ ~Lost(s) /\ Lost(s)' => loop.stream = s /\ loop.pc = "closeStream"
                      /\ ~Silent(s) /\ Silent(s)' => loop.stream = s /\ loop.pc = "cork"
                      /\ ~Stray(s) /\ Stray(s)' => Left(s) \/ Late(s)
    OBVIOUS
  <2> USE DEF SpeakerInv
  <2>1. Moves
    BY EveryMove
  <2>2. ASSUME ~Lost(s), Lost(s)' PROVE loop.stream = s /\ loop.pc = "closeStream"
    <3>1. PICK d \in Clients : Resumes(d)' /\ client'[d].stream = s
      BY <2>2 DEF Lost, Resuming, Resumes
    <3>2. stream[s].stream_ /\ ~stream'[s].stream_
      BY <2>1, <2>2, <3>1 DEF Moves, Lost, Resuming, Resumes
    <3>3. Resumes(d) /\ client[d].stream = s
      BY <2>1, <3>1, <3>2 DEF Moves
    <3>4. \A c \in Clients : client[c].stream = s => client[c].pc # "closeStream"
      BY <3>3 DEF Stationed, Single, Resumes, Making, Destructing
    <3>. QED
      BY <2>1, <3>2, <3>4 DEF Moves
  <2>3. ASSUME ~Silent(s), Silent(s)' PROVE loop.stream = s /\ loop.pc = "cork"
    <3>1. stream'[s].corked /\ ~stream'[s].is_pause_ /\ ~Resuming(s)'
      BY <2>3 DEF Silent
    <3>2. CASE ~stream[s].corked
      BY <2>1, <3>1, <3>2 DEF Moves
    <3>3. CASE stream[s].is_pause_
      BY <2>1, <3>1, <3>3 DEF Moves
    <3>4. CASE Resuming(s)
      <4>1. PICK d \in Clients : Resumes(d) /\ client[d].stream = s
        BY <3>4 DEF Resuming, Resumes
      <4>2. Resumes(d)' /\ client'[d].stream = s
        BY <2>1, <3>1, <4>1 DEF Moves
      <4>. QED
        BY <3>1, <4>2 DEF Resuming, Resumes
    <3>. QED
      BY <2>3, <3>2, <3>3, <3>4 DEF Silent
  <2>4. ASSUME ~Stray(s), Stray(s)' PROVE Left(s) \/ Late(s)
    <3>1. s \in DOMAIN stream /\ s # None /\ loop'.stream = s /\ ~Owned(s)'
      BY <2>4, NoneAssumption DEF Stray, Types
    <3>2. CASE Owned(s)
      <4>1. CASE \E t \in Tasks : stream_manager_[t] = s
        <5>1. PICK t \in Tasks : stream_manager_[t] = s
          BY <4>1
        <5>2. stream_manager_'[t] # s
          BY <3>1, <5>1 DEF Owned
        <5>3. ~stream[s].is_running_
          BY <2>1, <3>1, <5>1, <5>2 DEF Moves
        <5>4. loop.stream = s
          BY <3>1, <5>1, <5>2, LoopOrClient
        <5>. QED
          BY <3>2, <5>3, <5>4 DEF Late, Closing
      <4>2. CASE \E c \in Clients : client[c].pc = "insert" /\ client[c].stream = s
        BY <4>2 DEF Left
      <4>. QED
        BY <3>2, <4>1, <4>2 DEF Owned
    <3>3. CASE ~Owned(s)
      <4>1. loop.stream # s
        BY <2>4, <3>3 DEF Stray
      <4>2. stream[s].connected \/ stream[s].draining
        BY <3>1, <4>1, TakenUp
      <4>3. CASE stream[s].connected \/ stream[s].is_running_
        BY <3>3, <4>3 DEF InReach, Left
      <4>. QED
        BY <4>2, <4>3 DEF Late
    <3>. QED
      BY <3>2, <3>3
  <2>. QED
    BY <2>2, <2>3, <2>4
<1>. QED
  BY <1>1, SpeakerInvariant, PTL DEF Spec, RacesOnly
=============================================================================
