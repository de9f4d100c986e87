------------------------------ MODULE AVEngine ------------------------------
(***************************************************************************)
(* AVSenderEngine, AVReceiverEngine and their providers, in one process of *)
(* a device, on top of SoftbusChannelAdapter.                              *)
(*                                                                         *)
(* Each engine is driven by a control thread of its user (pc), by a data   *)
(* thread (push: the user's PushData of a sender, the pipeline's output    *)
(* callback of a receiver) and by the event threads of the adapter, which  *)
(* write the engine's state without looking at what the control thread is  *)
(* in the middle of. The media pipeline and the control center behind      *)
(* DistributedHardwareFwkKit are external: a call of them succeeds or      *)
(* fails. A pipeline is "none" exactly when isInitialized_ is false and    *)
(* the filters, pipeline_ and dhFwkKit_ are null.                          *)
(***************************************************************************)
EXTENDS SoftbusChannel

CONSTANTS Engine,       \* the engines
          Streaming,    \* those that their users configure, prepare, start and stop
          Made,         \* the sessions that engines may have, by owner and role
          Provider,     \* the listener of the providers
          ServerSess,   \* the sessions a provider has a server for: senders of mic, receivers of the rest
          MediaTag      \* the media parameters that are set

ASSUME EngineAssumption ==
    /\ Listener = Engine \cup {Provider} /\ Provider \notin Engine /\ NoListener \notin Listener
    /\ Streaming \subseteq Engine /\ Made \subseteq [Engine -> Sess]
    /\ ServerSess \subseteq Sess /\ SPECIAL \notin Dev

VARIABLES sessOf,    \* sessionName_, from the owner the engine was made for
          state,     \* currentState_
          pipe,      \* pipeline_
          peer,      \* peerDevId_
          cb,        \* senderCallback_ or receiverCallback_ is set
          params,    \* the filters and the parameters set on them
          pc,        \* the control thread: the call it is in the middle of
          sock,      \* the socket a CreateControlChannel has bound
          push,      \* the data thread is in the middle of a buffer
          crossed,   \* it was when the engine was last stopped or released
          awaiting,  \* the peers CreateControlChannel returned success for, whose
                     \* event has not come, while the engine is their listener
          closing    \* the provider has been destroyed

engVars == <<sessOf, state, pipe, peer, cb, params, pc, sock, push, crossed, awaiting>>
vars == <<ch, engVars, closing>>

State == {"IDLE", "INITIALIZED", "CH_CREATED", "STARTED", "PLAYING", "STOPPED"}
IsSender(e) == sessOf[e][2] = "sender"
KeyOf(e) == <<sessOf[e], peer[e]>>

\* The filters each media parameter of a sender is set on.
SenderFilters ==
    [tag \in MediaTag |->
        IF tag \in {"VIDEO_FRAME_RATE", "VIDEO_CODEC_TYPE", "AUDIO_CODEC_TYPE", "AUDIO_CHANNEL_MASK",
                    "AUDIO_SAMPLE_RATE", "AUDIO_CHANNEL_LAYOUT"} THEN {"input", "output"}
        ELSE IF tag = "DUMP" THEN {"output"}
        ELSE {"input"}]

\* The same of a receiver.
ReceiverFilters ==
    [tag \in MediaTag |->
        IF tag \in {"VIDEO_WIDTH", "VIDEO_HEIGHT", "VIDEO_FRAME_RATE", "VIDEO_CODEC_TYPE",
                    "AUDIO_CODEC_TYPE", "AUDIO_CHANNEL_MASK", "AUDIO_SAMPLE_RATE",
                    "AUDIO_CHANNEL_LAYOUT"} THEN {"input", "output"}
        ELSE IF tag \in {"TIME_SYNC_RESULT", "START_AV_SYNC", "STOP_AV_SYNC", "SHARED_MEMORY_FD"}
        THEN {"output"}
        ELSE {"input"}]

EngTypeOK ==
    /\ AdapterType
    /\ sessOf \in [Engine -> Sess]
    /\ state \in [Engine -> State]
    /\ pipe \in [Engine -> {"none", "linked", "prepared", "running", "paused", "stopped"}]
    /\ peer \in [Engine -> Dev]
    /\ cb \in [Engine -> BOOLEAN] /\ crossed \in [Engine -> BOOLEAN]
    /\ push \in [Engine -> BOOLEAN] /\ awaiting \in [Engine -> SUBSET Dev]
    /\ params \in [Engine -> SUBSET ({"input", "output"} \X MediaTag)]
    /\ pc \in [Engine -> {"ready", "opening", "preparing", "starting", "stopping", "releasing"}]
    /\ sock \in [Engine -> Socks \cup {NoSock}]
    /\ closing \in BOOLEAN

\* The constructor of a provider creates the server of its session and listens
\* to it under the special device id.
ProviderCtor(c, s) ==
    IF s \in ServerSess
    THEN RegisterChannelListener(CreateChannelServer(c, s, "ok"), <<s, SPECIAL>>, Provider)
    ELSE c

Init ==
    /\ AdapterInit
    /\ state = [e \in Engine |-> "IDLE"] /\ pipe = [e \in Engine |-> "none"]
    /\ sessOf \in Made /\ peer \in [Engine -> Dev]
    /\ cb = [e \in Engine |-> FALSE] /\ crossed = [e \in Engine |-> FALSE]
    /\ push = [e \in Engine |-> FALSE] /\ awaiting = [e \in Engine |-> {}]
    /\ params = [e \in Engine |-> {}]
    /\ pc = [e \in Engine |-> "ready"] /\ sock = [e \in Engine |-> NoSock]
    /\ closing = FALSE

\* The provider of a session is made, if it serves one.
CreateProvider(s) ==
    /\ ~closing /\ s \in ServerSess /\ ch.serverMap[s] = NoSock /\ ch.created < MaxSock
    /\ ch' = ProviderCtor(ch, s)
    /\ UNCHANGED <<engVars, closing>>

\* What engines still await when other listeners may have taken their place.
Heard(c, waits) == [e \in Engine |-> {d \in waits[e] : c.listenerMap[<<sessOf[e], d>>] = e}]

Ready(e) == ~closing /\ pc[e] = "ready"

-----------------------------------------------------------------------------
(* Calls of the control thread *)

\* Initialize: InitPipeline, InitControlCenter and the listener.
SenderInitialize(e) ==
    /\ pipe' = [pipe EXCEPT ![e] = "linked"]
    /\ state' = [state EXCEPT ![e] = "INITIALIZED"]
    /\ ch' = RegisterChannelListener(ch, KeyOf(e), e)
ReceiverInitialize(e) == SenderInitialize(e)

\* The provider makes an engine, an object of its own: no thread is in one that
\* went by the name before. One that cannot be initialised is destroyed again and
\* leaves no trace.
CreateAVSenderEngine(e) ==
    /\ Ready(e) /\ ~push[e] /\ IsSender(e) /\ pipe[e] = "none" /\ SenderInitialize(e)
    /\ awaiting' = Heard(ch', awaiting)
    /\ UNCHANGED <<sessOf, peer, cb, params, pc, sock, push, crossed, closing>>
CreateAVReceiverEngine(e) ==
    /\ Ready(e) /\ ~push[e] /\ ~IsSender(e) /\ pipe[e] = "none" /\ ReceiverInitialize(e)
    /\ awaiting' = Heard(ch', awaiting)
    /\ UNCHANGED <<sessOf, peer, cb, params, pc, sock, push, crossed, closing>>

RegisterCallback(e) ==
    /\ Ready(e) /\ ~cb[e] /\ pipe[e] # "none"
    /\ cb' = [cb EXCEPT ![e] = TRUE]
    /\ UNCHANGED <<ch, sessOf, state, pipe, peer, params, pc, sock, push, crossed, awaiting, closing>>

\* CreateControlChannel up to Bind: the engine listens to its new peer, and the
\* call returns when there is a session with it already.
CreateControlChannel(e, d) ==
    LET k == <<sessOf[e], d>>
        c == RegisterChannelListener(ch, k, e)
    IN  /\ Ready(e) /\ pipe[e] # "none"
        /\ peer' = [peer EXCEPT ![e] = d]
        /\ \/ GetSessIdBySessName(c, k) # NoSock /\ ch' = c /\ UNCHANGED <<pc, sock>>
           \/ /\ GetSessIdBySessName(c, k) = NoSock /\ ch.created < MaxSock
              /\ \/ ch' = OpenBind(c, k, FALSE) /\ UNCHANGED <<pc, sock>>
                 \/ /\ ch' = OpenBind(c, k, TRUE)
                    /\ pc' = [pc EXCEPT ![e] = "opening"]
                    /\ sock' = [sock EXCEPT ![e] = c.created + 1]
        /\ awaiting' = Heard(ch', awaiting)
        /\ UNCHANGED <<sessOf, state, pipe, cb, params, push, crossed, closing>>

\* Bind has returned: OpenSoftbusChannel enters the session and tells everyone.
ChannelBound(e) ==
    /\ pc[e] = "opening"
    /\ BagCardinality(ch.threads) + Cardinality(ListenedKeys(ch, sessOf[e])) <= MaxThread
    /\ ch' = OpenInsert(ch, KeyOf(e), sock[e])
    /\ pc' = [pc EXCEPT ![e] = "ready"]
    /\ sock' = [sock EXCEPT ![e] = NoSock]
    /\ awaiting' = Heard(ch, [awaiting EXCEPT ![e] = IF cb[e] THEN @ \cup {peer[e]} ELSE @])
    /\ UNCHANGED <<sessOf, state, pipe, peer, cb, params, push, crossed, closing>>

\* SetParameter with a media parameter: its setter passes it to the filters.
SenderSetParameter(e, tag) ==
    /\ Ready(e) /\ IsSender(e) /\ pipe[e] # "none"
    /\ params' = [params EXCEPT ![e] = @ \cup (SenderFilters[tag] \X {tag})]
    /\ UNCHANGED <<ch, sessOf, state, pipe, peer, cb, pc, sock, push, crossed, awaiting, closing>>
ReceiverSetParameter(e, tag) ==
    /\ Ready(e) /\ ~IsSender(e) /\ pipe[e] # "none"
    /\ params' = [params EXCEPT ![e] = @ \cup (ReceiverFilters[tag] \X {tag})]
    /\ UNCHANGED <<ch, sessOf, state, pipe, peer, cb, pc, sock, push, crossed, awaiting, closing>>

\* SetParameter with ENGINE_READY, and PreparePipeline: the state is read ...
PrepareBegin(e) ==
    /\ Ready(e) /\ pipe[e] # "none"
    /\ state[e] \in {"INITIALIZED", "CH_CREATED"}
    /\ pc' = [pc EXCEPT ![e] = "preparing"]
    /\ UNCHANGED <<ch, sessOf, state, pipe, peer, cb, params, sock, push, crossed, awaiting, closing>>

\* ... and written once the pipeline is prepared, which may fail.
PrepareEnd(e) ==
    /\ pc[e] = "preparing"
    /\ pc' = [pc EXCEPT ![e] = "ready"]
    /\ \/ UNCHANGED <<pipe, state>>
       \/ /\ pipe' = [pipe EXCEPT ![e] = IF @ \in {"running", "paused"} THEN @ ELSE "prepared"]
          /\ state' = [state EXCEPT ![e] = "CH_CREATED"]
    /\ UNCHANGED <<ch, sessOf, peer, cb, params, sock, push, crossed, awaiting, closing>>

\* SetParameter with ENGINE_PAUSE and ENGINE_RESUME, of senders only.
SetEnginePause(e) ==
    /\ Ready(e) /\ IsSender(e) /\ pipe[e] = "running"
    /\ pipe' = [pipe EXCEPT ![e] = "paused"]
    /\ UNCHANGED <<ch, sessOf, state, peer, cb, params, pc, sock, push, crossed, awaiting, closing>>

SetEngineResume(e) ==
    /\ Ready(e) /\ IsSender(e) /\ pipe[e] = "paused"
    /\ pipe' = [pipe EXCEPT ![e] = "running"]
    /\ UNCHANGED <<ch, sessOf, state, peer, cb, params, pc, sock, push, crossed, awaiting, closing>>

\* Start up to the pipeline's own Start.
StartPipeline(e) ==
    /\ Ready(e) /\ state[e] = "CH_CREATED" /\ pipe[e] # "none"
    /\ pipe' = [pipe EXCEPT ![e] = "running"]
    /\ pc' = [pc EXCEPT ![e] = "starting"]
    /\ crossed' = [crossed EXCEPT ![e] = FALSE]
    /\ UNCHANGED <<ch, sessOf, state, peer, cb, params, sock, push, awaiting, closing>>

\* The rest of Start. A sender asks the control center for a channel first, and
\* returns with its pipeline running when that fails.
StartEnd(e) ==
    /\ pc[e] = "starting"
    /\ pc' = [pc EXCEPT ![e] = "ready"]
    /\ \/ state' = [state EXCEPT ![e] = "STARTED"]
       \/ IsSender(e) /\ UNCHANGED state
    /\ UNCHANGED <<ch, sessOf, pipe, peer, cb, params, sock, push, crossed, awaiting, closing>>

\* Stop asks the pipeline, in whatever state the engine is and whether or not the
\* data thread is in the middle of a buffer; a Stop that the pipeline refuses
\* changes nothing.
StopPipeline(e) ==
    /\ Ready(e) /\ pipe[e] # "none"
    /\ pipe' = [pipe EXCEPT ![e] = "stopped"]
    /\ pc' = [pc EXCEPT ![e] = "stopping"]
    /\ UNCHANGED <<ch, sessOf, state, peer, cb, params, sock, push, crossed, awaiting, closing>>

\* Seeded fault: Stop leaves the state to the next event.
StopEndKeepsState(e) ==
    /\ pc[e] = "stopping"
    /\ pc' = [pc EXCEPT ![e] = "ready"]
    /\ crossed' = [crossed EXCEPT ![e] = push[e]]
    /\ UNCHANGED <<ch, sessOf, state, pipe, peer, cb, params, sock, push, awaiting, closing>>

\* The rest of Stop; a sender takes its stream back (EVENT_REMOVE_STREAM, see
\* AVSync).
StopEnd(e) ==
    /\ pc[e] = "stopping"
    /\ pc' = [pc EXCEPT ![e] = "ready"]
    /\ state' = [state EXCEPT ![e] = "STOPPED"]
    /\ crossed' = [crossed EXCEPT ![e] = push[e]]
    /\ UNCHANGED <<ch, sessOf, pipe, peer, cb, params, sock, push, awaiting, closing>>

\* What Release does to the adapter.
LeaveChannel(c, e) == UnRegisterChannelListener(CloseSoftbusChannel(c, KeyOf(e)), KeyOf(e))

\* Release stops the pipeline first, and does not look at what that returns. A
\* receiver returns at once when it is IDLE.
ReleasePipeline(e) ==
    /\ Ready(e)
    /\ IsSender(e) \/ state[e] # "IDLE"
    /\ pipe' = [pipe EXCEPT ![e] = IF @ = "none" THEN @ ELSE "stopped"]
    /\ pc' = [pc EXCEPT ![e] = "releasing"]
    /\ UNCHANGED <<ch, sessOf, state, peer, cb, params, sock, push, crossed, awaiting, closing>>

\* The rest of Release. A receiver keeps its callback.
Release(e) ==
    /\ pc[e] = "releasing"
    /\ pc' = [pc EXCEPT ![e] = "ready"]
    /\ ch' = LeaveChannel(ch, e)
    /\ pipe' = [pipe EXCEPT ![e] = "none"]
    /\ params' = [params EXCEPT ![e] = {}]
    /\ cb' = [cb EXCEPT ![e] = @ /\ ~IsSender(e)]
    /\ state' = [state EXCEPT ![e] = "IDLE"]
    /\ awaiting' = Heard(ch', [awaiting EXCEPT ![e] = {}])
    /\ crossed' = [crossed EXCEPT ![e] = push[e]]
    /\ UNCHANGED <<sessOf, peer, sock, push, closing>>

\* The device that SendMessage for device d reaches, if there is a session.
SendMessage(e, d) == ch.peer[GetSessIdBySessName(ch, <<sessOf[e], d>>)]

-----------------------------------------------------------------------------
(* The data thread *)

\* A buffer comes to an engine that is STARTED or PLAYING, in the middle of a
\* call of the control thread too.
BufferBegin(e) ==
    /\ ~closing /\ ~push[e]
    /\ state[e] \in {"STARTED", "PLAYING"}
    /\ push' = [push EXCEPT ![e] = TRUE]
    /\ UNCHANGED <<ch, sessOf, state, pipe, peer, cb, params, pc, sock, crossed, awaiting, closing>>

\* PushData of a sender. With the first buffer NotifyStreamChange announces its
\* stream (EVENT_ADD_STREAM, see AVSync), or returns without a word; PushData
\* goes on either way.
PushData(e) == IsSender(e) /\ BufferBegin(e)

\* OnEvent of a receiver: the pipeline hands a buffer to HandleOutputBuffer.
OnEvent(e) == ~IsSender(e) /\ cb[e] /\ pipe[e] = "running" /\ BufferBegin(e)

\* The buffer has gone through the filter, or could not be converted or pushed.
BufferEnd(e) ==
    /\ push[e]
    /\ push' = [push EXCEPT ![e] = FALSE]
    /\ \/ UNCHANGED state
       \/ state' = [state EXCEPT ![e] = "PLAYING"]
    /\ UNCHANGED <<ch, sessOf, pipe, peer, cb, params, pc, sock, crossed, awaiting, closing>>

-----------------------------------------------------------------------------
(* Events *)

\* OnChannelEvent of an engine that has a callback: OPENED is stored and told.
EngineOpened(e, t) ==
    /\ cb[e] /\ t.type = "OPENED" /\ ch' = EndThread(ch, t)
    /\ state' = [state EXCEPT ![e] = "CH_CREATED"]
    /\ awaiting' = [awaiting EXCEPT ![e] = @ \ {t.dev}]
    /\ UNCHANGED <<sessOf, pipe, peer, cb, params, pc, sock, push, crossed>>

\* CLOSED reads the state, which may have changed when it stores its own.
EngineClosed(e, t) ==
    /\ t.type = "CLOSED"
    /\ \/ /\ t.at = "call" /\ cb[e] /\ state[e] \notin {"IDLE", "INITIALIZED"}
          /\ ch' = MoveThread(ch, t, "then") /\ UNCHANGED state
       \/ t.at = "then" /\ ch' = EndThread(ch, t) /\ state' = [state EXCEPT ![e] = "INITIALIZED"]
    /\ UNCHANGED <<sessOf, pipe, peer, cb, params, pc, sock, push, crossed, awaiting>>

\* Any other is dropped; DATA goes to the user and changes nothing here.
EngineIgnores(e, t) ==
    /\ t.at = "call"
    /\ \/ ~cb[e] \/ t.type = "DATA"
       \/ t.type = "CLOSED" /\ state[e] \in {"IDLE", "INITIALIZED"}
    /\ ch' = EndThread(ch, t)
    /\ UNCHANGED engVars

\* OnChannelEvent of a provider: its user is told.
ProviderEvent(t) == ch' = EndThread(ch, t) /\ UNCHANGED engVars

\* An event thread calls the listener it found, registered or not by now.
OnChannelEvent(t) ==
    /\ t.at # "lookup"
    /\ IF t.to = Provider THEN ProviderEvent(t)
       ELSE EngineOpened(t.to, t) \/ EngineClosed(t.to, t) \/ EngineIgnores(t.to, t)
    /\ UNCHANGED closing

\* What is left in the adapter once every engine is released ...
EnginesReleased(c) ==
    LET gone == {KeyOf(e) : e \in Engine}
    IN  [c EXCEPT !.listenerMap = [k \in Key |-> IF k \in gone THEN NoListener ELSE @[k]],
                  !.idMap = [k \in Key |-> IF k \in gone THEN NoSock ELSE @[k]],
                  !.peer = [s \in Socks |-> IF \E k \in gone : c.idMap[k] = s THEN "" ELSE @[s]]]

\* ... and the server of each session and its listener have gone.
ServersRemoved(c) ==
    [c EXCEPT !.serverMap = [s \in Sess |-> NoSock],
              !.listenerMap = [k \in Key |-> IF k[1] \in ServerSess /\ k[2] = SPECIAL
                                              THEN NoListener ELSE @[k]]]

\* The destructor of the providers.
DestroyProvider ==
    /\ ~closing /\ \A e \in Engine : Ready(e)
    /\ closing' = TRUE
    /\ state' = [e \in Engine |-> "IDLE"] /\ pipe' = [e \in Engine |-> "none"]
    /\ params' = [e \in Engine |-> {}] /\ awaiting' = [e \in Engine |-> {}]
    /\ crossed' = [e \in Engine |-> push[e]]
    /\ cb' = [e \in Engine |-> cb[e] /\ ~IsSender(e)]
    /\ ch' = ServersRemoved(EnginesReleased(ch))
    /\ UNCHANGED <<sessOf, peer, pc, sock, push>>

Control(e) ==
    \/ CreateAVSenderEngine(e) \/ CreateAVReceiverEngine(e)
    \/ RegisterCallback(e) \/ ChannelBound(e)
    \/ \E d \in Dev : CreateControlChannel(e, d)
    \/ ReleasePipeline(e) \/ Release(e)

Media(e) ==
    \/ \E tag \in MediaTag : SenderSetParameter(e, tag) \/ ReceiverSetParameter(e, tag)
    \/ PrepareBegin(e) \/ PrepareEnd(e) \/ SetEnginePause(e) \/ SetEngineResume(e)
    \/ StartPipeline(e) \/ StartEnd(e) \/ StopPipeline(e) \/ StopEnd(e)
    \/ PushData(e) \/ OnEvent(e) \/ BufferEnd(e)

Softbus ==
    /\ \/ \E s \in Sess, d \in Dev : PeerOpens(s, d)
       \/ \E s \in Socks : PeerCloses(s)
    /\ UNCHANGED <<engVars, closing>>

EventThreads ==
    \/ SendChannelEvent /\ UNCHANGED <<engVars, closing>>
    \/ \E t \in BagToSet(ch.threads) : OnChannelEvent(t)

Next ==
    \/ \E e \in Engine : Control(e)
    \/ \E e \in Streaming : Media(e)
    \/ \E s \in Sess : CreateProvider(s)
    \/ Softbus \/ EventThreads \/ DestroyProvider

Spec == Init /\ [][Next]_vars

-----------------------------------------------------------------------------
(* Properties *)

\* Whatever the event threads write in the middle of a call, an engine that is
\* STARTED or PLAYING between calls has a pipeline that runs or is paused: the
\* state checks of Start, PushData and HandleOutputBuffer and the stores of Stop
\* and Release keep the two in step. The one exception is a buffer that was on
\* its way when the engine was stopped or released: nothing keeps it from storing
\* PLAYING afterwards.
RunningNeedsPipeline ==
    \A e \in Engine :
        pc[e] = "ready" /\ (state[e] = "STARTED" \/ (state[e] = "PLAYING" /\ ~crossed[e]))
           => pipe[e] \in {"running", "paused"}

\* An engine whose CreateControlChannel returned success and whose callback is
\* set is going to be told that the channel to that peer is open, unless it is
\* released before, or another engine of the owner, which uses the same key, takes
\* its place as listener or leaves the channel: the thread with that event is
\* under way, and finds this engine when it looks the listener up, or has found it.
OpenedIsUnderWay ==
    \A e \in Engine : \A d \in awaiting[e] :
        /\ cb[e]
        /\ \E t \in BagToSet(ch.threads) :
              /\ t.type = "OPENED" /\ t.key = <<sessOf[e], d>> /\ t.dev = d
              /\ t.at = "lookup" \/ t.to = e

\* A message an engine sends to a device leaves on a session with that device.
\* "Send message to the sender engine or the sink device": it does not, since
\* a session that any peer opens replaces the entries of all devices listened
\* to under that session name.
MessageReachesItsPeer ==
    \A e \in Engine, d \in Dev :
        GetSessIdBySessName(ch, <<sessOf[e], d>>) # NoSock => SendMessage(e, d) \in {d, ""}

=============================================================================
