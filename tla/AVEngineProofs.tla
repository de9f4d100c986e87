--------------------------- MODULE AVEngineProofs ---------------------------
(***************************************************************************)
(* That the state of an engine and its pipeline stay in step, and that the *)
(* event an engine was promised is on its way to it, for any number of     *)
(* engines, sessions, peers and event threads.                             *)
(*                                                                         *)
(* The control thread, the data thread and the event threads write the     *)
(* state of an engine without a common lock. The first invariant says of a *)
(* buffer in the middle of its way, and of a Start in the middle of its    *)
(* calls, what has to be true of the pipeline then; a buffer that was on   *)
(* its way when a Stop or a Release ended (crossed) may store PLAYING      *)
(* afterwards, and is the one exception. The second one follows the thread *)
(* that brings the event, through listeners that replace one another.      *)
(*                                                                         *)
(* The rest is about the control center that the engines call, in a        *)
(* process of its own: the maps of module AVCenter, which hold engines in  *)
(* use only, and the memory of module AVSync, which the senders of a group *)
(* share. Both are instances with variables of their own.                  *)
(***************************************************************************)
EXTENDS AVEngine, FiniteSetTheorems, TLAPS

Flows == {"running", "paused"}

\* The variables the argument is about. What the adapter does is left open: an
\* event thread may come with any event for any listener.
EngineTypes ==
    /\ state \in [Engine -> State]
    /\ pipe \in [Engine -> {"none", "linked", "prepared", "running", "paused", "stopped"}]
    /\ pc \in [Engine -> {"ready", "opening", "preparing", "starting", "stopping", "releasing"}]
    /\ push \in [Engine -> BOOLEAN] /\ crossed \in [Engine -> BOOLEAN]

\* The control thread is not in a Stop or a Release of the engine.
Untouched(e) == pc[e] \notin {"stopping", "releasing"}

\* An engine that is STARTED, that is PLAYING or that a buffer is in has a
\* pipeline that flows, unless it is being stopped or, the last two, the buffer
\* crossed the end of a Stop or a Release; and so has one that is starting.
PipelineFlows ==
    \A e \in Engine :
        /\ state[e] = "STARTED" /\ Untouched(e) => pipe[e] \in Flows
        /\ state[e] = "PLAYING" /\ ~crossed[e] /\ Untouched(e) => pipe[e] \in Flows
        /\ push[e] /\ ~crossed[e] /\ Untouched(e) => pipe[e] \in Flows
        /\ pc[e] = "starting" => pipe[e] \in Flows

EngineInv == EngineTypes /\ PipelineFlows

ownVars == <<state, pipe, pc, push, crossed>>

-----------------------------------------------------------------------------
(* The steps *)

\* Every engine is made with nothing on its way.
LEMMA EngineInit == Init => EngineInv
  BY DEF Init, EngineInv, EngineTypes, PipelineFlows, State

\* The adapter, the callbacks and the parameters are no part of the invariant.
LEMMA OthersKeep == EngineInv /\ UNCHANGED ownVars => EngineInv'
  BY DEF ownVars, EngineInv, EngineTypes, PipelineFlows, Untouched

\* The calls of the control thread, except Start, Stop and Release.
LEMMA CallsKeep ==
    ASSUME EngineInv, NEW e \in Engine,
           \/ CreateAVSenderEngine(e) \/ CreateAVReceiverEngine(e)
           \/ RegisterCallback(e) \/ ChannelBound(e)
           \/ \E d \in Dev : CreateControlChannel(e, d)
           \/ \E tag \in MediaTag : SenderSetParameter(e, tag) \/ ReceiverSetParameter(e, tag)
           \/ PrepareBegin(e) \/ PrepareEnd(e) \/ SetEnginePause(e) \/ SetEngineResume(e)
    PROVE  EngineInv'
  <1> USE DEF EngineInv, EngineTypes, PipelineFlows, Untouched, Flows, State, Ready
  <1>1. CASE CreateAVSenderEngine(e) \/ CreateAVReceiverEngine(e)
    BY <1>1 DEF CreateAVSenderEngine, CreateAVReceiverEngine, SenderInitialize, ReceiverInitialize
  <1>2. CASE \/ RegisterCallback(e)
             \/ \E tag \in MediaTag : SenderSetParameter(e, tag) \/ ReceiverSetParameter(e, tag)
    <2>1. UNCHANGED ownVars
      BY <1>2 DEF RegisterCallback, SenderSetParameter, ReceiverSetParameter, ownVars
    <2> QED
      BY <2>1, OthersKeep
  <1>3. CASE ChannelBound(e) \/ \E d \in Dev : CreateControlChannel(e, d)
    <2>1. /\ pc[e] \in {"ready", "opening"}
          /\ pc' = pc \/ pc' = [pc EXCEPT ![e] = "ready"] \/ pc' = [pc EXCEPT ![e] = "opening"]
          /\ UNCHANGED <<state, pipe, push, crossed>>
      BY <1>3 DEF ChannelBound, CreateControlChannel
    <2> QED
      BY <2>1
  <1>4. CASE PrepareBegin(e) \/ PrepareEnd(e)
    BY <1>4 DEF PrepareBegin, PrepareEnd
  <1>5. CASE SetEnginePause(e) \/ SetEngineResume(e)
    BY <1>5 DEF SetEnginePause, SetEngineResume
  <1> QED
    BY <1>1, <1>2, <1>3, <1>4, <1>5

\* Start opens the pipeline before it stores the state; Stop and Release close it
\* before, and note whether a buffer is on its way when they store theirs.
LEMMA StartStopKeep ==
    ASSUME EngineInv, NEW e \in Engine,
           \/ StartPipeline(e) \/ StartEnd(e) \/ StopPipeline(e) \/ StopEnd(e)
           \/ ReleasePipeline(e) \/ Release(e)
    PROVE  EngineInv'
  <1> USE DEF EngineInv, EngineTypes, PipelineFlows, Untouched, Flows, State, Ready
  <1>1. CASE StartPipeline(e)
    BY <1>1 DEF StartPipeline
  <1>2. CASE StartEnd(e)
    BY <1>2 DEF StartEnd
  <1>3. CASE StopPipeline(e) \/ ReleasePipeline(e)
    BY <1>3 DEF StopPipeline, ReleasePipeline
  <1>4. CASE StopEnd(e)
    BY <1>4 DEF StopEnd
  <1>5. CASE Release(e)
    BY <1>5 DEF Release
  <1> QED
    BY <1>1, <1>2, <1>3, <1>4, <1>5

\* The data thread, which may come in, and go out, in the middle of any call.
LEMMA BuffersKeep ==
    ASSUME EngineInv, NEW e \in Engine, PushData(e) \/ OnEvent(e) \/ BufferEnd(e)
    PROVE  EngineInv'
  <1> USE DEF EngineInv, EngineTypes, PipelineFlows, Untouched, Flows, State
  <1>1. CASE PushData(e)
    BY <1>1 DEF PushData, BufferBegin
  <1>2. CASE OnEvent(e)
    BY <1>2 DEF OnEvent, BufferBegin
  <1>3. CASE BufferEnd(e)
    BY <1>3 DEF BufferEnd
  <1> QED
    BY <1>1, <1>2, <1>3

\* An event makes a running engine one that does not run, and never the reverse.
LEMMA EventsKeep ==
    ASSUME EngineInv, NEW e, NEW t,
           EngineOpened(e, t) \/ EngineClosed(e, t) \/ EngineIgnores(e, t) \/ ProviderEvent(t)
    PROVE  EngineInv'
  <1> USE DEF EngineOpened, EngineClosed, EngineIgnores, ProviderEvent, engVars
  <1>1. state' \in [Engine -> State]
    BY DEF EngineInv, EngineTypes, State
  <1>2. \A f \in Engine : state'[f] \in {state[f], "CH_CREATED", "INITIALIZED"}
    BY DEF EngineInv, EngineTypes, State
  <1>3. UNCHANGED <<pipe, pc, push, crossed>>
    OBVIOUS
  <1> QED
    BY <1>1, <1>2, <1>3 DEF EngineInv, EngineTypes, PipelineFlows, Untouched

\* The providers are destroyed when no control thread is in the middle of a call.
LEMMA DestroyKeeps == EngineInv /\ DestroyProvider => EngineInv'
  BY DEF DestroyProvider, EngineInv, EngineTypes, PipelineFlows, Untouched, Ready, State

\* Every step of every thread keeps the invariant.
LEMMA EngineNext == EngineInv /\ [Next]_vars => EngineInv'
  <1> SUFFICES ASSUME EngineInv, [Next]_vars
               PROVE  EngineInv'
    OBVIOUS
  <1>1. CASE \E e \in Engine : Control(e)
    BY <1>1, CallsKeep, StartStopKeep DEF Control
  <1>2. CASE \E e \in Streaming : Media(e)
    BY <1>2, EngineAssumption, CallsKeep, StartStopKeep, BuffersKeep DEF Media
  <1>3. CASE Softbus \/ (\E s \in Sess : CreateProvider(s)) \/ UNCHANGED vars
    <2>1. UNCHANGED ownVars
      BY <1>3 DEF Softbus, CreateProvider, vars, engVars, ownVars
    <2> QED
      BY <2>1, OthersKeep
  <1>4. CASE EventThreads
    <2>1. CASE SendChannelEvent /\ UNCHANGED <<engVars, closing>>
      <3>1. UNCHANGED ownVars
        BY <2>1 DEF engVars, ownVars
      <3> QED
        BY <3>1, OthersKeep
    <2>2. CASE \E t \in BagToSet(ch.threads) : OnChannelEvent(t)
      BY <2>2, EventsKeep DEF OnChannelEvent
    <2> QED
      BY <1>4, <2>1, <2>2 DEF EventThreads
  <1>5. CASE DestroyProvider
    BY <1>5, DestroyKeeps
  <1> QED
    BY <1>1, <1>2, <1>3, <1>4, <1>5 DEF Next

-----------------------------------------------------------------------------
(* The theorems *)

\* The inductive invariant: what holds of the pipeline while a Start, a Stop, a
\* Release or a buffer is in the middle of its way through an engine.
THEOREM EngineInvariant == Spec => []EngineInv
  BY EngineInit, EngineNext, PTL DEF Spec

\* An engine that is STARTED or PLAYING between two calls of its user has a
\* pipeline that runs or is paused, whatever the adapter's event threads and the
\* data thread store in the middle of Start, Stop and Release, except for the
\* PLAYING of a buffer that crossed a Stop or a Release.
THEOREM PipelineBehindState == Spec => []RunningNeedsPipeline
  <1>1. EngineInv => RunningNeedsPipeline
    BY DEF EngineInv, PipelineFlows, RunningNeedsPipeline, Flows, Untouched
  <1> QED
    BY <1>1, EngineInvariant, PTL

-----------------------------------------------------------------------------
(* The event that the channel is open *)

\* The adapter is a record whose threads are a bag and whose listeners are
\* listeners.
Shape(c) ==
    /\ DOMAIN c = {"serverMap", "listenerMap", "idMap", "timeSync", "created", "peer", "threads"}
    /\ c.listenerMap \in [Key -> Listener \cup {NoListener}]
    /\ IsABag(c.threads)

\* The thread t brings engine e the news that the channel to d is open.
Brings(t, e, d) ==
    /\ {"type", "key", "dev", "at", "to"} \subseteq DOMAIN t
    /\ t.type = "OPENED" /\ t.key = <<sessOf[e], d>> /\ t.dev = d
    /\ t.at = "lookup" \/ t.to = e

AwaitTypes ==
    /\ Shape(ch)
    /\ sessOf \in [Engine -> Sess] /\ peer \in [Engine -> Dev]
    /\ cb \in [Engine -> BOOLEAN] /\ awaiting \in [Engine -> SUBSET Dev]

\* An engine that awaits the event has its callback and is the listener that a
\* thread finds, and such a thread exists.
Awaited(e, d) ==
    /\ cb[e] /\ ch.listenerMap[<<sessOf[e], d>>] = e
    /\ \E t \in BagToSet(ch.threads) : Brings(t, e, d)

AwaitInv == AwaitTypes /\ \A e \in Engine : \A d \in awaiting[e] : Awaited(e, d)

\* More threads.
LEMMA BagGrows ==
    ASSUME NEW B, IsABag(B), NEW S
    PROVE  IsABag(B (+) SetToBag(S)) /\ BagToSet(B (+) SetToBag(S)) = BagToSet(B) \cup S
  BY DEF IsABag, BagToSet, SetToBag, (+)

\* One thread less: the others stay.
LEMMA BagTakes ==
    ASSUME NEW B, IsABag(B), NEW e
    PROVE  /\ IsABag(B (-) SetToBag({e}))
           /\ \A x \in BagToSet(B) : x # e => x \in BagToSet(B (-) SetToBag({e}))
  <1> DEFINE D == [x \in DOMAIN B |-> IF x \in DOMAIN SetToBag({e}) THEN B[x] - SetToBag({e})[x] ELSE B[x]]
  <1>1. B (-) SetToBag({e}) = [x \in {y \in DOMAIN D : D[y] > 0} |-> D[x]]
    BY DEF (-)
  <1>2. \A x \in DOMAIN B : B[x] \in Nat /\ B[x] > 0
    BY DEF IsABag
  <1>3. \A x \in DOMAIN B : D[x] = IF x = e THEN B[x] - 1 ELSE B[x]
    BY DEF SetToBag
  <1>4. DOMAIN D = DOMAIN B
    OBVIOUS
  <1>5. \A x \in DOMAIN D : D[x] > 0 => D[x] \in Nat
    BY <1>2, <1>3, <1>4
  <1>6. \A x \in DOMAIN B : x # e => D[x] > 0
    BY <1>2, <1>3
  <1> HIDE DEF D
  <1>7. IsABag(B (-) SetToBag({e}))
    BY <1>1, <1>5 DEF IsABag
  <1>8. \A x \in BagToSet(B) : x # e => x \in BagToSet(B (-) SetToBag({e}))
    BY <1>1, <1>4, <1>6 DEF BagToSet
  <1> QED BY <1>7, <1>8

\* What the operations of the adapter do to listeners and threads.
LEMMA RegisterShapes ==
    ASSUME NEW c, Shape(c), NEW k \in Key, NEW l \in Listener \cup {NoListener}
    PROVE  /\ Shape(RegisterChannelListener(c, k, l))
           /\ RegisterChannelListener(c, k, l).threads = c.threads
           /\ RegisterChannelListener(c, k, l).listenerMap = [c.listenerMap EXCEPT ![k] = l]
  BY DEF Shape, RegisterChannelListener

LEMMA BindShapes ==
    ASSUME NEW c, Shape(c), NEW k, NEW ok
    PROVE  /\ Shape(OpenBind(c, k, ok))
           /\ OpenBind(c, k, ok).threads = c.threads
           /\ OpenBind(c, k, ok).listenerMap = c.listenerMap
  BY DEF Shape, OpenBind, Socket

LEMMA CloseShapes ==
    ASSUME NEW c, Shape(c), NEW k
    PROVE  /\ Shape(CloseSoftbusChannel(c, k))
           /\ CloseSoftbusChannel(c, k).threads = c.threads
           /\ CloseSoftbusChannel(c, k).listenerMap = c.listenerMap
  BY DEF Shape, CloseSoftbusChannel, Shutdown

LEMMA ServerShapes ==
    ASSUME NEW c, Shape(c), NEW s, NEW out
    PROVE  /\ Shape(CreateChannelServer(c, s, out))
           /\ CreateChannelServer(c, s, out).threads = c.threads
           /\ CreateChannelServer(c, s, out).listenerMap = c.listenerMap
  BY DEF Shape, CreateChannelServer, Socket

\* The threads that OpenSoftbusChannel starts.
Told(c, k) ==
    {[key |-> l, type |-> "OPENED", about |-> k[1], dev |-> k[2], msg |-> "", at |-> "lookup",
      to |-> NoListener] : l \in ListenedKeys(c, k[1])}

LEMMA InsertShapes ==
    ASSUME NEW c, Shape(c), NEW k, NEW s
    PROVE  /\ Shape(OpenInsert(c, k, s)) /\ OpenInsert(c, k, s).listenerMap = c.listenerMap
           /\ BagToSet(OpenInsert(c, k, s).threads) = BagToSet(c.threads) \cup Told(c, k)
  <1> DEFINE m == [c EXCEPT !.idMap[k] = IF @ = NoSock THEN s ELSE @]
             told == {[key |-> l, type |-> "OPENED", about |-> k[1], dev |-> k[2], msg |-> "",
                       at |-> "lookup", to |-> NoListener] : l \in ListenedKeys(c, k[1])}
  <1>1. Shape(m) /\ m.threads = c.threads /\ m.listenerMap = c.listenerMap
    BY DEF Shape
  <1>2. OpenInsert(c, k, s) = [m EXCEPT !.threads = @ (+) SetToBag(told)]
    BY DEF OpenInsert, Spawn
  <1>3. told = Told(c, k)
    BY DEF Told
  <1> HIDE DEF m, told
  <1>4. /\ IsABag(m.threads (+) SetToBag(told))
        /\ BagToSet(m.threads (+) SetToBag(told)) = BagToSet(m.threads) \cup told
    BY <1>1, BagGrows DEF Shape
  <1> QED BY <1>1, <1>2, <1>3, <1>4 DEF Shape

LEMMA PeerShapes ==
    ASSUME Shape(ch), (\E s \in Sess, d \in Dev : PeerOpens(s, d)) \/ (\E s \in Socks : PeerCloses(s))
    PROVE  /\ Shape(ch') /\ ch'.listenerMap = ch.listenerMap
           /\ BagToSet(ch.threads) \subseteq BagToSet(ch'.threads)
  <1>1. PICK m, S :
           /\ DOMAIN ch' = DOMAIN m /\ DOMAIN m = DOMAIN ch
           /\ m.listenerMap = ch.listenerMap /\ m.threads = ch.threads
           /\ ch'.listenerMap = m.listenerMap /\ ch'.threads = m.threads (+) SetToBag(S)
    <2>1. CASE \E s \in Sess, d \in Dev : PeerOpens(s, d)
      <3>1. PICK ps \in Sess, d \in Dev : PeerOpens(ps, d)
        BY <2>1
      <3> DEFINE s == FindSessNameByPeerSessName(ps)
                 m == [Socket(ch) EXCEPT !.peer[ch.created + 1] = d]
                 S == {[key |-> k, type |-> "OPENED", about |-> s, dev |-> d,
                        msg |-> "", at |-> "lookup", to |-> NoListener] : k \in ListenedKeys(m, s)}
                 told == [m EXCEPT !.threads = @ (+) SetToBag(S)]
      <3>2. DOMAIN m = DOMAIN ch /\ m.listenerMap = ch.listenerMap /\ m.threads = ch.threads
        BY DEF Shape, Socket
      <3>3. ch' = [told EXCEPT !.idMap = [k \in Key |->
                      IF k \in ListenedKeys(m, s) \/ (k = <<s, d>> /\ @[k] = NoSock)
                      THEN ch.created + 1 ELSE @[k]]]
        BY <3>1 DEF PeerOpens, OnSoftbusChannelOpened, Spawn
      <3> HIDE DEF m, S
      <3>4. /\ DOMAIN told = DOMAIN m /\ told.listenerMap = m.listenerMap
            /\ told.threads = m.threads (+) SetToBag(S)
        BY <3>2 DEF Shape
      <3> HIDE DEF told
      <3>5. DOMAIN ch' = DOMAIN m /\ ch'.listenerMap = m.listenerMap /\ ch'.threads = told.threads
        BY <3>2, <3>3, <3>4 DEF Shape
      <3> QED BY <3>2, <3>4, <3>5
    <2>2. CASE \E s \in Socks : PeerCloses(s)
      <3>1. PICK s, d : s \in Socks /\ ch' = OnSoftbusChannelClosed(Shutdown(ch, s), s, d)
        BY <2>2 DEF PeerCloses
      <3> DEFINE m == Shutdown(ch, s)
                 S == {[key |-> k, type |-> "CLOSED", about |-> k[1], dev |-> d, msg |-> "",
                        at |-> "lookup", to |-> NoListener] : k \in KeysOfSession(m, s)}
                 told == [m EXCEPT !.threads = @ (+) SetToBag(S)]
      <3>2. DOMAIN m = DOMAIN ch /\ m.listenerMap = ch.listenerMap /\ m.threads = ch.threads
        BY DEF Shape, Shutdown
      <3>3. ch' = [told EXCEPT !.idMap = [k \in Key |->
                      IF k \in KeysOfSession(m, s) THEN NoSock ELSE @[k]]]
        BY <3>1 DEF OnSoftbusChannelClosed
      <3> HIDE DEF m, S
      <3>4. /\ DOMAIN told = DOMAIN m /\ told.listenerMap = m.listenerMap
            /\ told.threads = m.threads (+) SetToBag(S)
        BY <3>2 DEF Shape
      <3> HIDE DEF told
      <3>5. DOMAIN ch' = DOMAIN m /\ ch'.listenerMap = m.listenerMap /\ ch'.threads = told.threads
        BY <3>2, <3>3, <3>4 DEF Shape
      <3> QED BY <3>2, <3>4, <3>5
    <2> QED BY <2>1, <2>2
  <1>2. /\ IsABag(m.threads (+) SetToBag(S))
        /\ BagToSet(m.threads (+) SetToBag(S)) = BagToSet(m.threads) \cup S
    BY <1>1, BagGrows DEF Shape
  <1> QED BY <1>1, <1>2 DEF Shape

\* A thread ends.
LEMMA EndShapes ==
    ASSUME Shape(ch), NEW t, ch' = EndThread(ch, t)
    PROVE  /\ Shape(ch') /\ ch'.listenerMap = ch.listenerMap
           /\ \A u \in BagToSet(ch.threads) : u # t => u \in BagToSet(ch'.threads)
  <1>1. /\ IsABag(ch.threads (-) SetToBag({t}))
        /\ \A u \in BagToSet(ch.threads) : u # t => u \in BagToSet(ch.threads (-) SetToBag({t}))
    BY BagTakes DEF Shape
  <1> QED BY <1>1 DEF EndThread, Shape

\* A thread goes on: one takes its place.
LEMMA GoesOnShapes ==
    ASSUME Shape(ch), NEW t, NEW u,
           ch' = [ch EXCEPT !.threads = (@ (-) SetToBag({t})) (+) SetToBag({u})]
    PROVE  /\ Shape(ch') /\ ch'.listenerMap = ch.listenerMap
           /\ u \in BagToSet(ch'.threads)
           /\ \A x \in BagToSet(ch.threads) : x # t => x \in BagToSet(ch'.threads)
  <1> DEFINE rest == ch.threads (-) SetToBag({t})
  <1>1. IsABag(rest) /\ \A x \in BagToSet(ch.threads) : x # t => x \in BagToSet(rest)
    BY BagTakes DEF Shape
  <1>2. ch'.threads = rest (+) SetToBag({u}) /\ ch'.listenerMap = ch.listenerMap /\ DOMAIN ch' = DOMAIN ch
    BY DEF Shape
  <1> HIDE DEF rest
  <1>3. IsABag(rest (+) SetToBag({u})) /\ BagToSet(rest (+) SetToBag({u})) = BagToSet(rest) \cup {u}
    BY <1>1, BagGrows
  <1> QED BY <1>1, <1>2, <1>3 DEF Shape

-----------------------------------------------------------------------------
(* The steps, and who awaits what *)

\* No thread is lost, and those who still await their event are still listeners.
LEMMA AwaitStays ==
    ASSUME AwaitInv, AwaitTypes', UNCHANGED sessOf,
           \A e \in Engine : awaiting'[e] \subseteq awaiting[e],
           \A e \in Engine : \A d \in awaiting'[e] :
               cb'[e] /\ ch'.listenerMap[<<sessOf[e], d>>] = e,
           BagToSet(ch.threads) \subseteq BagToSet(ch'.threads)
    PROVE  AwaitInv'
  <1> SUFFICES ASSUME NEW e \in Engine, NEW d \in awaiting'[e]
               PROVE  Awaited(e, d)'
    BY DEF AwaitInv
  <1>1. PICK t \in BagToSet(ch.threads) : Brings(t, e, d)
    BY DEF AwaitInv, Awaited
  <1>2. t \in BagToSet(ch'.threads) /\ Brings(t, e, d)'
    BY <1>1 DEF Brings
  <1> QED BY <1>2 DEF Awaited, BagToSet

\* What Heard leaves.
LEMMA HeardIsLess ==
    ASSUME NEW c, NEW waits, waits \in [Engine -> SUBSET Dev]
    PROVE  /\ Heard(c, waits) \in [Engine -> SUBSET Dev]
           /\ \A e \in Engine : Heard(c, waits)[e] \subseteq waits[e]
           /\ \A e \in Engine : \A d \in Heard(c, waits)[e] : c.listenerMap[<<sessOf[e], d>>] = e
  BY DEF Heard

\* Nothing that matters here changes.
LEMMA AwaitUntouched ==
    ASSUME AwaitInv, UNCHANGED <<ch, sessOf, peer, cb, awaiting>>
    PROVE  AwaitInv'
  <1>1. AwaitTypes'
    BY DEF AwaitInv, AwaitTypes, Shape, IsABag
  <1>2. BagToSet(ch.threads) \subseteq BagToSet(ch'.threads)
    BY DEF BagToSet
  <1>3. \A e \in Engine : \A d \in awaiting'[e] :
            cb'[e] /\ ch'.listenerMap[<<sessOf[e], d>>] = e
    BY DEF AwaitInv, Awaited
  <1> QED BY <1>1, <1>2, <1>3, AwaitStays

LEMMA MediaKeepsAwait ==
    ASSUME AwaitInv, NEW e \in Engine, Media(e)
    PROVE  AwaitInv'
  BY AwaitUntouched
  DEF Media, SenderSetParameter, ReceiverSetParameter, PrepareBegin, PrepareEnd, SetEnginePause,
      SetEngineResume, StartPipeline, StartEnd, StopPipeline, StopEnd, PushData, OnEvent,
      BufferBegin, BufferEnd

\* An engine registers as a listener, and others that used the key await no more.
LEMMA ListenKeepsAwait ==
    ASSUME AwaitInv, NEW e \in Engine, NEW k \in Key, NEW c, Shape(c),
           c.threads = ch.threads, c.listenerMap = [ch.listenerMap EXCEPT ![k] = e],
           ch' = c \/ \E ok \in BOOLEAN : ch' = OpenBind(c, k, ok),
           awaiting' = Heard(ch', awaiting), peer' \in [Engine -> Dev], UNCHANGED <<sessOf, cb>>
    PROVE  AwaitInv'
  <1>1. Shape(ch') /\ ch'.threads = ch.threads
    BY BindShapes
  <1>2. /\ awaiting' \in [Engine -> SUBSET Dev]
        /\ \A f \in Engine : awaiting'[f] \subseteq awaiting[f]
        /\ \A f \in Engine : \A d \in awaiting'[f] : ch'.listenerMap[<<sessOf[f], d>>] = f
    BY HeardIsLess DEF AwaitInv, AwaitTypes
  <1>3. \A f \in Engine : \A d \in awaiting'[f] : cb'[f]
    BY <1>2 DEF AwaitInv, Awaited
  <1>4. AwaitTypes'
    BY <1>1, <1>2 DEF AwaitInv, AwaitTypes
  <1> QED BY <1>1, <1>2, <1>3, <1>4, AwaitStays

LEMMA CreateKeepsAwait ==
    ASSUME AwaitInv, NEW e \in Engine,
           \/ CreateAVSenderEngine(e) \/ CreateAVReceiverEngine(e)
           \/ \E d \in Dev : CreateControlChannel(e, d)
    PROVE  AwaitInv'
  <1> USE EngineAssumption
  <1>k. \A d \in Dev : <<sessOf[e], d>> \in Key
    BY DEF AwaitInv, AwaitTypes, Key
  <1>1. CASE CreateAVSenderEngine(e) \/ CreateAVReceiverEngine(e)
    <2> DEFINE c == RegisterChannelListener(ch, KeyOf(e), e)
    <2>1. /\ ch' = c /\ awaiting' = Heard(ch', awaiting) /\ UNCHANGED <<sessOf, cb, peer>>
      BY <1>1 DEF CreateAVSenderEngine, CreateAVReceiverEngine, SenderInitialize, ReceiverInitialize
    <2>2. KeyOf(e) \in Key
      BY <1>k DEF KeyOf, AwaitInv, AwaitTypes
    <2>3. Shape(c) /\ c.threads = ch.threads /\ c.listenerMap = [ch.listenerMap EXCEPT ![KeyOf(e)] = e]
      BY <2>2, RegisterShapes DEF AwaitInv, AwaitTypes
    <2>4. peer' \in [Engine -> Dev]
      BY <2>1 DEF AwaitInv, AwaitTypes
    <2> HIDE DEF c
    <2> QED BY <2>1, <2>2, <2>3, <2>4, ListenKeepsAwait
  <1>2. CASE \E d \in Dev : CreateControlChannel(e, d)
    <2>1. PICK d \in Dev : CreateControlChannel(e, d)
      BY <1>2
    <2> DEFINE k == <<sessOf[e], d>>
               c == RegisterChannelListener(ch, k, e)
    <2>2. /\ ch' = c \/ \E ok \in BOOLEAN : ch' = OpenBind(c, k, ok)
          /\ awaiting' = Heard(ch', awaiting) /\ UNCHANGED <<sessOf, cb>>
          /\ peer' = [peer EXCEPT ![e] = d]
      BY <2>1 DEF CreateControlChannel
    <2>3. k \in Key
      BY <1>k
    <2>4. Shape(c) /\ c.threads = ch.threads /\ c.listenerMap = [ch.listenerMap EXCEPT ![k] = e]
      BY <2>3, RegisterShapes DEF AwaitInv, AwaitTypes
    <2>5. peer' \in [Engine -> Dev]
      BY <2>2 DEF AwaitInv, AwaitTypes
    <2> HIDE DEF c, k
    <2> QED BY <2>2, <2>3, <2>4, <2>5, ListenKeepsAwait
  <1> QED BY <1>1, <1>2

\* CreateControlChannel returns, having told every listener of the session name.
LEMMA BoundKeepsAwait ==
    ASSUME AwaitInv, NEW e \in Engine, ChannelBound(e)
    PROVE  AwaitInv'
  <1> USE EngineAssumption
  <1> DEFINE waits == [awaiting EXCEPT ![e] = IF cb[e] THEN @ \cup {peer[e]} ELSE @]
  <1>1. /\ ch' = OpenInsert(ch, KeyOf(e), sock[e]) /\ awaiting' = Heard(ch, waits)
        /\ UNCHANGED <<sessOf, peer, cb>>
    BY DEF ChannelBound
  <1>2. /\ Shape(ch') /\ ch'.listenerMap = ch.listenerMap
        /\ BagToSet(ch'.threads) = BagToSet(ch.threads) \cup Told(ch, KeyOf(e))
    BY <1>1, InsertShapes DEF AwaitInv, AwaitTypes
  <1>3. waits \in [Engine -> SUBSET Dev]
    BY DEF AwaitInv, AwaitTypes
  <1>4. /\ awaiting' \in [Engine -> SUBSET Dev]
        /\ \A f \in Engine : awaiting'[f] \subseteq waits[f]
        /\ \A f \in Engine : \A d \in awaiting'[f] : ch.listenerMap[<<sessOf[f], d>>] = f
    <2> HIDE DEF waits
    <2> QED BY <1>1, <1>3, HeardIsLess
  <1>5. AwaitTypes'
    BY <1>1, <1>2, <1>4 DEF AwaitInv, AwaitTypes
  <1>6. ASSUME NEW f \in Engine, NEW d \in awaiting'[f]
        PROVE  Awaited(f, d)'
    <2>1. CASE d \in awaiting[f]
      <3>1. PICK t \in BagToSet(ch.threads) : Brings(t, f, d)
        BY <2>1 DEF AwaitInv, Awaited
      <3>2. t \in BagToSet(ch'.threads) /\ Brings(t, f, d)'
        BY <1>1, <1>2, <3>1 DEF Brings
      <3>3. cb'[f] /\ ch'.listenerMap[<<sessOf'[f], d>>] = f
        BY <1>1, <1>2, <1>4, <1>6, <2>1 DEF AwaitInv, Awaited
      <3> QED BY <3>2, <3>3 DEF Awaited, BagToSet
    <2>2. CASE d \notin awaiting[f]
      <3>1. f = e /\ cb[e] /\ d = peer[e]
        BY <1>3, <1>4, <1>6, <2>2 DEF AwaitInv, AwaitTypes
      <3>2. ch.listenerMap[<<sessOf[e], d>>] = e
        BY <1>4, <1>6, <3>1
      <3>3. <<sessOf[e], d>> \in ListenedKeys(ch, KeyOf(e)[1])
        <4>1. <<sessOf[e], d>> \in Key
          BY <3>1 DEF AwaitInv, AwaitTypes, Key
        <4> QED BY <3>2, <4>1 DEF ListenedKeys, KeyOf
      <3> DEFINE t == [key |-> <<sessOf[e], d>>, type |-> "OPENED", about |-> KeyOf(e)[1],
                       dev |-> KeyOf(e)[2], msg |-> "", at |-> "lookup", to |-> NoListener]
      <3>4. t \in Told(ch, KeyOf(e))
        BY <3>3 DEF Told
      <3>5. /\ {"type", "key", "dev", "at", "to"} \subseteq DOMAIN t
            /\ t.type = "OPENED" /\ t.key = <<sessOf[e], d>> /\ t.dev = d /\ t.at = "lookup"
        BY <3>1 DEF KeyOf
      <3> HIDE DEF t
      <3> QED BY <1>1, <1>2, <3>1, <3>2, <3>4, <3>5 DEF Awaited, Brings, BagToSet
    <2> QED BY <2>1, <2>2
  <1> QED BY <1>5, <1>6 DEF AwaitInv

\* Release: the engine awaits nothing any more, and those it shared the key with
\* are no longer found.
LEMMA ReleaseKeepsAwait ==
    ASSUME AwaitInv, NEW e \in Engine, Release(e)
    PROVE  AwaitInv'
  <1> DEFINE c == CloseSoftbusChannel(ch, KeyOf(e))
             waits == [awaiting EXCEPT ![e] = {}]
  <1>1. /\ ch' = UnRegisterChannelListener(c, KeyOf(e)) /\ awaiting' = Heard(ch', waits)
        /\ cb' = [cb EXCEPT ![e] = @ /\ ~IsSender(e)] /\ UNCHANGED <<sessOf, peer>>
    BY DEF Release, LeaveChannel
  <1>2. Shape(c) /\ c.threads = ch.threads /\ c.listenerMap = ch.listenerMap
    BY CloseShapes DEF AwaitInv, AwaitTypes
  <1> HIDE DEF c
  <1>3. KeyOf(e) \in Key
    BY DEF KeyOf, Key, AwaitInv, AwaitTypes
  <1>4. Shape(ch') /\ ch'.threads = ch.threads
    <2>1. PICK k \in Key : k = KeyOf(e)
      BY <1>3
    <2>2. PICK l \in Listener \cup {NoListener} : l = NoListener
      OBVIOUS
    <2>3. ch' = RegisterChannelListener(c, k, l)
      BY <1>1, <2>1, <2>2 DEF RegisterChannelListener, UnRegisterChannelListener
    <2>4. /\ Shape(RegisterChannelListener(c, k, l))
          /\ RegisterChannelListener(c, k, l).threads = c.threads
      BY <1>2, RegisterShapes
    <2> QED BY <1>2, <2>3, <2>4
  <1>5. waits \in [Engine -> SUBSET Dev] /\ waits[e] = {} /\ \A f \in Engine : waits[f] \subseteq awaiting[f]
    BY DEF AwaitInv, AwaitTypes
  <1>6. /\ awaiting' \in [Engine -> SUBSET Dev]
        /\ \A f \in Engine : awaiting'[f] \subseteq waits[f]
        /\ \A f \in Engine : \A d \in awaiting'[f] : ch'.listenerMap[<<sessOf[f], d>>] = f
    <2> HIDE DEF waits
    <2> QED BY <1>1, <1>5, HeardIsLess
  <1> HIDE DEF waits
  <1>7. AwaitTypes'
    BY <1>1, <1>4, <1>6 DEF AwaitInv, AwaitTypes
  <1>8. \A f \in Engine : \A d \in awaiting'[f] : cb'[f]
    <2> SUFFICES ASSUME NEW f \in Engine, NEW d \in awaiting'[f]
                 PROVE  cb'[f]
      OBVIOUS
    <2>1. f # e /\ d \in awaiting[f]
      BY <1>5, <1>6
    <2> QED BY <1>1, <2>1 DEF AwaitInv, AwaitTypes, Awaited
  <1> QED BY <1>1, <1>4, <1>5, <1>6, <1>7, <1>8, AwaitStays

\* The calls that leave listeners and threads alone, or enter a provider under the
\* special device id, which is no peer's.
LEMMA CallsKeepAwait ==
    ASSUME AwaitInv,
           \/ \E e \in Engine : RegisterCallback(e) \/ ReleasePipeline(e)
           \/ \E s \in Sess : CreateProvider(s)
           \/ DestroyProvider
    PROVE  AwaitInv'
  <1> USE EngineAssumption
  <1>1. CASE \E e \in Engine : ReleasePipeline(e)
    BY <1>1, AwaitUntouched DEF ReleasePipeline
  <1>2. CASE \E e \in Engine : RegisterCallback(e)
    <2>1. /\ UNCHANGED <<ch, sessOf, peer, awaiting>> /\ cb' \in [Engine -> BOOLEAN]
          /\ \A f \in Engine : cb[f] => cb'[f]
      BY <1>2 DEF RegisterCallback, AwaitInv, AwaitTypes
    <2>2. AwaitTypes'
      BY <2>1 DEF AwaitInv, AwaitTypes, Shape, IsABag
    <2>3. BagToSet(ch.threads) \subseteq BagToSet(ch'.threads)
      BY <2>1
    <2>4. \A f \in Engine : \A d \in awaiting'[f] :
              cb'[f] /\ ch'.listenerMap[<<sessOf[f], d>>] = f
      BY <2>1 DEF AwaitInv, Awaited
    <2> QED BY <2>1, <2>2, <2>3, <2>4, AwaitStays
  <1>3. CASE \E s \in Sess : CreateProvider(s)
    <2>1. PICK s \in Sess : CreateProvider(s)
      BY <1>3
    <2> DEFINE c == CreateChannelServer(ch, s, "ok")
    <2>2. /\ ch' = RegisterChannelListener(c, <<s, SPECIAL>>, Provider)
          /\ UNCHANGED <<sessOf, peer, cb, awaiting>>
      BY <2>1 DEF CreateProvider, ProviderCtor, engVars
    <2>3. Shape(c) /\ c.threads = ch.threads /\ c.listenerMap = ch.listenerMap
      BY ServerShapes DEF AwaitInv, AwaitTypes
    <2> HIDE DEF c
    <2>4. <<s, SPECIAL>> \in Key /\ Provider \in Listener
      BY DEF Key
    <2>5. /\ Shape(ch') /\ ch'.threads = ch.threads
          /\ ch'.listenerMap = [ch.listenerMap EXCEPT ![<<s, SPECIAL>>] = Provider]
      BY <2>2, <2>3, <2>4, RegisterShapes
    <2>6. \A f \in Engine : \A d \in awaiting[f] :
              cb[f] /\ ch'.listenerMap[<<sessOf[f], d>>] = f
      <3> SUFFICES ASSUME NEW f \in Engine, NEW d \in awaiting[f]
                   PROVE  cb[f] /\ ch'.listenerMap[<<sessOf[f], d>>] = f
        OBVIOUS
      <3>1. cb[f] /\ ch.listenerMap[<<sessOf[f], d>>] = f
        BY DEF AwaitInv, Awaited
      <3>2. <<sessOf[f], d>> \in Key /\ <<sessOf[f], d>> # <<s, SPECIAL>>
        BY DEF AwaitInv, AwaitTypes, Key
      <3> QED BY <2>5, <3>1, <3>2 DEF AwaitInv, AwaitTypes, Shape
    <2>7. AwaitTypes'
      BY <2>2, <2>5 DEF AwaitInv, AwaitTypes
    <2> QED BY <2>2, <2>5, <2>6, <2>7, AwaitStays
  <1>4. CASE DestroyProvider
    <2>1. /\ awaiting' = [e \in Engine |-> {}] /\ UNCHANGED <<sessOf, peer>>
          /\ cb' = [e \in Engine |-> cb[e] /\ ~IsSender(e)]
          /\ ch' = ServersRemoved(EnginesReleased(ch))
      BY <1>4 DEF DestroyProvider
    <2>2. Shape(EnginesReleased(ch))
      BY DEF EnginesReleased, Shape, AwaitInv, AwaitTypes
    <2>3. Shape(ch')
      BY <2>1, <2>2 DEF ServersRemoved, Shape
    <2>4. cb' \in [Engine -> BOOLEAN]
      BY <2>1 DEF AwaitInv, AwaitTypes, IsSender
    <2> QED BY <2>1, <2>3, <2>4 DEF AwaitInv, AwaitTypes
  <1> QED BY <1>1, <1>2, <1>3, <1>4

\* A thread that is looked for in the next state by what it brings.
LEMMA StillAwaited ==
    ASSUME AwaitInv, AwaitTypes', UNCHANGED <<sessOf, cb>>, ch'.listenerMap = ch.listenerMap,
           NEW e \in Engine, NEW d \in awaiting[e],
           \A t \in BagToSet(ch.threads) : Brings(t, e, d) =>
               \E u \in BagToSet(ch'.threads) : Brings(u, e, d)
    PROVE  Awaited(e, d)'
  <1>1. cb[e] /\ ch.listenerMap[<<sessOf[e], d>>] = e
    BY DEF AwaitInv, Awaited
  <1>2. PICK u \in BagToSet(ch'.threads) : Brings(u, e, d)
    BY DEF AwaitInv, Awaited
  <1>3. Brings(u, e, d)'
    BY <1>2 DEF Brings
  <1> QED BY <1>1, <1>2, <1>3 DEF Awaited, BagToSet

\* A thread looks its listener up, and finds the engine that awaits it.
LEMMA LookUpKeepsAwait ==
    ASSUME AwaitInv, SendChannelEvent, UNCHANGED engVars
    PROVE  AwaitInv'
  <1> USE EngineAssumption
  <1>0. UNCHANGED <<sessOf, peer, cb, awaiting>> /\ Shape(ch)
    BY DEF engVars, AwaitInv, AwaitTypes
  <1>1. PICK t \in BagToSet(ch.threads) : t.at = "lookup" /\ ch' = LookUpListener(ch, t)
    BY DEF SendChannelEvent
  <1> DEFINE l == ch.listenerMap[t.key]
             u == [t EXCEPT !.at = "call", !.to = l]
  <1>2. CASE l = NoListener
    <2>1. ch' = EndThread(ch, t)
      BY <1>1, <1>2 DEF LookUpListener, EndThread
    <2>2. /\ Shape(ch') /\ ch'.listenerMap = ch.listenerMap
          /\ \A x \in BagToSet(ch.threads) : x # t => x \in BagToSet(ch'.threads)
      BY <1>0, <2>1, EndShapes
    <2>3. AwaitTypes'
      BY <1>0, <2>2 DEF AwaitInv, AwaitTypes
    <2>4. \A e \in Engine : \A d \in awaiting[e] : ~Brings(t, e, d)
      <3> SUFFICES ASSUME NEW e \in Engine, NEW d \in awaiting[e], Brings(t, e, d)
                   PROVE  FALSE
        OBVIOUS
      <3>1. l = e
        BY DEF Brings, AwaitInv, Awaited
      <3> QED BY <1>2, <3>1
    <2>5. \A e \in Engine : \A d \in awaiting[e] : Awaited(e, d)'
      BY <1>0, <2>2, <2>3, <2>4, StillAwaited
    <2> QED BY <1>0, <2>3, <2>5 DEF AwaitInv
  <1>3. CASE l # NoListener
    <2>1. ch' = [ch EXCEPT !.threads = (@ (-) SetToBag({t})) (+) SetToBag({u})]
      BY <1>1, <1>3 DEF LookUpListener
    <2>u. PICK w : w = u
      OBVIOUS
    <2>2. /\ Shape(ch') /\ ch'.listenerMap = ch.listenerMap
          /\ w \in BagToSet(ch'.threads)
          /\ \A x \in BagToSet(ch.threads) : x # t => x \in BagToSet(ch'.threads)
      <3> HIDE DEF u
      <3> QED BY <1>0, <2>1, <2>u, GoesOnShapes
    <2>3. AwaitTypes'
      BY <1>0, <2>2 DEF AwaitInv, AwaitTypes
    <2>4. \A e \in Engine : \A d \in awaiting[e] : Brings(t, e, d) => Brings(w, e, d)
      <3> SUFFICES ASSUME NEW e \in Engine, NEW d \in awaiting[e], Brings(t, e, d)
                   PROVE  Brings(w, e, d)
        OBVIOUS
      <3>1. /\ l = e /\ t.type = "OPENED" /\ t.key = <<sessOf[e], d>> /\ t.dev = d
            /\ {"type", "key", "dev", "at", "to"} \subseteq DOMAIN t
        BY DEF Brings, AwaitInv, Awaited
      <3>2. w.to = l /\ DOMAIN w = DOMAIN t
        BY <2>u, <3>1
      <3>3. w.type = t.type /\ w.key = t.key /\ w.dev = t.dev
        BY <2>u, <3>1
      <3> QED BY <3>1, <3>2, <3>3 DEF Brings
    <2>5. \A e \in Engine : \A d \in awaiting[e] : Awaited(e, d)'
      BY <1>0, <2>2, <2>3, <2>4, StillAwaited
    <2> QED BY <1>0, <2>3, <2>5 DEF AwaitInv
  <1> QED BY <1>2, <1>3

\* A thread that has not what is awaited ends or goes on.
LEMMA OtherThreadKeepsAwait ==
    ASSUME AwaitInv, NEW t, UNCHANGED <<sessOf, peer, cb>>,
           awaiting' \in [Engine -> SUBSET Dev],
           \A e \in Engine : awaiting'[e] \subseteq awaiting[e],
           \A e \in Engine : \A d \in awaiting'[e] : ~Brings(t, e, d),
           ch' = EndThread(ch, t) \/ ch' = MoveThread(ch, t, "then")
    PROVE  AwaitInv'
  <1>1. /\ Shape(ch') /\ ch'.listenerMap = ch.listenerMap
        /\ \A x \in BagToSet(ch.threads) : x # t => x \in BagToSet(ch'.threads)
    <2>1. CASE ch' = EndThread(ch, t)
      BY <2>1, EndShapes DEF AwaitInv, AwaitTypes
    <2>2. CASE ch' = MoveThread(ch, t, "then")
      <3>1. PICK u : u = [t EXCEPT !.at = "then"]
        OBVIOUS
      <3>2. ch' = [ch EXCEPT !.threads = (@ (-) SetToBag({t})) (+) SetToBag({u})]
        BY <2>2, <3>1 DEF MoveThread
      <3> QED BY <3>2, GoesOnShapes DEF AwaitInv, AwaitTypes
    <2> QED BY <2>1, <2>2
  <1>2. AwaitTypes'
    BY <1>1 DEF AwaitInv, AwaitTypes
  <1>3. \A e \in Engine : \A d \in awaiting'[e] : Awaited(e, d)'
    <2> SUFFICES ASSUME NEW e \in Engine, NEW d \in awaiting'[e]
                 PROVE  Awaited(e, d)'
      OBVIOUS
    <2>1. d \in awaiting[e] /\ ~Brings(t, e, d)
      OBVIOUS
    <2>2. \A x \in BagToSet(ch.threads) : Brings(x, e, d) =>
              \E u \in BagToSet(ch'.threads) : Brings(u, e, d)
      BY <1>1, <2>1
    <2> QED BY <1>1, <1>2, <2>1, <2>2, StillAwaited
  <1> QED BY <1>2, <1>3 DEF AwaitInv

\* The listener that a thread has found is called.
LEMMA EventKeepsAwait ==
    ASSUME AwaitInv, NEW t \in BagToSet(ch.threads), OnChannelEvent(t)
    PROVE  AwaitInv'
  <1> USE EngineAssumption
  <1>0. t.at # "lookup"
    BY DEF OnChannelEvent
  <1>1. \A e \in Engine : \A d \in awaiting[e] :
            Brings(t, e, d) => t.to = e /\ t.type = "OPENED" /\ t.dev = d /\ cb[e]
    BY <1>0 DEF Brings, AwaitInv, Awaited
  <1>2. CASE t.to = Provider
    <2>1. ch' = EndThread(ch, t) /\ UNCHANGED <<sessOf, peer, cb, awaiting>>
      BY <1>2 DEF OnChannelEvent, ProviderEvent, engVars
    <2> QED BY <1>1, <1>2, <2>1, OtherThreadKeepsAwait DEF AwaitInv, AwaitTypes
  <1>3. CASE t.to # Provider /\ EngineOpened(t.to, t)
    <2>1. /\ ch' = EndThread(ch, t) /\ UNCHANGED <<sessOf, peer, cb>>
          /\ awaiting' = [awaiting EXCEPT ![t.to] = @ \ {t.dev}]
      BY <1>3 DEF EngineOpened
    <2>2. /\ awaiting' \in [Engine -> SUBSET Dev]
          /\ \A e \in Engine : awaiting'[e] \subseteq awaiting[e]
          /\ t.to \in Engine => t.dev \notin awaiting'[t.to]
      BY <2>1 DEF AwaitInv, AwaitTypes
    <2>3. \A e \in Engine : \A d \in awaiting'[e] : ~Brings(t, e, d)
      BY <1>1, <2>2
    <2> QED BY <2>1, <2>2, <2>3, OtherThreadKeepsAwait
  <1>4. CASE t.to # Provider /\ EngineClosed(t.to, t)
    <2>1. /\ ch' = EndThread(ch, t) \/ ch' = MoveThread(ch, t, "then")
          /\ t.type = "CLOSED" /\ UNCHANGED <<sessOf, peer, cb, awaiting>>
      BY <1>4 DEF EngineClosed
    <2> QED BY <1>1, <2>1, OtherThreadKeepsAwait DEF AwaitInv, AwaitTypes
  <1>5. CASE t.to # Provider /\ EngineIgnores(t.to, t)
    <2>1. /\ ch' = EndThread(ch, t) /\ UNCHANGED <<sessOf, peer, cb, awaiting>>
          /\ ~cb[t.to] \/ t.type # "OPENED"
      BY <1>5 DEF EngineIgnores, engVars
    <2>2. \A e \in Engine : \A d \in awaiting[e] : ~Brings(t, e, d)
      BY <1>1, <2>1
    <2> QED BY <2>1, <2>2, OtherThreadKeepsAwait DEF AwaitInv, AwaitTypes
  <1> QED BY <1>2, <1>3, <1>4, <1>5 DEF OnChannelEvent

LEMMA SoftbusKeepsAwait == AwaitInv /\ Softbus => AwaitInv'
  <1> SUFFICES ASSUME AwaitInv, Softbus PROVE AwaitInv'
    OBVIOUS
  <1>1. /\ UNCHANGED <<sessOf, peer, cb, awaiting>>
        /\ (\E s \in Sess, d \in Dev : PeerOpens(s, d)) \/ (\E s \in Socks : PeerCloses(s))
    BY DEF Softbus, engVars
  <1>2. /\ Shape(ch') /\ ch'.listenerMap = ch.listenerMap
        /\ BagToSet(ch.threads) \subseteq BagToSet(ch'.threads)
    BY <1>1, PeerShapes DEF AwaitInv, AwaitTypes
  <1>3. AwaitTypes'
    BY <1>1, <1>2 DEF AwaitInv, AwaitTypes
  <1>4. \A e \in Engine : \A d \in awaiting'[e] :
            cb'[e] /\ ch'.listenerMap[<<sessOf[e], d>>] = e
    BY <1>1, <1>2 DEF AwaitInv, Awaited
  <1> QED BY <1>1, <1>2, <1>3, <1>4, AwaitStays

LEMMA AwaitInit == Init => AwaitInv
  <1> SUFFICES ASSUME Init PROVE AwaitInv
    OBVIOUS
  <1>1. IsABag(EmptyBag)
    BY DEF IsABag, EmptyBag, SetToBag
  <1>2. Shape(ch)
    BY <1>1 DEF Init, AdapterInit, Shape
  <1> QED BY <1>2, EngineAssumption DEF Init, AwaitInv, AwaitTypes

LEMMA AwaitNext == AwaitInv /\ [Next]_vars => AwaitInv'
  <1> SUFFICES ASSUME AwaitInv, [Next]_vars PROVE AwaitInv'
    OBVIOUS
  <1>1. ASSUME NEW e \in Engine, Control(e) PROVE AwaitInv'
    BY <1>1, CreateKeepsAwait, BoundKeepsAwait, ReleaseKeepsAwait, CallsKeepAwait DEF Control
  <1>2. ASSUME NEW e \in Streaming, Media(e) PROVE AwaitInv'
    BY <1>2, EngineAssumption, MediaKeepsAwait
  <1>3. CASE EventThreads
    <2>1. CASE SendChannelEvent /\ UNCHANGED <<engVars, closing>>
      BY <2>1, LookUpKeepsAwait
    <2>2. CASE \E t \in BagToSet(ch.threads) : OnChannelEvent(t)
      BY <2>2, EventKeepsAwait
    <2> QED BY <1>3, <2>1, <2>2 DEF EventThreads
  <1>4. CASE UNCHANGED vars
    BY <1>4, AwaitUntouched DEF vars, engVars
  <1>5. CASE (\E s \in Sess : CreateProvider(s)) \/ DestroyProvider
    BY <1>5, CallsKeepAwait
  <1> QED BY <1>1, <1>2, <1>3, <1>4, <1>5, SoftbusKeepsAwait DEF Next

\* Whatever the engines of one owner do to the key they share, and in whatever
\* order the event threads run, the event that CreateControlChannel promised is
\* under way to the engine that is still its listener (SendEventChannelOPened and
\* SendChannelEvent of the adapter, OnChannelEvent of the engines).
THEOREM OpenedIsBrought == Spec => []OpenedIsUnderWay
  <1>1. AwaitInv => OpenedIsUnderWay
    <2> SUFFICES ASSUME AwaitInv, NEW e \in Engine, NEW d \in awaiting[e]
                 PROVE  /\ cb[e]
                        /\ \E t \in BagToSet(ch.threads) :
                              /\ t.type = "OPENED" /\ t.key = <<sessOf[e], d>> /\ t.dev = d
                              /\ t.at = "lookup" \/ t.to = e
      BY DEF OpenedIsUnderWay
    <2>1. Awaited(e, d)
      BY DEF AwaitInv
    <2> QED BY <2>1 DEF Awaited, Brings
  <1> QED BY AwaitInit, AwaitNext, <1>1, PTL DEF Spec

-----------------------------------------------------------------------------
(* The control center in the service process: module AVCenter *)

CONSTANTS Client, NoClient, DevOf, Center, MaxId
VARIABLES centerCh, initialized, rootEngineId, id, centerCtl, callbackMap, engine2Dev, connected,
          sessionName

Ctr == INSTANCE AVCenter WITH Owner <- {"avsync"}, Listener <- {Center}, ch <- centerCh,
                              ctl <- centerCtl

\* A client's place in its calls, and the maps, which are functions of the ids.
CenterTypes ==
    /\ NoClient \notin Client
    /\ DOMAIN centerCtl = Client /\ DOMAIN id = Client
    /\ \A c \in Client : DOMAIN centerCtl[c] = {"at", "dev", "sock"}
    /\ callbackMap \in [Ctr!Ids -> Client \cup {NoClient}]
    /\ DOMAIN engine2Dev = Ctr!Ids

\* A client is in use, or has an entry still to be taken out, under id i.
InUseAs(c, i) == id[c] = i /\ centerCtl[c].at \in Ctr!InUse
EnteredAs(c, i) == id[c] = i /\ centerCtl[c].at \in Ctr!InUse \cup {"entry"}

\* MapsHoldEngines, client by client.
CenterInv ==
    /\ CenterTypes
    /\ \A i \in Ctr!Ids : \A c \in Client : callbackMap[i] = c => InUseAs(c, i)
    /\ \A i \in Ctr!Ids : engine2Dev[i] # "" => \E c \in Client : EnteredAs(c, i)

\* The call of c has gone on to "to", and those of others are where they were.
Moved(c, to) ==
    /\ DOMAIN centerCtl' = Client
    /\ \A d \in Client : DOMAIN centerCtl'[d] = {"at", "dev", "sock"}
    /\ centerCtl'[c].at = to
    /\ \A d \in Client : d # c => centerCtl'[d] = centerCtl[d]

LEMMA CallMoves ==
    ASSUME CenterTypes, NEW c \in Client, NEW to, NEW v,
           \/ centerCtl' = [centerCtl EXCEPT ![c].at = to]
           \/ centerCtl' = [centerCtl EXCEPT ![c].at = to, ![c].dev = v]
           \/ centerCtl' = [centerCtl EXCEPT ![c].at = to, ![c].sock = v]
    PROVE  Moved(c, to)
  BY DEF CenterTypes, Moved

\* The places of the clients that make no call now.
LEMMA OthersStay ==
    ASSUME NEW c \in Client, NEW to, Moved(c, to), \A d \in Client : d # c => id'[d] = id[d],
           NEW d \in Client, d # c, NEW i
    PROVE  /\ InUseAs(d, i) => InUseAs(d, i)'
           /\ EnteredAs(d, i) => EnteredAs(d, i)'
  BY DEF Moved, InUseAs, EnteredAs, Ctr!InUse

\* A client that was in no call of an engine in use takes an id, or goes on.
LEMMA OutsideKeeps ==
    ASSUME CenterInv, NEW c \in Client, NEW to, Moved(c, to),
           centerCtl[c].at \notin Ctr!InUse \cup {"entry"},
           DOMAIN id' = Client, \A d \in Client : d # c => id'[d] = id[d],
           UNCHANGED <<callbackMap, engine2Dev>>
    PROVE  CenterInv'
  <1>1. CenterTypes'
    BY DEF CenterInv, CenterTypes, Moved, Ctr!Ids
  <1>2. \A i \in Ctr!Ids : ~InUseAs(c, i) /\ ~EnteredAs(c, i)
    BY DEF InUseAs, EnteredAs
  <1>3. \A i \in Ctr!Ids : \A d \in Client : callbackMap'[i] = d => InUseAs(d, i)'
    <2> SUFFICES ASSUME NEW i \in Ctr!Ids, NEW d \in Client, callbackMap'[i] = d
                 PROVE  InUseAs(d, i)'
      OBVIOUS
    <2>1. InUseAs(d, i)
      BY DEF CenterInv
    <2> QED BY <1>2, <2>1, OthersStay
  <1>4. \A i \in Ctr!Ids : engine2Dev'[i] # "" => \E d \in Client : EnteredAs(d, i)'
    <2> SUFFICES ASSUME NEW i \in Ctr!Ids, engine2Dev'[i] # ""
                 PROVE  \E d \in Client : EnteredAs(d, i)'
      OBVIOUS
    <2>1. PICK d \in Client : EnteredAs(d, i)
      BY DEF CenterInv
    <2> QED BY <1>2, <2>1, OthersStay
  <1> QED BY <1>1, <1>3, <1>4 DEF CenterInv, Ctr!Ids

\* A client in use stays in use, and enters at most itself.
LEMMA InsideKeeps ==
    ASSUME CenterInv, NEW c \in Client, NEW to \in Ctr!InUse, Moved(c, to), UNCHANGED id,
           \/ UNCHANGED callbackMap
           \/ callbackMap' = [callbackMap EXCEPT ![id[c]] = IF @ = NoClient THEN c ELSE @],
           UNCHANGED engine2Dev \/ Ctr!EnterDevice(c)
    PROVE  CenterInv'
  <1>1. CenterTypes'
    <2>1. callbackMap' \in [Ctr!Ids -> Client \cup {NoClient}]
      BY DEF CenterInv, CenterTypes
    <2>2. DOMAIN engine2Dev' = Ctr!Ids
      BY DEF CenterInv, CenterTypes, Ctr!EnterDevice
    <2> QED BY <2>1, <2>2 DEF CenterInv, CenterTypes, Moved, Ctr!Ids
  <1>2. \A i \in Ctr!Ids : i = id[c] => InUseAs(c, i)' /\ EnteredAs(c, i)'
    BY DEF Moved, InUseAs, EnteredAs, Ctr!InUse
  <1>3. \A i \in Ctr!Ids : \A d \in Client : callbackMap'[i] = d => callbackMap[i] = d \/ (d = c /\ i = id[c])
    BY DEF CenterInv, CenterTypes
  <1>4. \A i \in Ctr!Ids : engine2Dev'[i] # "" => engine2Dev[i] # "" \/ i = id[c]
    BY DEF CenterInv, CenterTypes, Ctr!EnterDevice
  <1>5. \A i \in Ctr!Ids : InUseAs(c, i) \/ EnteredAs(c, i) => i = id[c]
    BY DEF InUseAs, EnteredAs
  <1>6. \A i \in Ctr!Ids : \A d \in Client : callbackMap'[i] = d => InUseAs(d, i)'
    <2> SUFFICES ASSUME NEW i \in Ctr!Ids, NEW d \in Client, callbackMap'[i] = d
                 PROVE  InUseAs(d, i)'
      OBVIOUS
    <2>1. CASE d = c
      <3>1. i = id[c]
        BY <1>3, <1>5, <2>1 DEF CenterInv
      <3> QED BY <1>2, <2>1, <3>1
    <2>2. CASE d # c
      <3>1. InUseAs(d, i)
        BY <1>3, <2>2 DEF CenterInv
      <3> QED BY <2>2, <3>1, OthersStay
    <2> QED BY <2>1, <2>2
  <1>7. \A i \in Ctr!Ids : engine2Dev'[i] # "" => \E d \in Client : EnteredAs(d, i)'
    BY <1>2, <1>4, <1>5, OthersStay DEF CenterInv
  <1> QED BY <1>1, <1>6, <1>7 DEF CenterInv, Ctr!Ids

\* ReleaseAVCenter takes the callback out, and then the entry.
LEMMA LeavingKeeps ==
    ASSUME CenterInv, NEW c \in Client, Ctr!ReleaseAVCenter(c) \/ Ctr!ReleaseEntry(c)
    PROVE  CenterInv'
  <1>0. \A i \in Ctr!Ids : InUseAs(c, i) \/ EnteredAs(c, i) => i = id[c]
    BY DEF InUseAs, EnteredAs
  <1>1. CASE Ctr!ReleaseAVCenter(c)
    <2>1. /\ centerCtl' = [centerCtl EXCEPT ![c].at = "entry"]
          /\ callbackMap' = [callbackMap EXCEPT ![id[c]] = NoClient]
          /\ UNCHANGED <<id, engine2Dev>>
      BY <1>1 DEF Ctr!ReleaseAVCenter, Ctr!Step, Ctr!idVars, Ctr!devVars
    <2>2. Moved(c, "entry")
      BY <2>1, CallMoves DEF CenterInv
    <2>3. CenterTypes'
      BY <2>1, <2>2 DEF CenterInv, CenterTypes, Moved, Ctr!Ids
    <2>4. \A i \in Ctr!Ids : \A d \in Client : callbackMap'[i] = d => i # id[c] /\ callbackMap[i] = d
      BY <2>1 DEF CenterInv, CenterTypes
    <2>5. \A i \in Ctr!Ids : i = id[c] => EnteredAs(c, i)'
      BY <2>1, <2>2 DEF Moved, EnteredAs
    <2>6. \A i \in Ctr!Ids : \A d \in Client : callbackMap'[i] = d => InUseAs(d, i)'
      BY <1>0, <2>1, <2>2, <2>4, OthersStay DEF CenterInv
    <2>7. \A i \in Ctr!Ids : engine2Dev'[i] # "" => \E d \in Client : EnteredAs(d, i)'
      BY <1>0, <2>1, <2>2, <2>5, OthersStay DEF CenterInv
    <2> QED BY <2>3, <2>6, <2>7 DEF CenterInv, Ctr!Ids
  <1>2. CASE Ctr!ReleaseEntry(c)
    <2>1. PICK to, v :
             /\ to \in {"new", "disconnect"} /\ centerCtl[c].at = "entry"
             /\ \/ centerCtl' = [centerCtl EXCEPT ![c].at = to]
                \/ centerCtl' = [centerCtl EXCEPT ![c].at = to, ![c].dev = v]
      BY <1>2 DEF Ctr!ReleaseEntry
    <2>2. engine2Dev' = [engine2Dev EXCEPT ![id[c]] = ""] /\ UNCHANGED <<id, callbackMap>>
      BY <1>2 DEF Ctr!ReleaseEntry, Ctr!idVars
    <2>3. Moved(c, to)
      BY <2>1, CallMoves DEF CenterInv
    <2>4. CenterTypes'
      BY <2>2, <2>3 DEF CenterInv, CenterTypes, Moved, Ctr!Ids
    <2>5. \A i \in Ctr!Ids : ~InUseAs(c, i)
      BY <2>1 DEF InUseAs, Ctr!InUse
    <2>6. \A i \in Ctr!Ids : \A d \in Client : callbackMap'[i] = d => InUseAs(d, i)'
      BY <2>2, <2>3, <2>5, OthersStay DEF CenterInv
    <2>7. \A i \in Ctr!Ids : engine2Dev'[i] # "" => i # id[c] /\ engine2Dev[i] # ""
      BY <2>2 DEF CenterInv, CenterTypes
    <2>8. \A i \in Ctr!Ids : engine2Dev'[i] # "" => \E d \in Client : EnteredAs(d, i)'
      BY <1>0, <2>2, <2>3, <2>7, OthersStay DEF CenterInv
    <2> QED BY <2>4, <2>6, <2>8 DEF CenterInv, Ctr!Ids
  <1> QED BY <1>1, <1>2

LEMMA InitializeKeeps ==
    ASSUME CenterInv, NEW c \in Client, Ctr!Initialize(c)
    PROVE  CenterInv'
  <1>1. CASE Ctr!InitializeAVCenter(c) \/ Ctr!InitializeListen(c) \/ Ctr!InitializeBump(c)
    <2>1. PICK from, to : from \in {"new", "listen", "bump"} /\ Ctr!Step(c, from, to)
      BY <1>1 DEF Ctr!InitializeAVCenter, Ctr!InitializeListen, Ctr!InitializeBump
    <2>2. Moved(c, to)
      BY <2>1, CallMoves DEF Ctr!Step, CenterInv
    <2>3. /\ UNCHANGED <<callbackMap, engine2Dev>>
          /\ UNCHANGED id \/ id' = [id EXCEPT ![c] = rootEngineId]
      BY <1>1 DEF Ctr!InitializeAVCenter, Ctr!InitializeListen, Ctr!InitializeBump, Ctr!TakeId, Ctr!devVars
    <2>4. DOMAIN id' = Client /\ \A d \in Client : d # c => id'[d] = id[d]
      BY <2>3 DEF CenterInv, CenterTypes
    <2>5. centerCtl[c].at \notin Ctr!InUse \cup {"entry"}
      BY <2>1 DEF Ctr!Step, Ctr!InUse
    <2> QED BY <2>2, <2>3, <2>4, <2>5, OutsideKeeps
  <1>2. CASE Ctr!RegisterCtlCenterCallback(c)
    <2>1. /\ Ctr!Step(c, "register", "idle") /\ UNCHANGED <<id, engine2Dev>>
          /\ callbackMap' = [callbackMap EXCEPT ![id[c]] = IF @ = NoClient THEN c ELSE @]
      BY <1>2 DEF Ctr!RegisterCtlCenterCallback, Ctr!idVars, Ctr!devVars
    <2>2. Moved(c, "idle")
      BY <2>1, CallMoves DEF Ctr!Step, CenterInv
    <2>3. "idle" \in Ctr!InUse
      BY DEF Ctr!InUse
    <2> QED BY <2>1, <2>2, <2>3, InsideKeeps
  <1> QED BY <1>1, <1>2 DEF Ctr!Initialize

LEMMA CreateKeeps ==
    ASSUME CenterInv, NEW c \in Client, Ctr!Create(c)
    PROVE  CenterInv'
  <1>1. UNCHANGED <<id, callbackMap>> /\ (UNCHANGED engine2Dev \/ Ctr!EnterDevice(c))
    BY DEF Ctr!Create, Ctr!CreateControlChannel, Ctr!CreateChannelStep, Ctr!idVars
  <1>2. PICK to, v :
           /\ to \in Ctr!InUse /\ centerCtl[c].at \in Ctr!InUse
           /\ \/ centerCtl' = [centerCtl EXCEPT ![c].at = to]
              \/ centerCtl' = [centerCtl EXCEPT ![c].at = to, ![c].sock = v]
    <2>1. CASE Ctr!CreateControlChannel(c)
      BY <2>1 DEF Ctr!CreateControlChannel, Ctr!Step, Ctr!InUse
    <2>2. CASE Ctr!CreateChannelStep(c)
      BY <2>2 DEF Ctr!CreateChannelStep, Ctr!Step, Ctr!InUse
    <2> QED BY <2>1, <2>2 DEF Ctr!Create
  <1>3. Moved(c, to)
    BY <1>2, CallMoves DEF CenterInv
  <1> QED BY <1>1, <1>2, <1>3, InsideKeeps

LEMMA ReleaseRestKeeps ==
    ASSUME CenterInv, NEW c \in Client, Ctr!ReleaseDevice(c) \/ Ctr!ReleaseChannel(c)
    PROVE  CenterInv'
  <1>1. UNCHANGED <<id, callbackMap, engine2Dev>>
    BY DEF Ctr!ReleaseDevice, Ctr!ReleaseChannel, Ctr!idVars, Ctr!devVars
  <1>2. PICK from, to :
           from \in {"disconnect", "timesync", "shut", "unsend", "unreceive"} /\ Ctr!Step(c, from, to)
    BY DEF Ctr!ReleaseDevice, Ctr!ReleaseChannel
  <1>3. Moved(c, to) /\ centerCtl[c].at \notin Ctr!InUse \cup {"entry"}
    BY <1>2, CallMoves DEF Ctr!Step, CenterInv, Ctr!InUse
  <1>4. DOMAIN id' = Client /\ \A d \in Client : d # c => id'[d] = id[d]
    BY <1>1 DEF CenterInv, CenterTypes
  <1> QED BY <1>1, <1>3, <1>4, OutsideKeeps

\* The variables the argument is about.
centerVars == <<id, centerCtl, callbackMap, engine2Dev>>

LEMMA CenterOthersKeep == CenterInv /\ UNCHANGED centerVars => CenterInv'
  <1> SUFFICES ASSUME CenterInv, UNCHANGED centerVars PROVE CenterInv'
    OBVIOUS
  <1>1. CenterTypes'
    BY DEF centerVars, CenterInv, CenterTypes, Ctr!Ids
  <1>u. callbackMap' = callbackMap /\ engine2Dev' = engine2Dev
    BY DEF centerVars
  <1>3. ASSUME NEW i \in Ctr!Ids, NEW c \in Client, callbackMap'[i] = c PROVE InUseAs(c, i)'
    <2>1. InUseAs(c, i)
      BY <1>u, <1>3 DEF CenterInv
    <2> QED BY <2>1 DEF centerVars, InUseAs, Ctr!InUse
  <1>4. ASSUME NEW i \in Ctr!Ids, engine2Dev'[i] # "" PROVE \E c \in Client : EnteredAs(c, i)'
    <2>1. PICK c \in Client : EnteredAs(c, i)
      BY <1>u, <1>4 DEF CenterInv
    <2> QED BY <2>1 DEF centerVars, EnteredAs, Ctr!InUse
  <1> QED BY <1>1, <1>3, <1>4 DEF CenterInv, Ctr!Ids

LEMMA CenterNext == CenterInv /\ [Ctr!Next]_(Ctr!vars) => CenterInv'
  <1> SUFFICES ASSUME CenterInv, [Ctr!Next]_(Ctr!vars) PROVE CenterInv'
    OBVIOUS
  <1>1. ASSUME NEW c \in Client, Ctr!Initialize(c) \/ Ctr!Create(c) \/ Ctr!Release(c)
        PROVE  CenterInv'
    BY <1>1, InitializeKeeps, CreateKeeps, LeavingKeeps, ReleaseRestKeeps DEF Ctr!Release
  <1>2. CASE Ctr!Softbus \/ (\E t \in Ctr!BagToSet(centerCh.threads) : Ctr!OnChannelEvent(t))
             \/ UNCHANGED Ctr!vars
    <2>1. UNCHANGED centerVars
      BY <1>2 DEF Ctr!Softbus, Ctr!OnChannelEvent, Ctr!vars, Ctr!idVars, Ctr!devVars, centerVars
    <2> QED BY <2>1, CenterOthersKeep
  <1> QED BY <1>1, <1>2 DEF Ctr!Next

LEMMA CenterInit ==
    ASSUME NoClient \notin Client, Ctr!Init
    PROVE  CenterInv
  <1>1. CenterTypes
    BY DEF Ctr!Init, CenterTypes
  <1> QED BY <1>1 DEF Ctr!Init, CenterInv

\* Whatever ids the engines race for, and however their calls interleave, the maps
\* of AVTransControlCenter hold engines that are in use only (InitializeAVCenter,
\* RegisterCtlCenterCallback, CreateControlChannel, ReleaseAVCenter). For any
\* number of engines, peers and ids.
THEOREM MapsHoldTheirEngines ==
    NoClient \notin Client => (Ctr!Spec => []Ctr!MapsHoldEngines)
  <1> SUFFICES ASSUME NoClient \notin Client
               PROVE  Ctr!Spec => []Ctr!MapsHoldEngines
    OBVIOUS
  <1>1. CenterInv => Ctr!MapsHoldEngines
    <2> SUFFICES ASSUME CenterInv, NEW i \in Ctr!Ids
                 PROVE  /\ callbackMap[i] # NoClient =>
                              id[callbackMap[i]] = i /\ centerCtl[callbackMap[i]].at \in Ctr!InUse
                        /\ engine2Dev[i] # "" =>
                              \E c \in Client : id[c] = i /\ centerCtl[c].at \in Ctr!InUse \cup {"entry"}
      BY DEF Ctr!MapsHoldEngines
    <2>1. ASSUME callbackMap[i] # NoClient
          PROVE  id[callbackMap[i]] = i /\ centerCtl[callbackMap[i]].at \in Ctr!InUse
      <3>1. PICK c \in Client : callbackMap[i] = c
        BY <2>1 DEF CenterInv, CenterTypes
      <3>2. InUseAs(c, i)
        BY <3>1 DEF CenterInv
      <3> QED BY <3>1, <3>2 DEF InUseAs
    <2>2. engine2Dev[i] # "" =>
             \E c \in Client : id[c] = i /\ centerCtl[c].at \in Ctr!InUse \cup {"entry"}
      BY DEF CenterInv, EnteredAs
    <2> QED BY <2>1, <2>2
  <1> QED BY CenterInit, CenterNext, <1>1, PTL DEF Ctr!Spec

-----------------------------------------------------------------------------
(* The streams that engines send: module AVSync *)

CONSTANTS SceneOf, Handler, MaxStream, MaxMem
VARIABLES syncCtl, data, handler, registered, streams, sending, srcMem, sinkMem, given

Syn == INSTANCE AVSync WITH ctl <- syncCtl

Scene == {"mic", "speaker", "screen", "camera"}
StreamOf(c) == <<SceneOf[c], DevOf[c]>>
Streams == {StreamOf(c) : c \in Client}

\* The scenes of one group or the other are there: MergeGroupInfo without the
\* count of scenes and the conflict.
Scenes(list) == {s[1] : s \in Syn!BagToSet(list)}
Mergeable(list) ==
    {"screen", "speaker"} \subseteq Scenes(list) \/ {"camera", "mic"} \subseteq Scenes(list)

\* An engine whose stream counts as sent has not been released.
SyncTypes ==
    /\ DOMAIN syncCtl = Client /\ DOMAIN data = Client /\ DOMAIN given = Client
    /\ sending \subseteq Client
    /\ \A c \in sending : syncCtl[c] \in Syn!InUse
    /\ Syn!BagToSet(streams) \subseteq Streams

AllIdle == \A c \in Client : data[c] = "idle"
SameClock == \A a, b \in Syn!Synchronised : given[a] = given[b]

SyncInv == SyncTypes /\ (Syn!OneGroup /\ Mergeable(streams) /\ AllIdle => SameClock)

\* The cardinality that the instance counts with is that of FiniteSets.
LEMMA CountsAlike == \A S : Syn!Cardinality(S) = Cardinality(S)
  BY DEF Cardinality, Syn!Cardinality

\* Whatever MergeGroupInfo merges has the scenes for it.
LEMMA MergedIsMergeable == \A list : Syn!MergeGroupInfo(list) => Mergeable(list)
  BY DEF Mergeable, Scenes, Syn!MergeGroupInfo

\* Where the scenes are those of one group, that is all it takes: the scenes are
\* two, so that the streams are, and there is no conflict.
LEMMA MergeableIsMerged ==
    ASSUME SceneOf \in [Client -> Scene], Syn!OneGroup, NEW list,
           Syn!BagToSet(list) \subseteq Streams, Mergeable(list)
    PROVE  Syn!EnoughStreams(list) /\ Syn!MergeGroupInfo(list)
  <1> DEFINE scenes == Scenes(list)
  <1>1. scenes \subseteq {SceneOf[c] : c \in Client}
    BY DEF Scenes, Streams, StreamOf
  <1>2. scenes \subseteq Scene /\ ~({"mic", "speaker"} \subseteq scenes)
    BY <1>1 DEF Syn!OneGroup
  <1>3. PICK a \in scenes, b \in scenes : a # b
    BY DEF Mergeable
  <1>4. Cardinality(scenes) \in Nat /\ Cardinality(scenes) >= 2
    <2>1. IsFiniteSet(Scene)
      <3>1. Scene = (({"mic"} \cup {"speaker"}) \cup {"screen"}) \cup {"camera"}
        BY DEF Scene
      <3>2. IsFiniteSet({"mic"} \cup {"speaker"})
        BY FS_Singleton, FS_AddElement
      <3>3. IsFiniteSet(({"mic"} \cup {"speaker"}) \cup {"screen"})
        BY <3>2, FS_AddElement
      <3>4. IsFiniteSet((({"mic"} \cup {"speaker"}) \cup {"screen"}) \cup {"camera"})
        BY <3>3, FS_AddElement
      <3> QED BY <3>1, <3>4
    <2>2. IsFiniteSet(scenes) /\ Cardinality(scenes) \in Nat
      BY <1>2, <2>1, FS_Subset, FS_CardinalityType
    <2>3. Cardinality(scenes) # 0 /\ Cardinality(scenes) # 1
      BY <1>3, <2>2, FS_EmptySet, FS_Singleton
    <2> QED BY <2>2, <2>3
  <1>5. Syn!EnoughStreams(list)
    <2>1. PICK s \in Syn!BagToSet(list), t \in Syn!BagToSet(list) : s[1] = a /\ t[1] = b
      BY <1>3 DEF Scenes
    <2>2. s # t
      BY <1>3, <2>1
    <2> QED BY <2>2 DEF Syn!EnoughStreams
  <1>6. Syn!MergeGroupInfo(list)
    BY <1>2, <1>4, CountsAlike DEF Syn!MergeGroupInfo, Syn!AV_SYNC_STREAM_COUNT, Mergeable, Scenes
  <1> QED BY <1>5, <1>6

-----------------------------------------------------------------------------
(* What a step may do to it *)

\* No stream is added, no engine that was not synchronised becomes so, and nothing
\* is handed out to one that stays; or a call that is to hand out is under way.
LEMMA QuietKeeps ==
    ASSUME SyncInv, SyncTypes',
           \/ ~AllIdle'
           \/ ~(Syn!OneGroup /\ Mergeable(streams'))
           \/ /\ AllIdle' => AllIdle
              /\ Mergeable(streams') => Mergeable(streams)
              /\ \A c \in Syn!Synchronised' : c \in Syn!Synchronised /\ given'[c] = given[c]
    PROVE  SyncInv'
  <1>1. ASSUME Syn!OneGroup, Mergeable(streams'), AllIdle' PROVE SameClock'
    <2>1. SameClock /\ \A c \in Syn!Synchronised' : c \in Syn!Synchronised /\ given'[c] = given[c]
      BY <1>1 DEF SyncInv
    <2> QED BY <2>1 DEF SameClock
  <1>2. Syn!OneGroup' <=> Syn!OneGroup
    BY DEF Syn!OneGroup
  <1>3. Mergeable(streams)' <=> Mergeable(streams')
    BY DEF Mergeable, Scenes, Syn!BagToSet
  <1> QED BY <1>1, <1>2, <1>3 DEF SyncInv

\* SetParam2Engines: a memory, or none, goes to every engine that has a callback.
LEMMA GivingKeeps ==
    ASSUME SyncInv, NEW m, Syn!SetMemory2Engines(m), UNCHANGED <<registered, streams, sending>>,
           DOMAIN syncCtl' = Client, DOMAIN data' = Client,
           \A c \in sending : syncCtl'[c] \in Syn!InUse
    PROVE  SyncInv'
  <1>1. PICK failing \in SUBSET registered :
           given' = [c \in Client |-> IF c \in failing THEN Syn!LOST
                                      ELSE IF c \in registered THEN m ELSE given[c]]
    BY DEF Syn!SetMemory2Engines
  <1>2. SyncTypes'
    BY <1>1 DEF SyncInv, SyncTypes, Streams, StreamOf, Syn!BagToSet, Syn!InUse
  <1>3. \A c \in Syn!Synchronised' : given'[c] = m
    BY <1>1 DEF Syn!Synchronised, Syn!LOST, SyncInv, SyncTypes
  <1>4. SameClock'
    BY <1>3 DEF SameClock
  <1> QED BY <1>2, <1>4 DEF SyncInv

LEMMA UntouchedKeeps ==
    ASSUME SyncInv, UNCHANGED <<syncCtl, data, registered, streams, sending, given>>
    PROVE  SyncInv'
  <1>1. SyncTypes'
    BY DEF SyncInv, SyncTypes, Streams, StreamOf, Syn!BagToSet, Syn!InUse
  <1>2. /\ AllIdle' => AllIdle
        /\ \A d \in Syn!Synchronised' : d \in Syn!Synchronised /\ given'[d] = given[d]
    BY DEF AllIdle, Syn!Synchronised, Syn!LOST
  <1> QED BY <1>1, <1>2, QuietKeeps

LEMMA RegisterKeepsClock ==
    ASSUME SyncInv, NEW c \in Client,
           Syn!RegisterCtlCenterCallback(c) \/ Syn!ReleaseAVCenter(c)
    PROVE  SyncInv'
  <1>1. CASE Syn!RegisterCtlCenterCallback(c)
    <2>1. /\ syncCtl[c] \in {"fresh", "released"} /\ syncCtl' = [syncCtl EXCEPT ![c] = "idle"]
          /\ registered' \in {registered, registered \cup {c}}
          /\ UNCHANGED <<data, streams, sending, given>>
      BY <1>1 DEF Syn!RegisterCtlCenterCallback, Syn!listVars
    <2>2. c \notin sending
      BY <2>1 DEF SyncInv, SyncTypes, Syn!InUse
    <2>3. SyncTypes'
      BY <2>1 DEF SyncInv, SyncTypes, Streams, StreamOf, Syn!BagToSet, Syn!InUse
    <2>4. \A d \in Syn!Synchronised' : d \in Syn!Synchronised /\ given'[d] = given[d]
      BY <2>1, <2>2 DEF Syn!Synchronised, Syn!LOST
    <2>5. (AllIdle' => AllIdle) /\ (Mergeable(streams') => Mergeable(streams))
      BY <2>1 DEF AllIdle
    <2> QED BY <2>3, <2>4, <2>5, QuietKeeps
  <1>2. CASE Syn!ReleaseAVCenter(c)
    <2>1. /\ syncCtl' = [syncCtl EXCEPT ![c] = "released"] /\ registered' \subseteq registered
          /\ sending' = sending \ {c} /\ given' = [given EXCEPT ![c] = 0]
          /\ UNCHANGED <<data, streams>>
      BY <1>2 DEF Syn!ReleaseAVCenter
    <2>2. SyncTypes'
      BY <2>1 DEF SyncInv, SyncTypes, Streams, StreamOf, Syn!BagToSet, Syn!InUse
    <2>3. \A d \in Syn!Synchronised' : d \in Syn!Synchronised /\ given'[d] = given[d]
      BY <2>1 DEF Syn!Synchronised, Syn!LOST, SyncInv, SyncTypes
    <2>4. (AllIdle' => AllIdle) /\ (Mergeable(streams') => Mergeable(streams))
      BY <2>1 DEF AllIdle
    <2> QED BY <2>2, <2>3, <2>4, QuietKeeps
  <1> QED BY <1>1, <1>2

\* A stream that makes the list a group leaves the call that added it under way.
LEMMA AddKeepsClock ==
    ASSUME SceneOf \in [Client -> Scene], SyncInv, NEW c \in Client, Syn!AddStreamInfo(c)
    PROVE  SyncInv'
  <1> DEFINE list == Syn!(+)(streams, Syn!SetToBag({<<SceneOf[c], DevOf[c]>>}))
  <1>1. /\ data' = [data EXCEPT ![c] = IF Syn!EnoughStreams(list) THEN "merge" ELSE "idle"]
        /\ streams' = list
        /\ sending' = IF syncCtl[c] \in Syn!InUse THEN sending \cup {c} ELSE sending
        /\ UNCHANGED <<syncCtl, registered, given>>
    BY DEF Syn!AddStreamInfo, Syn!DataStep
  <1>2. Syn!BagToSet(list) \subseteq Streams
    BY DEF SyncInv, SyncTypes, Streams, StreamOf, Syn!BagToSet, Syn!SetToBag, Syn!(+)
  <1> HIDE DEF list
  <1>3. PICK l : l = list
    OBVIOUS
  <1>4. SyncTypes'
    BY <1>1, <1>2 DEF SyncInv, SyncTypes, Streams, StreamOf, Syn!BagToSet, Syn!InUse
  <1>5. CASE Syn!EnoughStreams(list)
    <2>1. ~AllIdle'
      BY <1>1, <1>5 DEF AllIdle, SyncInv, SyncTypes
    <2> QED BY <1>4, <2>1, QuietKeeps
  <1>6. CASE ~Syn!EnoughStreams(list)
    <2>1. ~(Syn!OneGroup /\ Mergeable(l))
      BY <1>2, <1>3, <1>6, MergeableIsMerged
    <2> QED BY <1>1, <1>3, <1>4, <2>1, QuietKeeps
  <1> QED BY <1>5, <1>6

\* The rest of an addition: it ends without handing out only if the list, read
\* again, is no group.
LEMMA MergeKeepsClock ==
    ASSUME SceneOf \in [Client -> Scene], SyncInv, NEW c \in Client,
           Syn!MergeStreams(c) \/ Syn!CreateSenderMemory(c) \/ Syn!GiveSenderMemory(c)
    PROVE  SyncInv'
  <1>1. CASE Syn!MergeStreams(c) \/ Syn!CreateSenderMemory(c)
    <2>1. PICK to :
             /\ data' = [data EXCEPT ![c] = to]
             /\ to \in {"create", "give"} \/ (to = "idle" /\ ~Syn!MergeGroupInfo(streams))
      BY <1>1 DEF Syn!MergeStreams, Syn!CreateSenderMemory, Syn!DataStep
    <2>2. UNCHANGED <<syncCtl, registered, streams, sending, given>>
      BY <1>1 DEF Syn!MergeStreams, Syn!CreateSenderMemory, Syn!listVars
    <2>3. SyncTypes'
      BY <2>1, <2>2 DEF SyncInv, SyncTypes, Streams, StreamOf, Syn!BagToSet, Syn!InUse
    <2>4. CASE to # "idle"
      <3>1. ~AllIdle'
        BY <2>1, <2>4 DEF AllIdle, SyncInv, SyncTypes
      <3> QED BY <2>3, <3>1, QuietKeeps
    <2>5. CASE to = "idle"
      <3>1. ~(Syn!OneGroup /\ Mergeable(streams))
        BY <2>1, <2>5, MergeableIsMerged DEF SyncInv, SyncTypes
      <3> QED BY <2>2, <2>3, <3>1, QuietKeeps
    <2> QED BY <2>4, <2>5
  <1>2. CASE Syn!GiveSenderMemory(c)
    <2>1. /\ Syn!SetMemory2Engines(srcMem) /\ data' = [data EXCEPT ![c] = "idle"]
          /\ UNCHANGED <<syncCtl, registered, streams, sending>>
      BY <1>2 DEF Syn!GiveSenderMemory, Syn!DataStep, Syn!listVars
    <2>2. /\ DOMAIN syncCtl' = Client /\ DOMAIN data' = Client
          /\ \A d \in sending : syncCtl'[d] \in Syn!InUse
      BY <2>1 DEF SyncInv, SyncTypes
    <2> QED BY <2>1, <2>2, GivingKeeps
  <1> QED BY <1>1, <1>2

\* A list that is still a group without some of its streams was one before.
LEMMA RemoveKeepsClock ==
    ASSUME SyncInv, NEW c \in Client, Syn!Remove(c)
    PROVE  SyncInv'
  <1>1. PICK to \in Syn!InUse : syncCtl' = [syncCtl EXCEPT ![c] = to]
    BY DEF Syn!Remove, Syn!RemoveStreamInfo, Syn!DisableSenderAVSync, Syn!CloseSenderMemory,
           Syn!GiveNoMemory, Syn!CtlStep, Syn!InUse
  <1>2. DOMAIN syncCtl' = Client /\ \A d \in sending : syncCtl'[d] \in Syn!InUse
    BY <1>1 DEF SyncInv, SyncTypes
  <1>3. UNCHANGED <<data, registered>>
    BY DEF Syn!Remove, Syn!RemoveStreamInfo, Syn!DisableSenderAVSync, Syn!CloseSenderMemory,
           Syn!GiveNoMemory
  <1>4. CASE Syn!GiveNoMemory(c)
    <2>1. Syn!SetMemory2Engines(0) /\ UNCHANGED <<streams, sending>> /\ DOMAIN data' = Client
      BY <1>3, <1>4 DEF Syn!GiveNoMemory, Syn!listVars, SyncInv, SyncTypes
    <2> QED BY <1>2, <1>3, <2>1, GivingKeeps
  <1>5. CASE Syn!RemoveStreamInfo(c) \/ Syn!DisableSenderAVSync(c) \/ Syn!CloseSenderMemory(c)
    <2>1. PICK l : streams' = l /\ Syn!BagToSet(l) \subseteq Syn!BagToSet(streams)
      BY <1>5 DEF Syn!RemoveStreamInfo, Syn!DisableSenderAVSync, Syn!CloseSenderMemory, Syn!listVars,
                  Syn!BagToSet
    <2>2. sending' \subseteq sending /\ UNCHANGED given
      BY <1>5 DEF Syn!RemoveStreamInfo, Syn!DisableSenderAVSync, Syn!CloseSenderMemory, Syn!listVars
    <2>3. Syn!BagToSet(l) \subseteq Streams
      BY <2>1 DEF SyncInv, SyncTypes
    <2>4. SyncTypes'
      BY <1>2, <1>3, <2>1, <2>2, <2>3
      DEF SyncInv, SyncTypes, Streams, StreamOf, Syn!BagToSet, Syn!InUse
    <2>5. Mergeable(l) => Mergeable(streams)
      BY <2>1 DEF Mergeable, Scenes
    <2>6. /\ AllIdle' => AllIdle
          /\ \A d \in Syn!Synchronised' : d \in Syn!Synchronised /\ given'[d] = given[d]
      BY <1>3, <2>2 DEF AllIdle, Syn!Synchronised, Syn!LOST
    <2> QED BY <2>1, <2>4, <2>5, <2>6, QuietKeeps
  <1> QED BY <1>4, <1>5 DEF Syn!Remove

\* The messages of peers.
LEMMA MessageKeepsClock ==
    ASSUME SyncInv, NEW h \in Handler,
           \/ Syn!EnableReceiverAVSync(h) \/ Syn!DisableReceiverAVSync(h)
           \/ Syn!GiveReceiverMemory(h)
    PROVE  SyncInv'
  <1>1. CASE Syn!GiveReceiverMemory(h)
    <2>1. PICK m : Syn!SetMemory2Engines(m)
      BY <1>1 DEF Syn!GiveReceiverMemory
    <2>2. UNCHANGED <<syncCtl, data, registered, streams, sending>>
      BY <1>1 DEF Syn!GiveReceiverMemory, Syn!listVars
    <2>3. /\ DOMAIN syncCtl' = Client /\ DOMAIN data' = Client
          /\ \A d \in sending : syncCtl'[d] \in Syn!InUse
      BY <2>2 DEF SyncInv, SyncTypes
    <2> QED BY <2>1, <2>2, <2>3, GivingKeeps
  <1>2. CASE Syn!EnableReceiverAVSync(h) \/ Syn!DisableReceiverAVSync(h)
    <2>1. UNCHANGED <<syncCtl, data, registered, streams, sending, given>>
      BY <1>2 DEF Syn!EnableReceiverAVSync, Syn!DisableReceiverAVSync, Syn!listVars
    <2> QED BY <2>1, UntouchedKeeps
  <1> QED BY <1>1, <1>2

LEMMA SyncNext ==
    ASSUME SceneOf \in [Client -> Scene], SyncInv, [Syn!Next]_(Syn!vars)
    PROVE  SyncInv'
  <1>1. ASSUME NEW c \in Client,
               \/ Syn!RegisterCtlCenterCallback(c) \/ Syn!ReleaseAVCenter(c)
               \/ Syn!Add(c) \/ Syn!Remove(c)
        PROVE  SyncInv'
    BY <1>1, RegisterKeepsClock, AddKeepsClock, MergeKeepsClock, RemoveKeepsClock DEF Syn!Add
  <1>2. CASE \E h \in Handler : Syn!EnableReceiverAVSync(h) \/ Syn!DisableReceiverAVSync(h)
                                \/ Syn!GiveReceiverMemory(h)
    BY <1>2, MessageKeepsClock
  <1>3. CASE UNCHANGED Syn!vars
    <2>1. UNCHANGED <<syncCtl, data, registered, streams, sending, given>>
      BY <1>3 DEF Syn!vars
    <2> QED BY <2>1, UntouchedKeeps
  <1> QED BY <1>1, <1>2, <1>3 DEF Syn!Next

LEMMA SyncInit == Syn!Init => SyncInv
  <1> SUFFICES ASSUME Syn!Init PROVE SyncInv
    OBVIOUS
  <1>1. Syn!BagToSet(streams) = {}
    BY DEF Syn!Init, Syn!BagToSet, Syn!EmptyBag, Syn!SetToBag
  <1>2. SyncTypes
    BY <1>1 DEF Syn!Init, SyncTypes
  <1>3. SameClock
    BY DEF Syn!Init, SameClock, Syn!Synchronised
  <1> QED BY <1>2, <1>3 DEF SyncInv

\* The senders of a group have all been handed the same memory, or all been told
\* that there is none, unless a call that is to hand one to them is under way, in
\* every interleaving of the critical sections of AddStreamInfo, RemoveStreamInfo,
\* the messages of peers and the registrations (av_sync_manager.cpp). For any
\* number of engines, peers, streams, memories and message threads.
THEOREM SendersShareClock ==
    SceneOf \in [Client -> Scene] => (Syn!Spec => []Syn!StreamsShareClock)
  <1> SUFFICES ASSUME SceneOf \in [Client -> Scene]
               PROVE  Syn!Spec => []Syn!StreamsShareClock
    OBVIOUS
  <1>1. SyncInv /\ [Syn!Next]_(Syn!vars) => SyncInv'
    BY SyncNext
  <1>2. SyncInv => Syn!StreamsShareClock
    BY MergedIsMergeable DEF SyncInv, SameClock, AllIdle, Syn!StreamsShareClock
  <1> QED BY <1>1, <1>2, SyncInit, PTL DEF Syn!Spec

=============================================================================
