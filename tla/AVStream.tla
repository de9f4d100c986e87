------------------------------ MODULE AVStream ------------------------------
(***************************************************************************)
(* The media path of av_transport: the frames of one stream from the       *)
(* PushData of a source engine, through the DSoftbus plugins of both       *)
(* devices and the softbus between them, to the application of the sink.   *)
(*                                                                         *)
(* Every stage that has a queue is a plugin with a task of its own that    *)
(* takes frames out (FeedChannelData, HandleData); a queue that is full    *)
(* loses its oldest frame. A plugin is a record, an operation of a plugin  *)
(* class a function on such records. The filters call a plugin under a     *)
(* mutex of theirs, so that a plugin is pushed to, started and stopped by  *)
(* one thread at a time, while its task and the softbus run beside it.     *)
(* A video sink is paced by OutputController, which implements LossyFifo   *)
(* (OutputControl.tla); here it is that abstraction. The softbus may lose  *)
(* frames of a stream and does not reorder them; encoders and decoders may *)
(* drop a frame. A frame is its number in the order of PushData and its    *)
(* time stamp, which grows with it.                                        *)
(***************************************************************************)
EXTENDS Naturals, Sequences

CONSTANTS DATA_QUEUE_MAX_SIZE, MAX_CLOCK_UNIT_COUNT,
          MaxFrame,   \* bound on the frames pushed
          MaxWire,    \* bound on the frames in flight
          MaxLives    \* bound on the Prepare calls of all stages

ASSUME StreamAssumption ==
    /\ DATA_QUEUE_MAX_SIZE \in Nat \ {0} /\ MAX_CLOCK_UNIT_COUNT \in Nat \ {0}
    /\ MaxFrame \in Nat /\ MaxWire \in Nat /\ MaxLives \in Nat

VARIABLES kind,     \* "audio" or "video"
          pl,       \* the plugin of each stage
          opened,   \* the source has its channel open
          wire,     \* frames between the devices
          shared,   \* the audio sink has a valid sharedMemory_
          ring,     \* the clock units of the shared memory
          smIndex,  \* smIndex_ of DaudioOutputPlugin
          written,  \* the last frame whose clock was written to the memory
          pushed,   \* the last frame the source engine pushed
          played,   \* the last frame the application of the sink got
          got,      \* how often it got one
          lives     \* Prepare calls so far

vars == <<kind, pl, opened, wire, shared, ring, smIndex, written, pushed, played, got, lives>>
clock == <<shared, ring, smIndex, written>>
chan == <<opened, wire>>
sink == <<played, got>>
ends == <<pushed, sink>>

\* 0 is the null buffer that the audio plugin enqueues for data it cannot read.
Frame == 0 .. MaxFrame
Units == 0 .. MAX_CLOCK_UNIT_COUNT - 1

\* The plugins that have a queue: DsoftbusOutput(Audio)Plugin of the source,
\* DsoftbusInput(Audio)Plugin of the sink, and DaudioOutputPlugin or
\* DscreenOutputPlugin before the application.
Stage == {"src", "snk", "play"}

Plugin == [st : {"none", "CREATED", "INITIALIZED", "PREPARED", "RUNNING"},  \* "none": plugin_ is null
           q : Seq(Frame),                       \* dataQueue_ or outputBuffer_
           wk : {"out", "wait", "hand", "clock"},\* the task: not in its loop, in the wait, with a frame
           hand : Frame,                         \* that frame
           stop : BOOLEAN,                       \* Stop of the filter is waiting for the task
           cb : BOOLEAN]                         \* the callbacks are set

TypeOK ==
    /\ kind \in {"audio", "video"} /\ opened \in BOOLEAN /\ shared \in BOOLEAN
    /\ pl \in [Stage -> Plugin]
    /\ wire \in Seq(Frame)
    /\ ring \in [Units -> Frame] /\ smIndex \in Units /\ written \in Frame
    /\ pushed \in Frame /\ played \in Frame /\ got \in Frame
    /\ lives \in 0 .. MaxLives

NoPlugin == [st |-> "none", q |-> <<>>, wk |-> "out", hand |-> 0, stop |-> FALSE, cb |-> FALSE]
NoClock == [i \in Units |-> 0]

Init ==
    /\ kind \in {"audio", "video"}
    /\ pl = [s \in Stage |-> NoPlugin]
    /\ opened = FALSE /\ wire = <<>>
    /\ shared = FALSE /\ ring = NoClock /\ smIndex = 0 /\ written = 0
    /\ pushed = 0 /\ played = 0 /\ got = 0 /\ lives = 0

-----------------------------------------------------------------------------
(* What the plugin classes share *)

Enqueue(p, f) ==
    [p EXCEPT !.q = Append(IF Len(@) >= DATA_QUEUE_MAX_SIZE
                           THEN SubSeq(@, Len(@) - DATA_QUEUE_MAX_SIZE + 2, Len(@)) ELSE @, f)]

DataQueueClear(p) == [p EXCEPT !.q = <<>>]

\* The handler has returned, so that Task::Stop may.
TaskStopped(p) == p.wk = "out"

\* Deinit of a plugin that does not run: its task, if any, is idle.
Cleared(p) == [DataQueueClear(p) EXCEPT !.st = "INITIALIZED", !.cb = FALSE]

Prepared(p, ok) == IF ok THEN [p EXCEPT !.st = "PREPARED"] ELSE p
Running(p) == [DataQueueClear(p) EXCEPT !.st = "RUNNING"]
Stopping(p) == [p EXCEPT !.st = "PREPARED", !.stop = TRUE]
Returned(p) == [p EXCEPT !.wk = "out", !.hand = 0]

\* The loop of a task: it waits for a frame while the plugin runs, takes the
\* first and leaves the loop when the plugin was stopped. With `ask` the state
\* is asked for again after the wait, so that no frame is taken once stopped.
Loop(p, ask) ==
    LET taken == [p EXCEPT !.wk = "hand", !.hand = Head(p.q), !.q = Tail(@)]
    IN  CASE p.wk = "out" /\ p.st = "RUNNING" -> {[p EXCEPT !.wk = "wait"]}
          [] p.wk = "wait" /\ p.q # <<>> /\ (ask => p.st = "RUNNING") ->
                {IF taken.hand = 0 THEN Returned(taken) ELSE taken}
          [] p.wk = "wait" /\ p.st # "RUNNING" /\ (p.q = <<>> \/ ask) -> {Returned(p)}
          [] OTHER -> {}

-----------------------------------------------------------------------------
(* DsoftbusOutputPlugin and DsoftbusOutputAudioPlugin *)

OutVideoPrepare(p) == Prepared(p, TRUE)
\* Fails when a parameter of the audio format is missing.
OutAudioPrepare(p, found) == Prepared(p, found)

\* OpenSoftbusChannel of Start, which may fail, and CloseSoftbusChannel of Stop.
OutVideoChannel(o) == IF o THEN {FALSE} ELSE BOOLEAN
OutAudioChannel(o) == IF o THEN {FALSE} ELSE BOOLEAN

\* The channel is open.
OutVideoStart(p) == Running(p)
OutAudioStart(p) == Running(p)

\* Stop, up to the wait for bufferPopTask_.
OutVideoStop(p) == Stopping(p)
OutAudioStop(p) == Stopping(p)

OutVideoReset(p) == Cleared(p)
OutAudioReset(p) == Cleared(p)

OutVideoPushData(p, f) == Enqueue(p, f)
OutAudioPushData(p, f) == Enqueue(p, f)

\* Seeded fault: the frame is not taken out of the queue.
OutVideoFeedKept(p) == {[n EXCEPT !.q = p.q] : n \in Loop(p, TRUE)}

\* FeedChannelData.
OutVideoFeed(p) == Loop(p, TRUE)
OutAudioFeed(p) == Loop(p, TRUE)

\* SendDataToSoftbus: a frame that cannot be sent is gone.
OutVideoSend(w, f) == {w, Append(w, f)}
OutAudioSend(w, f) == {w, Append(w, f)}

-----------------------------------------------------------------------------
(* DsoftbusInputPlugin and DsoftbusInputAudioPlugin *)

\* Fails when the listener or the session server is refused.
InVideoPrepare(p, ok) == Prepared(p, ok)
InAudioPrepare(p, ok) == Prepared(p, ok)

InVideoStart(p) == Running(p)
InAudioStart(p) == Running(p)

\* Seeded fault: the state is left as it is.
InVideoStopUnset(p) == [p EXCEPT !.stop = TRUE]

InVideoStop(p) == Stopping(p)
\* The audio plugin clears its queue before the task ends, and not after.
InAudioStop(p) == DataQueueClear(Stopping(p))

InVideoReset(p) == Cleared(p)
InAudioReset(p) == Cleared(p)

\* OnStreamReceived, CreateBuffer and DataEnqueue, in any state of the plugin:
\* data that cannot be read is dropped ...
InVideoReceive(p, f) == IF f = 0 THEN p ELSE Enqueue(p, f)
\* ... or takes a place in the queue as a null buffer.
InAudioReceive(p, f) == Enqueue(p, f)

\* HandleData.
InVideoHandle(p) == Loop(p, FALSE)
InAudioHandle(p) == Loop(p, FALSE)

-----------------------------------------------------------------------------
(* DaudioOutputPlugin, the abstraction of DscreenOutputPlugin, and the clock *)

AudioOutPrepare(p, found) == Prepared(p, found)
AudioOutStart(p) == Running(p)
AudioOutStop(p) == Stopping(p)
AudioOutReset(p) == Cleared(p)
AudioOutPushData(p, f) == Enqueue(p, f)
AudioOutHandle(p) == Loop(p, FALSE)

\* OutputController takes frames only after its start, and gives out some of
\* them in order.
ScreenOutPushData(p, f) == IF p.st = "RUNNING" THEN Enqueue(p, f) ELSE p

\* Seeded fault: a unit is written once and not again.
WriteClockUnitOnce(r, i, f) == IF r[i] = 0 THEN [r EXCEPT ![i] = f] ELSE r

\* WriteClockUnitToMemory: the unit at the index; a frame stands for its pts.
WriteClockUnitToMemory(r, i, f) == [r EXCEPT ![i] = f]

NextIndex(i) == IF i + 1 = MAX_CLOCK_UNIT_COUNT THEN 0 ELSE i + 1

\* ReadClockUnitFromMemory: 0 (ERR_DH_AVT_MASTER_NOT_READY) while the first unit
\* is empty, else the latest time stamp.
ReadClockUnitFromMemory(r) ==
    IF r[0] = 0 THEN 0 ELSE CHOOSE f \in {r[i] : i \in Units} : \A i \in Units : r[i] <= f

-----------------------------------------------------------------------------
(* The filters' calls, for the plugin of each kind and stage *)

Video == kind = "video"

PluginPrepare(s, p, ok) ==
    CASE s = "src" -> IF Video THEN OutVideoPrepare(p) ELSE OutAudioPrepare(p, ok)
      [] s = "snk" -> IF Video THEN InVideoPrepare(p, ok) ELSE InAudioPrepare(p, ok)
      [] s = "play" -> IF Video THEN Prepared(p, TRUE) ELSE AudioOutPrepare(p, ok)

PluginStart(s, p) ==
    CASE s = "src" -> IF Video THEN OutVideoStart(p) ELSE OutAudioStart(p)
      [] s = "snk" -> IF Video THEN InVideoStart(p) ELSE InAudioStart(p)
      [] s = "play" -> IF Video THEN Running(p) ELSE AudioOutStart(p)

PluginStop(s, p) ==
    CASE s = "src" -> IF Video THEN OutVideoStop(p) ELSE OutAudioStop(p)
      [] s = "snk" -> IF Video THEN InVideoStop(p) ELSE InAudioStop(p)
      [] s = "play" -> IF Video THEN Stopping(p) ELSE AudioOutStop(p)

PluginReset(s, p) ==
    CASE s = "src" -> IF Video THEN OutVideoReset(p) ELSE OutAudioReset(p)
      [] s = "snk" -> IF Video THEN InVideoReset(p) ELSE InAudioReset(p)
      [] s = "play" -> IF Video THEN Cleared(p) ELSE AudioOutReset(p)

\* What the reset of an audio output does to its clock.
ClockReset(s) ==
    IF s = "play" THEN shared' = FALSE /\ smIndex' = 0 /\ UNCHANGED <<ring, written>> ELSE UNCHANGED clock

\* CreatePlugin: a plugin that a failed Prepare has left is reset and used again.
OutCreatePlugin(s, p) == IF p.st = "none" THEN [p EXCEPT !.st = "CREATED"] ELSE PluginReset(s, p)
InCreatePlugin(s, p) == IF p.st = "none" THEN [p EXCEPT !.st = "CREATED"] ELSE PluginReset(s, p)

\* FindPlugin: without a MIME no plugin is found and none created. An input filter
\* asks the next one to accept the format too.
OutFindPlugin(s, p, far) == IF far = "find" THEN p ELSE OutCreatePlugin(s, p)
InFindPlugin(s, p, far) == IF far = "find" THEN p ELSE InCreatePlugin(s, p)

\* Init of the plugin; ConfigPlugin gives it its parameters and callbacks.
InitPlugin(p) == [p EXCEPT !.st = "INITIALIZED"]
OutConfigPlugin(p) == [InitPlugin(p) EXCEPT !.cb = TRUE]
InConfigPlugin(p) == [InitPlugin(p) EXCEPT !.cb = TRUE]

\* ConfigMeta and ConfigDownStream: the stream's format is complete, that is it
\* has a MEDIA_TYPE, and the next filter takes it.
ConfigMeta(far) == far \in {"prepare", "done"}

\* DoConfigure of an input filter: without a format the plugin stays as it was
\* created.
DoConfigure(p, far) == IF ConfigMeta(far) THEN InConfigPlugin(p) ELSE p

\* Prepare of each filter goes as far as it says.
OutFilterPrepare(s, far) ==
    LET p == OutFindPlugin(s, pl[s], far)
    IN  IF far = "find" THEN p ELSE PluginPrepare(s, OutConfigPlugin(p), far = "done")
InFilterPrepare(s, far) ==
    LET p == DoConfigure(InFindPlugin(s, pl[s], far), far)
    IN  IF ConfigMeta(far) THEN PluginPrepare(s, p, far = "done") ELSE p

\* In a pipeline that is new or whose last Prepare failed.
FilterPrepare(s, far) ==
    /\ ~pl[s].stop /\ pl[s].st \in {"none", "CREATED", "INITIALIZED"}
    /\ lives < MaxLives /\ lives' = lives + 1
    /\ pl' = [pl EXCEPT ![s] = IF s = "snk" THEN InFilterPrepare(s, far) ELSE OutFilterPrepare(s, far)]
    /\ ClockReset(s) /\ UNCHANGED <<kind, chan, ends>>

\* A source's Start fails, and changes nothing, when its channel does not open.
FilterStart(s) ==
    /\ ~pl[s].stop /\ pl[s].st = "PREPARED"
    /\ pl' = [pl EXCEPT ![s] = PluginStart(s, @)]
    /\ IF s # "src" THEN UNCHANGED opened
       ELSE opened' \in (IF Video THEN OutVideoChannel(opened) ELSE OutAudioChannel(opened)) /\ opened'
    /\ UNCHANGED <<kind, lives, wire, clock, ends>>

\* Stop of the filter: a plugin that runs is stopped, any other is reset.
FilterStop(s) ==
    /\ ~pl[s].stop /\ pl[s].st # "none"
    /\ \/ pl[s].st = "RUNNING" /\ pl' = [pl EXCEPT ![s] = PluginStop(s, @)] /\ UNCHANGED clock
       \/ pl[s].st # "RUNNING" /\ pl' = [pl EXCEPT ![s] = PluginReset(s, @)] /\ ClockReset(s)
    /\ UNCHANGED <<kind, lives, chan, ends>>

\* Seeded fault: the plugin's Stop does not stop its task.
FilterStopEndUnawaited(s) ==
    /\ pl[s].stop
    /\ pl' = [pl EXCEPT ![s] = [PluginReset(s, @) EXCEPT !.st = "none", !.stop = FALSE]]
    /\ IF s # "src" THEN UNCHANGED chan
       ELSE opened' \in (IF Video THEN OutVideoChannel(opened) ELSE OutAudioChannel(opened)) /\ wire' = <<>>
    /\ ClockReset(s) /\ UNCHANGED <<kind, lives, ends>>

\* The task has ended: the plugin's Stop returns, with the channel of a source
\* closed, and the filter resets the plugin and drops it.
FilterStopEnd(s) ==
    /\ pl[s].stop /\ TaskStopped(pl[s])
    /\ pl' = [pl EXCEPT ![s] = [PluginReset(s, @) EXCEPT !.st = "none", !.stop = FALSE]]
    /\ IF s # "src" THEN UNCHANGED chan
       ELSE opened' \in (IF Video THEN OutVideoChannel(opened) ELSE OutAudioChannel(opened)) /\ wire' = <<>>
    /\ ClockReset(s) /\ UNCHANGED <<kind, lives, ends>>

-----------------------------------------------------------------------------
(* The frames *)

\* PushData of DscreenInputPlugin and DaudioInputPlugin in the source's input
\* filter: the frame is numbered, or refused (0) when it has no data or the wrong
\* kind of it.
ScreenInPushData(f) == {0, f}
AudioInPushData(f) == {0, f}

\* PushData of the source engine and AVInputFilter: the frame goes through the
\* input plugin, the encoder passes it on or not, and AVOutputFilter, whose mutex
\* Stop holds, gives it to the plugin if there is one.
PushData ==
    /\ pushed < MaxFrame /\ pushed' = pushed + 1
    /\ \E f \in (IF Video THEN ScreenInPushData(pushed + 1) ELSE AudioInPushData(pushed + 1)) :
          \/ UNCHANGED pl
          \/ /\ f # 0 /\ ~pl["src"].stop /\ pl["src"].st # "none"
             /\ pl' = [pl EXCEPT !["src"] = IF Video THEN OutVideoPushData(@, f)
                                            ELSE OutAudioPushData(@, f)]
    /\ UNCHANGED <<kind, lives, chan, clock, sink>>

\* A step of a task's loop.
Task(s) ==
    /\ \E n \in (CASE s = "src" -> IF Video THEN OutVideoFeed(pl[s]) ELSE OutAudioFeed(pl[s])
                   [] s = "snk" -> IF Video THEN InVideoHandle(pl[s]) ELSE InAudioHandle(pl[s])
                   [] s = "play" -> IF Video THEN {} ELSE AudioOutHandle(pl[s])) :
          pl' = [pl EXCEPT ![s] = n]
    /\ UNCHANGED <<kind, lives, chan, clock, ends>>

SendDataToSoftbus ==
    /\ pl["src"].wk = "hand"
    /\ wire' \in IF Video THEN OutVideoSend(wire, pl["src"].hand) ELSE OutAudioSend(wire, pl["src"].hand)
    /\ Len(wire') <= MaxWire
    /\ pl' = [pl EXCEPT !["src"] = Returned(@)]
    /\ UNCHANGED <<kind, lives, opened, clock, ends>>

\* The softbus delivers a frame, whole or not, to the listener that Prepare
\* registered, or loses it.
OnStreamReceived ==
    /\ wire # <<>> /\ wire' = Tail(wire)
    /\ \/ UNCHANGED pl
       \/ /\ pl["snk"].st \in {"PREPARED", "RUNNING"}
          /\ \E f \in {0, Head(wire)} :
                pl' = [pl EXCEPT !["snk"] = IF Video THEN InVideoReceive(@, f) ELSE InAudioReceive(@, f)]
    /\ UNCHANGED <<kind, lives, opened, clock, ends>>

\* dataCb_ of the sink's input plugin: through the decoder, which may drop the
\* frame, to AVOutputFilter::PushData, which waits while Stop holds its mutex.
OnDataCallback ==
    /\ pl["snk"].wk = "hand" /\ ~pl["play"].stop
    /\ \E pass \in BOOLEAN :
          pl' = [pl EXCEPT
              !["snk"] = Returned(@),
              !["play"] = IF pass /\ @.st # "none"
                          THEN (IF Video THEN ScreenOutPushData(@, pl["snk"].hand)
                                ELSE AudioOutPushData(@, pl["snk"].hand))
                          ELSE @]
    /\ UNCHANGED <<kind, lives, chan, clock, ends>>

\* OutputController as the abstraction that it implements.
ScreenOutput ==
    /\ Video /\ pl["play"].st = "RUNNING"
    /\ \E i \in DOMAIN pl["play"].q :
          /\ played' = pl["play"].q[i] /\ got' = got + 1
          /\ pl' = [pl EXCEPT !["play"].q = SubSeq(@, i + 1, Len(@))]
    /\ UNCHANGED <<kind, lives, chan, clock, pushed>>

\* DaudioOutputPlugin gives the frame to the application ...
AudioOutput ==
    /\ pl["play"].wk = "hand" /\ played' = pl["play"].hand /\ got' = got + 1
    /\ pl' = [pl EXCEPT !["play"].wk = "clock"]
    /\ UNCHANGED <<kind, lives, chan, clock, pushed>>

\* ... and then its time to the shared memory.
WriteMasterClockToMemory ==
    /\ pl["play"].wk = "clock" /\ pl' = [pl EXCEPT !["play"] = Returned(@)]
    /\ \/ ~shared /\ UNCHANGED <<ring, smIndex, written>>
       \/ /\ shared /\ written' = pl["play"].hand
          /\ ring' = WriteClockUnitToMemory(ring, smIndex, pl["play"].hand)
          /\ smIndex' = NextIndex(smIndex)
    /\ UNCHANGED <<kind, lives, chan, shared, ends>>

\* SetParameter with USER_SHARED_MEMORY_FD: the memory that was used before, or
\* a new one, which is zeroed; the index goes on from where it is.
SetSharedMemory(new) ==
    /\ ~Video /\ pl["play"].st # "none" /\ (new \/ ~shared)
    /\ shared' = TRUE
    /\ IF new THEN ring' = NoClock /\ written' = 0 ELSE UNCHANGED <<ring, written>>
    /\ UNCHANGED <<kind, lives, pl, chan, smIndex, ends>>

Work ==
    \/ \E s \in Stage : Task(s) \/ FilterStopEnd(s)
    \/ SendDataToSoftbus \/ OnDataCallback \/ AudioOutput \/ WriteMasterClockToMemory

Next ==
    \/ Work \/ PushData \/ OnStreamReceived \/ ScreenOutput
    \/ \E s \in Stage : FilterStart(s) \/ FilterStop(s)
         \/ \E far \in {"find", "configure", "prepare", "done"} : FilterPrepare(s, far)
    \/ \E new \in BOOLEAN : SetSharedMemory(new)

\* The tasks run, and the thread in a Stop goes on once it may.
Spec ==
    /\ Init /\ [][Next]_vars
    /\ \A s \in Stage : WF_vars(Task(s)) /\ WF_vars(FilterStopEnd(s))
    /\ WF_vars(SendDataToSoftbus) /\ WF_vars(OnDataCallback)
    /\ WF_vars(AudioOutput) /\ WF_vars(WriteMasterClockToMemory)

-----------------------------------------------------------------------------
(* Properties *)

Fifo == INSTANCE LossyFifo WITH in <- pushed, out <- played, got <- got

\* From end to end frames keep their order and none is played twice, with four
\* queues that overflow and are cleared, stages stopped and started in any
\* order, and a frame in the hand of each task.
StreamInOrder == Fifo!Spec

\* A task in its loop still has its plugin, its callbacks and, in the source,
\* its channel: Stop waits for the task before any of them goes.
WorkersEndFirst ==
    /\ \A s \in Stage : pl[s].wk # "out" => pl[s].st # "none" /\ pl[s].cb
    /\ pl["src"].wk # "out" => opened

\* The clock the video reads is that of the last audio frame written, however
\* the ring has wrapped and its index was reset, or not ready.
ClockIsNewest == ReadClockUnitFromMemory(ring) \in {0, written}

\* Stop of a filter returns: its task ends although it may be waiting for
\* frames, or for the mutex of the next filter that is being stopped too.
StopReturns == \A s \in Stage : pl[s].stop ~> ~pl[s].stop

=============================================================================
