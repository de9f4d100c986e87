# Verification of the distributed hardware framework

TLA+ models, model-checking runs and machine-checked proofs for the distributed
hardware framework (`distributed_hardware_fwk`): the system service that notices
when a device joins the network, loads the components that drive its hardware,
registers each piece of remote hardware locally, and undoes all of it when the
device leaves; and for `av_transport`, the library that moves the audio and
video of that hardware between two devices.

- [1 The system](#1-the-system)
- [2 Modules](#2-modules)
- [3 Runs](#3-runs)
- [4 Proofs](#4-proofs)
- [5 What the code does not keep](#5-what-the-code-does-not-keep)
- [6 What is not modelled](#6-what-is-not-modelled)
- [7 Plan](#7-plan)

Paths below are relative to `src/services/distributedhardwarefwkservice/` unless
they start with `src/` or with `av_transport/` (which is
`src/av_transport/`).

## 1 The system

### 1.1 Parts, their state and their operations

| part | state | operations | threads |
|---|---|---|---|
| `AccessManager` (`src/accessmanager`) | `accessMutex_` | `OnDeviceReady`, `OnDeviceOffline`, `CheckTrustedDeviceOnline`, `OnDeviceTrustChange`, `OnRemoteDied` | device manager callbacks (serialised by the mutex), start-up thread (takes no mutex) |
| `DistributedHardwareManagerFactory` | `isInit_`, `flagUnInit_` (atomics) | `SendOnLineEvent`, `SendOffLineEvent`, `Init`, `UnInit`, `CheckExitSAOrNot` | the caller's |
| `DistributedHardwareManager` | `isAllInit_`, `isLocalInit_`, `dhInitMgrMutex_` | `LocalInit`, `Initialize`, `Release` | the caller's; `Release` takes no mutex |
| `DHContext` (`src/utils/dh_context.cpp`) | `devIdEntrySet_` (entries of online devices), `realTimeOnLineNetworkIdSet_`, `connectedDevIds_`, common event handler | add, remove, lookup, counts | all |
| `TaskBoard`, `TaskExecutor`, `TaskFactory` (`src/task`) | `tasks_`, `enabledDevices_`; `taskQueue_` (maximum length 256) | `AddTask`, `RemoveTask`, `IsAllTaskFinish`; `PushTask`, `TriggerTask`; `CreateTask` | `TriggerTask` thread, handler thread |
| the task classes (`src/task`) | `fatherTask_`, `unFinishChildrenTasks_` | `DoTask`, `DoTaskInner` | `OnLineTask` on the handler thread, all others on ffrt |
| `DBAdapter` (`src/resourcemanager`) | the store handle, listener, retry counter | open, close, reopen after the kv service died, read, write | managers, `DHContext` handler, kv service |
| `CapabilityInfoManager`, `MetaInfoManager`, `VersionInfoManager`, `LocalCapabilityInfoManager` | the records in memory | load, change handlers, removal, recovery, writes | kv service, own event handlers, tasks |
| `LocalHardwareManager`, `PluginListenerImpl` | plug listeners | query and publish local hardware, plug and unplug events | start-up thread, component callbacks |
| `ComponentLoader`, `ComponentManager` (`src/componentloader`, `src/componentmanager`) | libraries, `compSource_`, `compSink_`, `dhBizStates_`, `needRefreshTaskParams_`, listeners | `Init`, `UnInit`, `Enable`, `Disable`, `UpdateBusinessState`, `TriggerFullCapsSync`, `Recover` | tasks, one thread per start or stop, component callbacks, event handler |
| `ComponentMonitor`, `ComponentPrivacy` | listeners of processes; page flags and events | subscribe, `OnRemoveSystemAbility`; start and stop of the page | service manager, privacy handler |
| `ComponentEnable`, `ComponentDisable` | `status_`, `conVar_` | `Enable` / `Disable` and the result callback | task thread against the component's callback thread |
| `DHCommTool`, `DHTransport` (`src/transport`) | `remoteDevSocketIds_`, `isSocketSvrCreateFlag_` | `TriggerReqFullDHCaps`, `GetAndSendLocalFullCaps`, `ProcessFullCapsRsp`, `OnBind`, `OnShutdown`, `OnBytesReceived`, `Send`, `StopSocket`, `Init`, `UnInit` | softbus callbacks, two event handlers |
| `Publisher`, `LowLatency` | listeners of a topic; switched-on types and a timer | register, unregister, publish; enable, disable, close | IPC threads, timer thread |
| inner kit (`src/interfaces/inner_kits`) | the proxy of the service, cached listeners | register, unregister, publish; restore after a restart | client threads, service manager |
| control center (`av_transport/av_trans_control_center`) | engine ids, callbacks, connected devices, streams, shared memory | `InitializeAVCenter`, `ReleaseAVCenter`, `CreateControlChannel`, `NotifyAVCenter`, events | IPC threads, event threads |
| engines (`av_transport/av_trans_engine`) | engine state, pipeline | `Initialize` to `Release`, `PushData`, `SendMessage`, events | control thread, data thread, event threads |
| `SoftbusChannelAdapter` (`av_transport/common`) | servers, sessions, listeners | create, open, close, register, send | callers, softbus, a detached thread per event |
| plugins and filters | a queue and a task per plugin | prepare, start, push, stop | filter threads, plugin tasks, softbus |
| `OutputController` | frame queue, mode, clocks | start, push, stop, release | caller, control thread, handler thread |
| dump, IPC parcels, JS binding, settings application, ability querier | none of their own | conversions | clients |

### 1.2 How they interact

*A device joins.* `AccessManager::OnDeviceReady` calls `SendOnLineEvent`. This
refuses the event while `flagUnInit_` is set or the device still has an entry;
otherwise it adds the entry and the real-time id, initialises the framework if
need be and pushes an `ON_LINE` task. The executor's thread moves the task to
the event handler of `DHContext`, whose thread runs it: synchronise the meta
information, list the capabilities in the cache (or the meta information if
there is none), and create one `ENABLE` task for each plus a `META_ENABLE`
task. Each `ENABLE` task calls `ComponentManager::Enable` on a worker of ffrt.

*A device leaves.* `OnDeviceOffline` calls `SendOffLineEvent`: it removes the
real-time id, sets `flagUnInit_` if no device is left, and pushes an `OFF_LINE`
task. The task creates one `DISABLE` child per hardware and a `META_DISABLE`
child, waits without a timeout until all have notified it, removes the entry,
clears the cache and takes itself off the board. If then nobody is online and the
board is empty, its thread releases the whole framework and, unless the trusted
list names a device again, ends the service.

*Capabilities.* The databases report each record that a peer adds, updates or
deletes; the handlers change the cache and push `ENABLE` or `DISABLE` tasks.
Between two devices without such a database, `DHCommTool` asks the peer for all
capabilities over a softbus socket, saves the answer, and enables each hardware
again: at once, or after its next `IDLE` report if it is in use.

*Records.* Four stores of the distributed kv service hold versions, capabilities,
meta information and local capabilities. The managers keep a copy in memory, fed
by loads, by notifications and by the reload after the kv service has died and
its stores were opened again on the `DHContext` handler. `LocalHardwareManager`
writes this device's records at start-up and at plug events.

*Components.* `ComponentManager::Init` opens libraries, starts the source and
the sink of each type on threads of their own and waits two seconds for each. A
component's process that dies is recovered on an ffrt thread. `UnInit` takes
everything back, or ends the process if a component does not stop in time.

*Topics.* A client registers listeners through the kit, which caches them and
registers them again when the service has restarted. A component publishes that
it wants low latency; the framework's own listener starts a timer that asks the
softbus for it again and again.

*Media.* A sender engine opens a channel to its peer, tells the control center of
its stream and pushes frames. They go through the queues of two plugins, the
softbus, and on the other side of two more; the last one paces video by
`OutputController`, which reads the audio clock from shared memory that the
control center has handed to all engines of the group.

### 1.3 What is hard

No common lock protects `isInit_`, `isAllInit_`, `flagUnInit_`, the two records
of who is online, the board and the maps of capabilities, which several kinds of
threads use at once. The conditions of the release are read one by one while
others write them. Tasks run through a raw `this` that only the board keeps
alive. A father waits for its children without a timeout, and an `OnLineTask`
occupies the only handler thread. Requests to a component may be refused, fail,
get lost, or be answered after their timeout. Components start, stop, die and are
recovered on threads that outlive the waits for them. Both ends of a capability
exchange may open a socket at the same moment. Stores vanish with the kv
service while notifications of it are still on their way. The service itself may
die under its clients. Every channel event of `av_transport` comes on a
detached thread of its own, so that events overtake each other and the calls of
the owner, and frames sit in the hands of tasks while queues are cleared.
`PROJECT.json` lists these under `hazards`, each at the line where it bites, with
the property that covers it or the reason why none does.

### 1.4 What makes each part correct

What each part would have to keep. Section 3 says which of it is checked, section 5
which of it the code does not keep.

- *Tasks*: a task is on the board exactly while it waits or runs; no `DoTask`
  runs twice on one object; a father past its wait has no unfinished child;
  every task ends.
- *Life cycle*: a device that is let in is counted, until it is on its way out;
  nothing of a device that has left stays cached; the framework is released only
  after the last device, and its flags and components agree when it is idle (both
  in section 5).
- *Component calls*: every call returns; a call that reports success has had
  the effect it reports.
- *Component life*: initialisation and release return or end the process;
  release leaves nothing running or watched; a process that died is started again.
- *Capability exchange*: no answer comes without a request; an answer refreshes
  each hardware at most once; a request is answered, a connection is closed
  afterwards and a hardware refreshed with a capability that was saved (all three
  in section 5).
- *Records*: what is in memory of an online peer is what the store has; the own
  records describe the hardware there is; a recovery ends.
- *Topics*: cached listeners are registered with the service that runs; low
  latency is asked for while somebody wants it and only then.
- *Media*: an engine that runs has its pipeline; an opened channel is reported to
  the engine that opened it; the control center forgets an engine with its release;
  a group shares one clock; frames arrive in order, none twice; tasks end before
  what they use; stopping returns. That a release spares the other engines of a
  device is in section 5.

## 2 Modules

| module | models | kind |
|---|---|---|
| `TaskFlow` | board, executor, factory, the six task classes, under an open environment | component; abstract specification for `DHFwk` |
| `DHFwk` | `TaskFlow` composed with the access manager, factory, manager, database handlers | composition |
| `CompOps` | `ComponentManager::Enable` and `Disable` against a component | component |
| `CompLife` | component loader, start, stop and recovery of components, monitor, privacy pages | component |
| `CapsSync` | `DHTransport` and `DHCommTool` of several devices, business states | component |
| `ResourceDB` | `DBAdapter`, the four managers of records, local hardware | component |
| `PubSub` | inner kit, publisher, low latency, timer | component |
| `SoftbusChannel` | `SoftbusChannelAdapter` as operations on one record | component |
| `AVEngine` | sender and receiver engines and providers, over `SoftbusChannel` | composition |
| `AVCenter` | control center: ids, callbacks, shared channels, over `SoftbusChannel` | composition |
| `AVSync` | sync manager of the control center: streams and shared memories | component |
| `LossyFifo` | what a stage of the media path promises | abstract specification |
| `OutputControl` | output controller with the plugin and filter that own it; implements `LossyFifo` | component |
| `AVStream` | the media path through four plugins; implements `LossyFifo` end to end | composition |
| `DHFwkProofs`, `CompLifeProofs`, `CapsSyncProofs`, `ResourceDBProofs`, `PubSubProofs`, `AVEngineProofs`, `OutputControlProofs`, `AVStreamProofs` | theorems about the module each is named after; `DHFwkProofs` also about `TaskFlow`, `CompLifeProofs` about `CompOps`, `AVEngineProofs` about `AVCenter` and `AVSync` | proofs |
| `MCDHFwk`, `MCCapsSync`, `MCAVEngine`, `MCAVCenter`, `MCAVSync` | constants and symmetry for the runs | model checking |

The table under `map` in `PROJECT.json` gives the lines of the source for each
definition. Definitions whose comment says "Seeded fault" are wrong variants of
the definition that follows; no specification uses them. Each stands for a
plausible mistake in the code and is listed under `mutants` with the property
that fails when it takes the place of the right definition.

**Granularity.** One critical section, or one load or store of an atomic, is one
step; a call that lets go of its mutex and takes it, or another one, again is
several. Everything a thread does between two such points is one step too. The
exceptions are named below: an operation of `SoftbusChannelAdapter` that an engine
calls is part of the engine's step, and so is what a call does only to variables
that no other thread uses. Log output, event reports and validity checks of
arguments that callers in this repository never fail are left out.

### 2.1 TaskFlow

Each `Task` object is a slot of `TaskId`; `pc` says which step of `DoTask` or
`DoTaskInner` comes next. `father` and `unFinish` are the two ends of the
relation between an `OffLineTask` and its children, `todo` the rest of the loop
that creates them. `PushTask`, `TriggerTask` and `DoTask` move a task from
`taskQueue_` to the event handler to a running state. The comparison of
`PushTask` is the code's (`size() > MAX`), so a queue of maximum 0 still takes
one task and drops the second.

The step after `RemoveTask` in `OffLineTask::DoTaskInner` has a state of its own,
`"exit"`: the object is off the board, yet its thread still executes the tail
that decides about the release. What happens in the tail is `DHFwk`'s.

The environment (`FlowEnvironment`) may create root tasks, change the cache, mark
devices online and load or stop the components whenever it likes. This is
weaker than anything the service does, so what holds of `TaskFlow` holds
whatever surrounds the tasks. The one thing it may not do is take the slots that
fathers need for their children (`Reserved`, `Room`): slots are a bound of the
model and not of the code, and a father must not wait for one. The bound holds
back a second father until enough children of the first have ended.

A component call is one step here (`CompOps` opens it). A registration that
completes after its `Enable` has timed out is therefore not in this module; it
is in `CompOps`.

### 2.2 DHFwk

Extends `TaskFlow` and replaces its environment by the code:
`CheckUnInitFlag` to `PushDeviceTask` are the steps of `SendOnLineEvent`;
`off_init` to `off_push` those of `SendOffLineEvent`; `tail` holds the step of
an `OffLineTask` after `RemoveTask` (three conditions, `Factory::UnInit` store
by store, `CheckExitSAOrNot` with its reinitialisation and its detached thread).
`Sender` is the set of threads that may send an event: the device manager's
callback thread, the start-up thread that goes through the trusted list without
the mutex, and one detached thread per device.

A handler of a database change is two steps, reading `flagUnInit_` and the rest
under the mutex of its manager, because `ClearOffLineInfo` takes that mutex.
External to `src/`: the trusted list and its callbacks, delivered in order, the
topic of heterogeneous devices, and the records of the databases.

Devices join and leave, and databases change, at any moment: during the start-up,
while the service is still busy with the change before, in the middle of a release.
`MaxEvents` bounds how often the outside world changes.

### 2.3 CompOps

One hardware, several calls. A call looks its parameters up (`GetEnableParam`,
up to three more rounds in `RetryGetEnableParam`, which returns success when the
rounds are used up, as in the code), checks the resource, sends a request and
waits. `status` is `status_` of the object that all tries of the call share;
`own` is a history variable that records whether the callback of the latest try
has come, `overlapped` which calls ran beside another. The loop of `Enable` goes
on while the device is online, that of `Disable` while it is offline, and both
return the error of the first try.

The component is external: it refuses a request at once, or accepts it and then
serves, fails or forgets it at any later time. With `InOrder` it serves the
requests in the order in which it accepted them, as the components do that run
their requests on one event handler.

### 2.4 CapsSync

Several nodes and connections of the softbus. `trigPc` follows
`TriggerReqFullDHCaps` (lookup, open, record, send), `handPc` the two handlers
of messages. `StopSocket` is three steps, as in the code: look the socket up,
shut it down, erase the peer's entry. `SoftbusCallback` delivers `BIND`, messages
and `SHUTDOWN` of one connection in order; different connections are not ordered.
`UnInit` may happen at any moment. `Init_` (the code's `Init`) replaces the
transport object and the event handler and is taken between two calls of the
node's threads; an object replaced under its caller is a data race on the
pointer that the model does not follow.

What may fail does: the lookup of a peer, a bind, the sending of a request
(`SendReqFail`) or of an answer (`SendRspFail`) on an open socket, and the saving of
an answer, since `LocalCapabilityInfoManager::AddCapability` may return without it and
`ParseAndSaveRemoteDHCaps` goes on. An answer may be empty, as that of a device that
has nothing to report; it ends before the socket is closed.

`asked`, `answers`, `pushes` and `unsent` (the devices that failed to send an answer)
are history variables. Compression, JSON and the 4 MB limit of a message are left out:
a message is its code, its sender and the set of hardware it names.

### 2.5 CompLife

`pc` is the thread in `Initialize` or `Release`: load the libraries
(`LoaderInit`), subscribe the monitors, start the components, wait for each
(`WaitForResult`), and the way back. `calls` are the detached threads in
`InitSource`, `InitSink`, `ReleaseSource` and `ReleaseSink`; they may return late
or never, and a wait that times out in `UnInit` sets `isUnInitTimeOut`, which ends
the process (`ProcessEnds`). `recovers` are the ffrt tasks of `DoRecover`.
`OnRemoveSystemAbility` looks the name of the process up and does nothing for a
type that is not in `NamedType`, the content of `saIdProcessNameMap_`.
`pageEvents` is the queue of the privacy handler, with the delayed stop in it. A page
may fail to open or to close, in `StopPrivacePage` and in the `StopPrivacy` of a
release; its flag is set or cleared all the same, as in the code, and without a client
of the ability manager nothing happens at all.
`excused` is a history variable: it remembers that a failure (an unsubscription
refused, a release that failed, a start that outlived its wait, a recovery) is why a
part or a watch may be left, so that the properties speak of all other cases.

### 2.6 ResourceDB

Four stores, `db` in the kv service and `cache` in the managers; a record is its
version, 0 is none. An adapter is absent, open, null (its pointer dropped) or
stale (the service died under it). `notes` are the notifications on their way,
in order per store. `ReInitTask` is the body of the task on the `DHContext`
handler that repeats `ReInit` up to `DIED_CHECK_MAX_TIMES`; `ServiceDies` and
`ServiceRestarts` are the kv service. `missed` is a history variable: the last
change of that record reached no manager, because the peer was offline, no
listener was registered or the hardware was enabled. `plugged` is the hardware
there is; `unclean` says that the query came back empty or an event was dropped.

### 2.7 PubSub

One topic. `Listener` and `Publisher` are threads of a client with the kit;
`notices` are the service manager's messages that the service was added or
removed, delivered in order on one thread, which then restores the listeners one
at a time. `items` counts the registrations of each listener in the service,
because each registration brings a new proxy. `lock` is `PublisherItem::mutex_`,
held through the synchronous `OnMessage`. `handler`, `tasks`, `exec` and `joining`
are the timer: its event handler, posted tasks, a task being executed, and a
`ReleaseTimer` that joins the thread with the mutex held.

### 2.8 SoftbusChannel, AVEngine, AVCenter, AVSync

The adapter is a singleton with one mutex per map. Its state is one record `ch`,
and an operation is a function on it, so that a handler of an engine or of the
center changes it in the same action as its own state. `OpenSoftbusChannel` is two,
before and after `Bind`. Events are a bag of threads: each looks its listener up, lets
go of the lock, calls it, and may be in the middle of the call (`at`).

`AVEngine` gives each engine a control thread (`pc`), a data thread (`push`), and
the event threads. `Start`, `Stop`, `Release` and `PreparePipeline` are two steps
each, the pipeline's call and the store of the state. A buffer may come, and may end,
in the middle of any of them; the code takes no lock there. `crossed` is a history
variable: a buffer was on its way when the last `Stop` or `Release` ended.
Engines of one owner share their session name and, with the same peer, the key of
their listener: the one that registered last hears the events, and the one that is
released first takes the listener away. `awaiting` is a history variable with the peers
whose `OPENED` an engine was promised while it was their listener. The pipeline is
external: none, linked, prepared, running, paused or stopped, and a call of it may
fail. That the owner makes the calls of one engine, `PushData` apart, one after the
other is assumed; two of them at once would be a data race on `pipeline_`.

`AVCenter` has clients in other processes. `ctl` says where the calls of each stand:
`InitializeAVCenter` loads `rootEngineId_` and increments it in two steps, so that two
clients may be given one id; `CreateControlChannel` looks at `connectedDevIds_`, opens
and enters the engine in sections of their own; `ReleaseAVCenter` drops the callback,
the entry, the device and then the channel and the listeners one after the other.

`AVSync` has two threads for each client, that of `PushData` (`data`), which adds the
stream, and that of `Stop` and `Release` (`ctl`), and threads for messages of peers.
`AddStreamInfo` lists the stream, reads the list again to merge it, creates a memory
and hands it out, four steps; `RemoveStreamInfo` unlists, looks again, closes and
hands out none, four steps as well; nothing guards the memory in between. `given` is
what an engine was last given, `LOST` if the call did not reach it. A callback may not
be registered because of a shared id, or be dropped by the release of the other engine:
what `AVCenter` shows of ids is an input here.

### 2.9 OutputControl, AVStream, LossyFifo

`LossyFifo` numbers frames as they are offered and lets them come out in that
order, each at most once, with any losses. `OutputControl` has the caller
(`caller`), the control thread (`pc`) that takes the front frame, waits and posts
it and only then removes it from the queue, and the handler thread (`looper`,
`posted`). No duration is modelled: any timed wait may end at any time, so the
averages that compute delays cannot matter to the properties. Two data races (the
control thread takes the front of a queue that `StopControl` has cleared without the mutex;
a frame is delivered to a callback that `Reset` has dropped) end in `fault`, and a model
in `fault` stops. The removal of a handled frame (`PopHandled`) and the clearing of the
queue by `StopControl` are each atomic.

`AVStream` composes four stages, each a plugin record with a queue, a task and a
life cycle, with the filters that own them, the softbus (which may lose frames of
a stream and keeps their order) and the ring of clock units in shared memory. The
pacing stage is taken as `LossyFifo`, which `OutputControl` is proved to implement.

## 3 Runs

Most runs end within two minutes with two workers, `av_engine` within four. No system here has to go
on for ever, so all runs allow the model to stop (`CHECK_DEADLOCK FALSE`); that
nothing stops too early is what the liveness properties are for.

| run | checks | bounds | shows |
|---|---|---|---|
| `fwk_overlap` | `CacheOfOnlineDevices`, `EntryIsCounted`, `TasksBehave` | 1 device with 1 hardware, a heterogeneous device, 2 changes at any moment, 4 tasks alive, a queue that overflows | every step of the service is one of `TaskFlow` or leaves the tasks alone; no capability of an offline device stays cached; a device with its entry that is not counted is on its way in or out |
| `fwk_live` | `FwkTypeOK`, `BoardKeepsTasksAlive`, `FatherWaitsForChildren`, `OneOnLineTaskRuns`, `QueuedOnce`, `EveryTaskFinishes` | 1 device, 1 change at any moment, also during the start-up, failing components, 5 tasks alive | the tasks are safe and every one ends |
| `compops` | `SuccessAgrees`, `EveryCallReturns` | 2 calls that may overlap, 1 retry of `Enable`, 2 of `Disable` | calls return whatever the component does, and a success reported without another call beside it is true when the component has caught up |
| `comp_life` | `OffMeansReleased`, `MonitorsRemoved`, `InitAndUnInitReturn`, `DeathIsRecovered` | 1 type with source, sink and privacy page, 2 failures, 2 lives | release leaves nothing behind but what a failure left, waits are bounded, a dead process is started again |
| `caps` | `RefreshOnce`, `AnsweredOnRequest` | 2 nodes that ask each other, 2 requests, 2 connections, 2 state reports or restarts, failing softbus | an answer refreshes a hardware at most once; no more answers than requests, whichever sockets the two have opened to each other and forgotten |
| `resource_db` | `CacheAgrees`, `OwnRecordsReal`, `RecoveryEnds` | 1 record of a peer with 2 versions, 2 own hardware, 2 outside events, 2 turns of a recovery, 1 life | memory and store agree once notifications are in; own records are real; a recovery ends |
| `pubsub` | `ListenersRestored`, `LatencyFollowsSwitch` | 2 listeners, 1 publisher, 2 types, 1 place in the topic, 4 calls, 2 service processes | listeners survive a restart; the timer follows the switch |
| `av_engine` | `RunningNeedsPipeline`, `OpenedIsUnderWay` | 2 engines of one owner and peer, of either role, one of which streams, 2 sockets, 2 event threads | state and pipeline agree but for a buffer that a `Stop` or a `Release` crossed; the `OPENED` an engine was promised is on its way to it while it is the listener |
| `av_center` | `MapsHoldEngines` | 2 engines on one device, 3 sockets, 1 event thread, 3 ids | callbacks and entries are those of engines in use, although ids may be shared |
| `av_sync` | `StreamsShareClock` | screen and speaker, 1 handler of messages, 3 streams, 2 memories | the senders of a group hold the same memory, or none, unless a stream is being added |
| `av_output` | `NoThreadLeft`, `OutputsInOrder`, `FramesMoveOn` | queue of 1+1, 4 frames, 2 plugins | the controller implements `LossyFifo`, frames move on, threads end first |
| `av_stream` | `WorkersEndFirst`, `ClockIsNewest`, `StreamInOrder`, `StopReturns` | queues of 1, ring of 2, 3 frames, 1 in flight, 4 lives of stages | the whole path implements `LossyFifo`, tasks end before what they use, the clock read is the newest, stopping returns |

**Why the bounds are enough.** The hazards of the tasks need one father, its
children and a queue that overflows; the proofs lift these bounds. Those of the
life cycle need a second event during an `OffLineTask`; two changes give that, and
four slots let the second father start while the first is in its tail, five let a
child of the first be alive then too. With these bounds TLC also finds every
counterexample of section 5 about the life cycle. Two calls with one retry show a
late answer of one call meeting the next; more retries change the number of rounds,
not what a round does. Two lives of the components let a thread of the first meet the
second. Two nodes are all a capability exchange has; two requests and two connections
let both open a socket to the other at once, or the asker a new one while the old one is
being closed. Two versions distinguish a late notification from a new one, and two
turns a recovery that gives up from one that goes on. Two service processes are one
restart; one place in the topic makes the second listener meet the limit. Two engines
on one key take the listener from each other and close each other's session, and two
in the control center race for an id, for the channel and for its release. Two streams
are the smallest group; a third place in the list lets a stream be added again before
its removal. A queue of one and three or four frames overflow, keep a frame in a
task's hand while the queue is cleared, and still leave one to arrive afterwards; the
ring of two wraps.

**Beyond the bounds.** The invariants of `fwk_overlap` also pass with two changes of
devices and one of a database (4.4 million states), and those of `comp_life` with a
second type that is not in `saIdProcessNameMap_`, one failure and one life. Both take
close to five minutes and are no runs of the project. No property of a run is known to
fail beyond its bounds; all safety properties but `AnsweredOnRequest` are proved.

**Symmetry.** `caps` permutes nodes and connections: both nodes ask, and no definition
distinguishes the members. No other run uses symmetry.

**Fairness.** Weak fairness per thread, and of threads only.

- `DHFwk`: the `TriggerTask` thread, the handler thread, the worker of each task,
  the senders of events, and the threads on which device manager and databases
  call back. The operating system and ffrt schedule threads that can run; the one
  lock held over several steps is `dhInitMgrMutex_`, and its holder is a fair thread
  that waits for nobody.
- `CompOps`: a wait times out, because `wait_for` does; the component may never
  answer. `CompLife`: the thread in `Init` or `UnInit`, whose waits are bounded by
  `wait_for`, and the recovery threads; a call of a component need not return.
- `ResourceDB`: the `DHContext` handler. The kv service need not come back.
- `OutputControl`: control thread, handler thread, and the thread that is stopping.
  `AVStream`: the tasks of plugins, the senders and the threads in a `Stop`.

Nothing is assumed of devices, databases, peers, frames or business states. Of the
users of the media engines it is assumed that the control calls of one engine come one after the
other; buffers come whenever they like, in the middle of a `Stop` or a `Release` too.

## 4 Proofs

Checked by TLAPS for all values of the constants that satisfy the named
assumptions: any devices, hardware, tasks, nodes, frames and bounds.

**`DHFwkProofs`, the tasks**, from `TaskFlowAssumption` (the null values are no members,
the maximum length is a natural number): `FlowInvariant`
(`FlowSpec => []FlowInv`), and from it `FlowTypes` (`TypeOK`), `BoardIsRight`
(`BoardKeepsTasksAlive`), `OffLineTaskWaits` (`FatherWaitsForChildren`),
`TasksRunOnce` (`QueuedOnce`), `OnLineTasksAlternate` (`OneOnLineTaskRuns`).

`FlowInv` is the conjunction of these with two facts that are needed for the
induction: `SlotsUsed` (a slot has parameters exactly while it is in use) and
`ChildrenUnfinished` (a task whose father waits for it is a `DISABLE` or
`META_DISABLE` task before its notification). Without the second a child could
go past `NotifyFatherFinish` and stay in its father's set; without `QueuedOnce` a
task could be run a second time from the queue, notify a second time and leave the
board while its first run still goes on. The proof has a lemma for each shape of
step (a task moves on, notifies, is created, ends, moves through a queue), and
each action is shown to have one of these shapes.

**`DHFwkProofs`, the service**, from both assumptions of `DHFwk`: `ServiceRefinesTasks`
(`Spec => TasksBehave`), `ServiceTypes` (`FwkTypeOK`), and, by the refinement,
`ServiceBoardIsRight` and `ServiceOffLineWaits`: what is proved of the open task
subsystem holds of the closed service, whatever its environment does and when. The
invariant `FwkInv` is `FwkTypeOK`, `FlowInv` and `SendersKnowDevice`: `TaskFlow`
lets tasks be created for members of `Device` only, so a thread that is sending
must be known to hold one, and with it the callbacks, the start-up list and the
lists of `CheckExitSAOrNot`. Each action is shown to be a step of `FlowNext` or to
leave `flowVars` alone (`StepIsRight`); `FlowStepKeeps` does the rest.

**`DHFwkProofs`, the cache**: `CacheIsOfOnlineDevices`
(`CacheOfOnlineDevices`). The handler of a change may have read `flagUnInit_` long
before it writes the cache. What saves the cache is that an `OffLineTask` takes the
device's entry away before it clears the cache, and that the handler looks for the
entry with the mutex that the clearing needs. `CacheInv` says that a cached capability
belongs to a device that has its entry, or to one whose `OffLineTask` is about to
clear it; and that an `OffLineTask` is always at one of its own steps.

**`DHFwkProofs`, the count**: `EntriesAreCounted` (`EntryIsCounted`), for any devices
and any changes at any moment. `SendOnLineEvent` gives a device its entry and counts it
in two steps, and `SendOffLineEvent` takes it out of the count long before the
`OffLineTask` removes the entry; meanwhile other events of the device may be served. The
property is inductive together with `FwkInv` and `CacheInv`: a sender between the
two writes stands for its device, then the `OffLineTask` it pushes does, and this one ceases to in
the very step that takes the entry away. The converse, that every counted
device has its entry, does not hold: see `CountsAgree` in section 5.

**`CapsSyncProofs`**, from `CapsSyncAssumption`: `RefreshedOnce` (`RefreshOnce`) and
`RefreshCounted` (`RefreshBudget`).

`RefreshOnce` counts what has been pushed and what is saved for later. It is not
inductive: an answer in the handler's hands will still push or save. `Pending`
says what it still owes, and `RefreshBudget` counts it too: an answer raises both
sides by one when it is taken up, each push or save moves one unit from `Pending`
to `pushes` or `needRefresh`, and an idle report moves one from `needRefresh` to
`pushes`.

**`CapsSyncProofs`, requests**: `QuietPeersAnswer`. Two devices that ask each other may
both stay without an answer (section 5). What the code does keep, for any number of
devices, requests and failures: a device that asks no one, and has not failed to send an
answer, has answered everyone who sent it a request once all has come to rest, unless a
transport was restarted. `AnsweredInv` has two parts.
`Wired` says that the sockets, notices, messages and the work in hand of a device are
about connections with that very peer, and that only requests of askers are there. `First(a, p)`
holds of an asker and a peer that asks nobody until the peer's first answer has come:
they have one connection at most (`OneSocket`) and nothing else between them
(`NothingElse`), the peer records its end before it can see the request (`PeerKnows`,
by the order of callbacks of one connection), the asker keeps its entry
(`AskerKnows`), the peer answers on that connection (`PeerAnswers`), and the request
or the answer is somewhere on its way (`RequestIsThere`). At rest there is no way for
it to be on, so the answer has come. `First` ends with the first answer, because from
then on the asker closes sockets and opens others: a request that is sent while the
handler is in the three steps of `StopSocket` goes out on a socket about to be closed,
and is lost.

**`PubSubProofs`**, from `PubSubAssumption`: `LatencyIsRight`
(`LatencyFollowsSwitch`) and `RestoredAtRest` (`ListenersRestored`). The first
property says nothing while a message is being published; `LatencyInv` adds what
holds then: a join of the timer's thread is part of a message, nothing is posted,
nobody wants low latency, and a thread already in `Execute` waits for the mutex that
the join holds. The second speaks of a client at rest; `RestoreInv` says what leads
there. The last notice a client has not heard tells whether a service process runs,
and a client that still has the proxy of a process that is gone has a "remove" to
hear (`News`); once all is heard, every listener it keeps is registered, about to be
restored or about to be removed (`Registered`).

**`CompLifeProofs`**, from no assumption: `LifeInvariant`, and from it
`ReleasedWhenOff` (`OffMeansReleased`) and `WatchesEnd` (`MonitorsRemoved`). The properties speak of the manager when it is off.
`LifeInv` says at each of its places what still has a reason to be there: a part runs
because it was started and not yet stopped, or because its release is under way and
`UnInit` waits for it; a start nobody waits for, and a call by a recovery, are
excused; a watch is kept for a loaded source until `UnInitSAMonitor`.

**`CompLifeProofs`, calls**, an instance `Ops` of `CompOps` (the two modules use the
same names, so one cannot extend both): `SuccessIsTrue`
(`InOrder => (Ops!Spec => []Ops!SuccessAgrees)`). With a component that serves out of
order an old request can undo what a later call has done, so the hypothesis is needed.
`OpsInv` says of a call that has had no other beside it that its requests are the end
of the component's queue (`OwnRequestsLast`), and that once one of them was answered
with success only requests of its own are left and the hardware is as it asked for
(`AnswerIsOwn`). A call keeps nothing but errors until it returns (`KeepsErrors`), so
that its success is that answer. What is left in the queue afterwards asks for the
same once more, because all tries of a call have its operation (`LeftoversAgree`).

**`ResourceDBProofs`**, from `DBAssumption`: `RecordInvariant`, `CacheFollowsStore`
(`CacheAgrees`), `StoreDescribesHardware` (`OwnRecordsReal`). `CacheAgrees` speaks of
a record without a notification on its way. Until that is delivered `NotesCurrent`
holds: the last one of a record tells what the store holds of it, unless the store
holds nothing. This needs `NotesObserved`: a store nobody observes has no
notifications pending, so that a change made unobserved cannot hide behind an older
one. Steps that leave notifications alone are of one shape (`Quiet`): a record of a
peer only disappears from a store, and memory stays, becomes what the store holds, or
is missed. The proof also shows that `CacheAgrees` does not depend on the peer being
online, and `OwnRecordsReal` not on the store being open.

**`AVEngineProofs`**, `EngineInvariant` and `PipelineBehindState`
(`RunningNeedsPipeline`), from `EngineAssumption` and with any behaviour of the adapter. A
buffer that entered a running engine stores `PLAYING` at its end whatever happened in
between. So the invariant says of a buffer on its way that the pipeline flows, or that a
`Stop` or a `Release` is under way, or that one has ended since (`crossed`); and of a
`Start` between the pipeline's start and the store of the state that the pipeline flows.
Events only take an engine out of `STARTED` and `PLAYING`, and a `Stop` or a `Release`
stores its own state after all buffers it did not cross.

**`AVEngineProofs`, the promised event**, from `EngineAssumption`: `OpenedIsBrought`
(`OpenedIsUnderWay`). `AwaitInv` says of an engine and a peer it awaits that the engine
has its callback, is the listener of the key, and that a thread brings the event: one
that has not looked its listener up, or has found this engine (`Brings`). Each step of
the adapter has one of three shapes: it leaves the threads and changes listeners, it adds
threads, or it moves or ends one thread; only the end of the thread that brings the event
ends the wait.

**`AVEngineProofs`, control center**, an instance `Ctr` of `AVCenter`:
`MapsHoldTheirEngines` (`MapsHoldEngines`). Its hypothesis, `NoClient \notin Client`, is
an assumption of `AVCenter`, which an instance does not bring along. `CenterInv` says of
each slot whose engine is there: a callback is that of a client under that id between
its registration and the first step of its release, an entry that of one up to the
second. Several clients may have the same id; the release of one then clears the slot of
all, and never leaves one behind.

**`AVEngineProofs`, streams**, an instance `Syn` of `AVSync`: `SendersShareClock`
(`StreamsShareClock`), with the hypothesis `SceneOf \in [Client -> Scene]` of `AVSync`.
`SyncInv` adds that a client that sends has not been released. Every step that
hands out a memory hands the same one to all callbacks under `callbackMutex_`, so what
has to be shown is that a client does not come to send, or the streams to be mergeable,
without such a step still to come. A stream that joins is followed by one, unless it
finds the list too short or not mergeable; a list that is mergeable
after a stream has left was mergeable before, for the scenes of one group.

**`OutputControlProofs`**, from `OutputAssumption`: `OutputInvariant`,
`ThreadsEndFirst` (`NoThreadLeft`), `OutputRefines` (`OutputsInOrder`, the
refinement of `LossyFifo`). The invariant is a chain: what the application got,
what is posted, the frame the control thread holds, what is queued and what was
pushed come in this order, strictly but for the moment between the post and the
removal, when a frame is in both places (`Order`); and who may run when
(`Threads`).

**`AVStreamProofs`**, from `StreamAssumption`: `StreamInvariant`, `WorkersEnd`
(`WorkersEndFirst`), `ClockNewest` (`ClockIsNewest`), `StreamRefines`
(`StreamInOrder`, the refinement of `LossyFifo` by the path as a whole). `Flow` lists
the seven places a frame can be at: the queues and the hands of the tasks, and the
wire. `Order` says that of two frames the one further downstream is the older one and
that all lie between the last one played and the last one pushed. A step drops the
oldest frames of a place or moves the oldest one to the next place, and a lemma about
each of the two carries all actions. `Stages` ties a task in its loop to the life
cycle of its plugin, `Clock` the ring to the last clock written.

The inductive invariants were checked with TLC on the instances of the runs before they
were proved.

**Only model-checked.**

- Liveness (`EveryTaskFinishes`, `EveryCallReturns`, `InitAndUnInitReturn`,
  `DeathIsRecovered`, `RecoveryEnds`, `FramesMoveOn`, `StopReturns`) is out of the
  prover's reach.
- `AnsweredOnRequest` of `CapsSync`. An inductive form has to count the requests and
  answers in all notices, queues and hands, a sum over sequences that no installed
  prover can do by induction.

## 5 What the code does not keep

Formulas that state what a comment or a document promises and that TLC refutes on
the models are kept as definitions, so that a corrected program can be checked
against them. They belong to no run of the project. To see a counterexample, name
the formula in place of the properties of a configuration: `FwkOverlap.cfg` for those
of `DHFwk`, `CapsSync.cfg` for those of `CapsSync`, `AVEngine.cfg` with two devices and
one engine for `MessageReachesItsPeer`, and the component's own configuration for the others.
`RequestAnswered` is clearest without failures (`MayFail = FALSE`, `MaxOutside = 0`).

| formula | what happens | where |
|---|---|---|
| `ReleaseAfterLastDevice` (`DHFwk`) | a device leaves during the start-up: the tail of its `OffLineTask` finds the real-time set and the board empty just before the start-up thread pushes the `OnLineTask` of the same device, which then runs while the framework is released; leave, join, leave reaches the same later | `src/task/offline_task.cpp:98` |
| `CountsAgree` (`DHFwk`) | the offline event of a device overtakes its online event on the start-up thread, between the entry and the count: the real-time id is deleted before it is added, and the device ends counted without an entry | `src/utils/dh_context.cpp:326` |
| `InitialisedHasComponents` (`DHFwk`) | `Release` takes no mutex: the start-up thread, or `CheckExitSAOrNot` of one `OffLineTask`, stores `isInit_` after the `OffLineTask` of another event has released everything: `isInit_` stays set and the components are gone | `src/distributed_hardware_manager.cpp:83` |
| `TrustedDeviceServed` (`DHFwk`) | a device that joins again before its `OffLineTask` has removed the entry is taken for a repeated event and then loses the entry, which is TLC's shortest counterexample; also, `DisableTask` notifies its father before it leaves the board; the woken `OffLineTask` finds the board not empty and skips the release; `flagUnInit_` stays set and every device that joins later is refused | `src/task/disable_task.cpp:77`, `src/task/offline_task.cpp:100` |
| `OfflineHardwareGone` (`DHFwk`) | the `OnLineTask` of the start-up thread runs after the `OffLineTask` that overtook it and enables the hardware of a device that has left, which is TLC's shortest counterexample; also, hardware enabled from meta information whose record is then deleted is in neither list when the device leaves; its driver stays | `src/resourcemanager/meta_info_manager.cpp:473` |
| `RequestAnswered` (`CapsSync`) | two devices that ask each other at once overwrite each other's sockets, and each drops the other's request; both keep the dead entry, so that later requests between the two stay unanswered until a transport is released | `src/transport/dh_transport.cpp:61` |
| `ChannelClosed` (`CapsSync`) | an answer without capabilities returns before the socket is closed, and `StopSocket` looks the socket up by its peer and so may close another one than the answer came on | `src/transport/dh_comm_tool.cpp:199`, `src/transport/dh_transport.cpp:397` |
| `RefreshedIsSaved` (`CapsSync`) | `AddCapability` may return without saving the capabilities of an answer, and the refresh is pushed all the same | `src/resourcemanager/local_capability_info_manager.cpp:113`, `src/transport/dh_comm_tool.cpp:144` |
| `RefreshAfterIdle` (`CapsSync`) | a hardware that becomes idle between the query of its state and the saving of its refresh keeps the refresh until it was used again | `src/transport/dh_comm_tool.cpp:231` |
| `WaitsForOwnCallback` (`CompOps`) | `status_` is not reset between tries: after one failed callback later tries do not wait for their own | `src/componentmanager/component_enable.cpp:60` |
| `MessageReachesItsPeer` (`AVEngine`) | a session that any peer opens replaces the entry of every device listened to under that name | `av_transport/common/src/softbus_channel_adapter.cpp:489` |
| `ReleaseSparesSiblings` (`AVCenter`) | `ReleaseAVCenter` looks for other engines of the device under `engineIdMutex_` and drops the device under `devIdMutex_`: an engine entered in between loses its channel; one that shares the id of the released engine loses it too | `av_transport/av_trans_control_center/services/src/av_trans_control_center.cpp:117` |
| `ResetReturns`, `CallbackThere` (`OutputControl`) | `ReleaseControl` notifies without the mutex of the waiting thread, and `Reset` drops the callback while a frame is posted | `output_controller.cpp` |
| `NormalAfterClose` (`PubSub`) | `CloseLowLatency` restores normal latency but leaves the timer, which asks for low latency again | `src/lowlatency/low_latency.cpp:90` |

The models also show, without a sentence of the repository to hold against it:

- *Stores.* `DBAdapter::ReInit` drops the pointer first and refuses when it is
  null, so that after one failed attempt all later ones of that recovery fail; the
  change listener is not registered again after a recovery; one store's retry loop
  blocks the handler for the others; a late notification after a reload can
  overwrite a newer record; updates of enabled hardware are dropped; an empty query
  skips the check for hardware that is gone.
- *Components.* An `EnableTask` and a `DisableTask` of one hardware are not
  ordered; an `InitSource` that outlives its two seconds overlaps `ReleaseSource`; a
  privacy page stays when it is shown while `StopPrivacy` reads the flags, or when it
  cannot be closed, because its flag is cleared either way; the delayed stop closes a
  page opened since; a refused unsubscription leaves a monitor; a component whose type is not in
  `saIdProcessNameMap_` is watched and not recovered.
- *Topics.* A listener cached after the restoring pass is not registered; the
  first notice after a subscription registers listeners that are registered already,
  and one unregistration then leaves one; `ReleaseTimer` joins a thread that may
  wait for the mutex it holds.
- *Capability exchange.* A request sent while the handler is in the three steps of
  `StopSocket` goes out on a socket that is about to be closed, and is lost.
- *Engines.* A buffer that is on its way when `Stop` or `Release` runs may store
  `PLAYING` afterwards, in an engine without a running pipeline, until the next `Start`;
  a released receiver takes a late `OPENED`; engines of one owner and peer share one
  listener, so that only the last one hears of the channel, and the release of one ends
  the session and the events of the other.
- *Control center.* `rootEngineId_` is loaded and incremented in two steps: two engines
  that initialise at once may be given one id, the callback of the second is not
  entered, and the release of one takes the callback and the entry of both. Ids start
  again after a restart of the service. A release, of whatever device, removes the listeners
  under which the center hears of all channels.
- *Synchronisation.* The descriptor of a group's memory is not closed when a new memory
  takes its place, and is closed again by each later removal. A removal that has read a
  short list takes the memory from a group that has formed meanwhile; a message of a
  peer replaces the memory of senders. A stream that leaves does not merge the group
  again, so that a group that arises when the last speaker leaves screen, microphone and
  camera behind has engines with different memories or none (`StreamsShareClock` is
  stated for the scenes of one group).
- *Output.* The queue of the output controller holds one frame more than its limit;
  `StopControl` clears it without the mutex.

## 6 What is not modelled

- *Libraries and services outside the repository*: device manager, distributed
  kv service, softbus, histreamer, the hardware components, ffrt. They appear as
  the environment of the modules, with what the code in `src/` relies on.
- *Data*: JSON, parcels, compression, hashes of ids (a bijection), dump texts, codec
  abilities (`histreamer_ability_querier` and the parsers), frame meta data, and the
  arithmetic of delays and averages, which only moves the end of timed waits.
- *Data races on containers and pointers*: `realTimeOnLineNetworkIdSet_` and
  `connectedDevIds_` are written under a shared lock, `DHTransport` may be replaced
  under its caller, maps of components are cleared under a recovery, `StopControl` clears
  the queue while a handled frame is removed. The models keep each update atomic. Two
  races of `OutputControl` are marked by `fault`: a frame taken from the emptied
  queue and one delivered to a callback that was dropped.
- *A restart of the device manager* (`AccessManager::OnRemoteDied`), which registers
  the callbacks again.
- *Parts without state*: JS binding, settings application, dump, providers of
  plugin definitions, and functions that nothing in the repository calls
  (`RemoveCapabilityInfoInDB`, `RemoveVersionInfoByDeviceId`, `SyncVersionInfoFromDB`,
  `RemoveMetaInfoByKey`, `WaitForALLTaskFinish`).

## 7 Plan

The parts that have a protocol of their own are modelled, and every safety property
of the runs but `AnsweredOnRequest` is proved. What would be worth checking, and then
proving, after a change of the code:

| change | question |
|---|---|
| `StopSocket` closes the socket the answer came on | `ChannelClosed` for any number of requests, by an invariant like `First` for each connection |
| both ends may hold a socket to each other, keyed by socket | `RequestAnswered` as a property of `caps` |
| `SendOffLineEvent`, the tail of `OffLineTask` and `Release` share a lock | `ReleaseAfterLastDevice`, `CountsAgree` and `InitialisedHasComponents` as properties of `fwk_overlap` |
| `DisableTask` leaves the board before it notifies | `TrustedDeviceServed` as a property of `fwk_overlap` |
| `ReleaseAVCenter` holds one mutex from the search for other engines to the end, and ids are taken atomically | `ReleaseSparesSiblings` as a property of `av_center` |
| `PushData` and `Stop` share a lock | `RunningNeedsPipeline` without `crossed` |
