------------------------------- MODULE DHFwk -------------------------------
(***************************************************************************)
(* The life cycle of the distributed hardware framework service: devices   *)
(* come online and go offline, the framework is initialised, and it is     *)
(* released when the last device is gone.                                  *)
(*                                                                         *)
(* The module closes the task subsystem of module TaskFlow with            *)
(*   - AccessManager, which serialises the callbacks of the device manager *)
(*     with one mutex, and its CheckTrustedDeviceOnline at start-up, which *)
(*     does not take that mutex;                                           *)
(*   - DistributedHardwareManagerFactory::SendOnLineEvent and              *)
(*     SendOffLineEvent, which run on the threads of their callers;        *)
(*   - the tail of OffLineTask::DoTaskInner, which releases everything     *)
(*     (Factory::UnInit) on the ffrt worker of the last OffLineTask;       *)
(*   - the handlers of database changes of CapabilityInfoManager and of    *)
(*     MetaInfoManager, which run on the threads of the database.          *)
(*                                                                         *)
(* Every atomic load, store, and call of a function with its own mutex is  *)
(* one step. A handler of a database change is two: reading flagUnInit_,   *)
(* and what it does with the mutex of its manager, which ClearOffLineInfo  *)
(* takes as well.                                                          *)
(***************************************************************************)
EXTENDS TaskFlow

CONSTANTS IsoDevice,    \* heterogeneous devices that may connect (TOPIC_ISOMERISM)
          NoDevice,     \* the device of a thread that is idle
          MaxEvents     \* bound: changes of the trusted list, of connections and of
                        \* the databases, and recoveries of these

ASSUME DHFwkAssumption ==
    /\ NoDevice \notin Device
    /\ MaxEvents \in Nat

VARIABLES trusted,          \* DeviceManager's trusted list (external)
          callbacks,        \* device manager callbacks not yet delivered
          realTime,         \* DHContext::realTimeOnLineNetworkIdSet_
          connectedDevIds,  \* DHContext::connectedDevIds_
          isInit,           \* Factory::isInit_
          isAllInit,        \* DistributedHardwareManager::isAllInit_
          isLocalInit,      \* DistributedHardwareManager::isLocalInit_
          subscribed,       \* the managers have their DBAdapter and hear of changes
          flagUnInit,       \* Factory::flagUnInit_
          sendPc,           \* the next step of each thread that sends an event
          sendDev,          \* the device whose event it sends
          bootList,         \* devices CheckTrustedDeviceOnline has not sent yet
          tail,             \* the next step of an OffLineTask in its tail
          deviceList,       \* the trusted list an OffLineTask in its tail has read
          unload,           \* UnloadSystemAbility was called
          onChange,         \* the database change each manager is about to handle
          events            \* events of the device manager and the databases so far

localVars == <<isLocalInit, subscribed>>
initVars == <<isInit, isAllInit, flagUnInit, localVars>>
sendVars == <<sendPc, sendDev, bootList>>
countVars == <<realTime, connectedDevIds>>
dmVars == <<trusted, callbacks>>
tailVars == <<tail, deviceList>>
budgetVars == <<onChange, events>>
fwkVars == <<dmVars, countVars, initVars, sendVars, tailVars, unload, budgetVars>>
vars == <<flowVars, fwkVars>>

-----------------------------------------------------------------------------
(* Types *)

\* Threads that send an event: the callback thread of the device manager, the
\* thread of DoBusinessInit, and for each device the detached thread that
\* CheckExitSAOrNot starts (bound: one at a time per device).
Sender == {"dm", "boot"} \cup Device

\* The steps of SendOnLineEvent and of SendOffLineEvent.
SendStep == {"idle", "flag", "online", "add", "realtime", "init", "local", "load",
             "setall", "setinit", "push", "off_init", "off_local", "off_load", "off_setall",
             "off_setinit", "off_online", "off_delete", "off_count", "off_iso", "off_flag",
             "off_push"}

\* The steps of an OffLineTask after RemoveTask: the condition of the release,
\* Factory::UnInit, CheckExitSAOrNot.
TailStep == {"count", "iso", "board", "release", "unsubscribe", "allinit", "localinit",
             "isinit", "flag", "checkexit", "local", "load", "setall", "setinit", "resend",
             "return"}

Callback == {"ready", "offline"} \X Device

\* The databases the managers listen to, and the changes of one record.
Store == {"cap", "meta"}
Change == {"add", "update", "delete"} \X Key

FwkTypeOK ==
    /\ TypeOK
    /\ trusted \subseteq Device
    /\ callbacks \in Seq(Callback)
    /\ realTime \subseteq Device
    /\ connectedDevIds \subseteq IsoDevice
    /\ isInit \in BOOLEAN /\ isAllInit \in BOOLEAN /\ flagUnInit \in BOOLEAN
    /\ isLocalInit \in BOOLEAN /\ subscribed \in BOOLEAN
    /\ onChange \in [Store -> SUBSET Change]
    /\ sendPc \in [Sender -> SendStep]
    /\ sendDev \in [Sender -> Device \cup {NoDevice}]
    /\ bootList \subseteq Device
    /\ tail \in [TaskId -> TailStep]
    /\ deviceList \in [TaskId -> SUBSET Device]
    /\ unload \in BOOLEAN
    /\ events \in 0 .. MaxEvents

-----------------------------------------------------------------------------
(* DHContext: an entry of devIdEntrySet_ holds all the ids of its device, so *)
(* that a lookup by one of them finds the others or, without an entry, none. *)

Entry(d) == IF d \in devIdEntrySet THEN d ELSE NoDevice

IsDeviceOnline(d) == Entry(d) # NoDevice
GetUUIDByDeviceId(d) == Entry(d)
GetNetworkIdByUUID(d) == Entry(d)
GetUUIDByNetworkId(d) == Entry(d)

\* TaskBoard::IsEnabledDevice.
IsEnabledDevice(d, h) == <<d, h>> \in enabledDevices

-----------------------------------------------------------------------------
(* DistributedHardwareManagerFactory::SendOnLineEvent *)

\* An OffLineTask that left the board is at a step of its tail.
InTail(t, step) == At(t, "OFF_LINE", "exit") /\ tail[t] = step

TailGoto(t, step) == tail' = [tail EXCEPT ![t] = step]

SendGoto(s, step) == sendPc' = [sendPc EXCEPT ![s] = step]

SendReturn(s) ==
    /\ SendGoto(s, "idle")
    /\ sendDev' = [sendDev EXCEPT ![s] = NoDevice]

SendBegin(s, d, step) ==
    /\ sendPc[s] = "idle"
    /\ SendGoto(s, step)
    /\ sendDev' = [sendDev EXCEPT ![s] = d]

\* The event is refused while the framework is to be released.
CheckUnInitFlag(s) ==
    /\ sendPc[s] = "flag"
    /\ IF flagUnInit
       THEN SendReturn(s)
       ELSE SendGoto(s, "online") /\ UNCHANGED sendDev
    /\ UNCHANGED <<flowVars, dmVars, countVars, initVars, bootList, tailVars, unload,
                   budgetVars>>

\* A device that still has its entry is refused as a repeated online event.
CheckRepeatOnline(s) ==
    /\ sendPc[s] = "online"
    /\ IF IsDeviceOnline(sendDev[s])
       THEN SendReturn(s)
       ELSE SendGoto(s, "add") /\ UNCHANGED sendDev
    /\ UNCHANGED <<flowVars, dmVars, countVars, initVars, bootList, tailVars, unload,
                   budgetVars>>

\* DHContext::AddOnlineDevice.
AddOnlineDevice(s) ==
    /\ sendPc[s] = "add"
    /\ devIdEntrySet' = devIdEntrySet \cup {sendDev[s]}
    /\ SendGoto(s, "realtime")
    /\ UNCHANGED <<objectVars, boardVars, capMem, metaMem, compSource, hardwareVars,
                   dmVars, countVars, initVars, sendDev, bootList, tailVars, unload,
                   budgetVars>>

\* Seeded fault: the real-time set does not learn of the device.
AddRealTimeOnlineDeviceLost(s) ==
    /\ sendPc[s] = "realtime"
    /\ SendGoto(s, "init")
    /\ UNCHANGED <<flowVars, dmVars, countVars, initVars, sendDev, bootList, tailVars,
                   unload, budgetVars>>

\* DHContext::AddRealTimeOnlineDeviceNetworkId.
AddRealTimeOnlineDevice(s) ==
    /\ sendPc[s] = "realtime"
    /\ realTime' = realTime \cup {sendDev[s]}
    /\ SendGoto(s, "init")
    /\ UNCHANGED <<flowVars, dmVars, connectedDevIds, initVars, sendDev, bootList, tailVars,
                   unload, budgetVars>>

\* dhInitMgrMutex_ is free: no thread is inside DistributedHardwareManager::
\* Initialize. Release does not take this mutex.
InitMutexFree ==
    /\ \A s \in Sender : sendPc[s] \notin {"load", "setall", "off_load", "off_setall"}
    /\ \A t \in TaskId : ~InTail(t, "load") /\ ~InTail(t, "setall")

\* "!isInit_.load() && ..." of both events.
CheckInit(s, here, local, next) ==
    /\ sendPc[s] = here
    /\ SendGoto(s, IF isInit THEN next ELSE local)
    /\ UNCHANGED <<flowVars, dmVars, countVars, initVars, sendDev, bootList, tailVars,
                   unload, budgetVars>>

\* Initialize up to LocalInit, which opens the databases and listens to their
\* changes; nothing of it is done when isAllInit_, or isLocalInit_, is set.
LocalInit ==
    /\ InitMutexFree
    /\ isLocalInit' = (isLocalInit \/ ~isAllInit)
    /\ subscribed' = (subscribed \/ (~isAllInit /\ ~isLocalInit))
    /\ UNCHANGED <<isInit, isAllInit, flagUnInit>>

InitializeLocal(s, here, load, setinit) ==
    /\ sendPc[s] = here
    /\ LocalInit
    /\ SendGoto(s, IF isAllInit THEN setinit ELSE load)
    /\ UNCHANGED <<flowVars, dmVars, countVars, sendDev, bootList, tailVars, unload,
                   budgetVars>>

\* ComponentManager::Init, which fills compSource_ and starts the components.
Initialize(s, here, setall) ==
    /\ sendPc[s] = here
    /\ SendGoto(s, setall)
    /\ compSource' = TRUE
    /\ UNCHANGED <<objectVars, boardVars, devIdEntrySet, capMem, metaMem, hardwareVars,
                   dmVars, countVars, initVars, sendDev, bootList, tailVars, unload,
                   budgetVars>>

\* The store at the end of Initialize.
SetAllInit(s, here, next) ==
    /\ sendPc[s] = here
    /\ isAllInit' = TRUE
    /\ SendGoto(s, next)
    /\ UNCHANGED <<flowVars, dmVars, countVars, isInit, flagUnInit, localVars, sendDev,
                   bootList, tailVars, unload, budgetVars>>

\* The store at the end of Factory::Init.
SetInit(s, here, next) ==
    /\ sendPc[s] = here
    /\ isInit' = TRUE
    /\ SendGoto(s, next)
    /\ UNCHANGED <<flowVars, dmVars, countVars, isAllInit, flagUnInit, localVars, sendDev,
                   bootList, tailVars, unload, budgetVars>>

\* Seeded fault: the task is pushed without being registered on the board.
PushDeviceTaskOffBoard(s, here, type) ==
    LET id == FreshId IN
    /\ sendPc[s] = here
    /\ Room(Cardinality(DhId) + 1)
    /\ task' = [task EXCEPT ![id] = [type |-> type, dev |-> sendDev[s], dh |-> NoDh]]
    /\ Goto(id, "queued")
    /\ PushTask(id)
    /\ SendReturn(s)
    /\ UNCHANGED <<kinVars, tasks, eventQueue, handler, contextVars, hardwareVars, dmVars,
                   countVars, initVars, bootList, tailVars, unload, budgetVars>>

\* DistributedHardwareManager::SendOnLineEvent and SendOffLineEvent.
PushDeviceTask(s, here, type) ==
    /\ sendPc[s] = here
    /\ Room(Cardinality(DhId) + 1)
    /\ CreateRootTask(type, sendDev[s], NoDh)
    /\ SendReturn(s)
    /\ UNCHANGED <<eventQueue, handler, contextVars, hardwareVars, dmVars, countVars,
                   initVars, bootList, tailVars, unload, budgetVars>>

SendOnLineEvent(s) ==
    \/ CheckUnInitFlag(s)
    \/ CheckRepeatOnline(s)
    \/ AddOnlineDevice(s)
    \/ AddRealTimeOnlineDevice(s)
    \/ CheckInit(s, "init", "local", "push")
    \/ InitializeLocal(s, "local", "load", "setinit")
    \/ Initialize(s, "load", "setall")
    \/ SetAllInit(s, "setall", "setinit")
    \/ SetInit(s, "setinit", "push")
    \/ PushDeviceTask(s, "push", "ON_LINE")

-----------------------------------------------------------------------------
(* DistributedHardwareManagerFactory::SendOffLineEvent *)

\* A device without an entry is refused as a repeated offline event.
CheckRepeatOffline(s) ==
    /\ sendPc[s] = "off_online"
    /\ IF IsDeviceOnline(sendDev[s])
       THEN SendGoto(s, "off_delete") /\ UNCHANGED sendDev
       ELSE SendReturn(s)
    /\ UNCHANGED <<flowVars, dmVars, countVars, initVars, bootList, tailVars, unload,
                   budgetVars>>

\* DHContext::DeleteRealTimeOnlineDeviceNetworkId.
DeleteRealTimeOnlineDevice(s) ==
    /\ sendPc[s] = "off_delete"
    /\ realTime' = realTime \ {sendDev[s]}
    /\ SendGoto(s, "off_count")
    /\ UNCHANGED <<flowVars, dmVars, connectedDevIds, initVars, sendDev, bootList, tailVars,
                   unload, budgetVars>>

\* The condition of flagUnInit_: no device online, then no device connected.
CheckLastDevice(s) ==
    /\ \/ /\ sendPc[s] = "off_count"
          /\ SendGoto(s, IF realTime = {} THEN "off_iso" ELSE "off_push")
       \/ /\ sendPc[s] = "off_iso"
          /\ SendGoto(s, IF connectedDevIds = {} THEN "off_flag" ELSE "off_push")
    /\ UNCHANGED <<flowVars, dmVars, countVars, initVars, sendDev, bootList, tailVars,
                   unload, budgetVars>>

\* flagUnInit_.store(true).
SetUnInitFlag(s) ==
    /\ sendPc[s] = "off_flag"
    /\ flagUnInit' = TRUE
    /\ SendGoto(s, "off_push")
    /\ UNCHANGED <<flowVars, dmVars, countVars, isInit, isAllInit, localVars, sendDev,
                   bootList, tailVars, unload, budgetVars>>

SendOffLineEvent(s) ==
    \/ CheckInit(s, "off_init", "off_local", "off_online")
    \/ InitializeLocal(s, "off_local", "off_load", "off_setinit")
    \/ Initialize(s, "off_load", "off_setall")
    \/ SetAllInit(s, "off_setall", "off_setinit")
    \/ SetInit(s, "off_setinit", "off_online")
    \/ CheckRepeatOffline(s)
    \/ DeleteRealTimeOnlineDevice(s)
    \/ CheckLastDevice(s)
    \/ SetUnInitFlag(s)
    \/ PushDeviceTask(s, "off_push", "OFF_LINE")

-----------------------------------------------------------------------------
(* AccessManager *)

\* AccessManager::CheckTrustedDeviceOnline on the thread of DoBusinessInit.
CheckTrustedDeviceOnline ==
    /\ \E d \in bootList :
          /\ SendBegin("boot", d, "flag")
          /\ bootList' = bootList \ {d}
    /\ UNCHANGED <<flowVars, dmVars, countVars, initVars, tailVars, unload, budgetVars>>

\* AccessManager::OnDeviceReady, called with the accessMutex_.
OnDeviceReady ==
    /\ callbacks # <<>>
    /\ Head(callbacks)[1] = "ready"
    /\ SendBegin("dm", Head(callbacks)[2], "flag")
    /\ callbacks' = Tail(callbacks)
    /\ UNCHANGED <<flowVars, trusted, countVars, initVars, bootList, tailVars, unload,
                   budgetVars>>

\* AccessManager::OnDeviceOffline, called with the accessMutex_. The ids of the
\* device are those of its entry; without an entry the callback returns.
OnDeviceOffline ==
    /\ callbacks # <<>>
    /\ Head(callbacks)[1] = "offline"
    /\ sendPc["dm"] = "idle"
    /\ IF GetUUIDByNetworkId(Head(callbacks)[2]) # NoDevice
       THEN SendBegin("dm", GetUUIDByNetworkId(Head(callbacks)[2]), "off_init")
       ELSE UNCHANGED sendVars
    /\ callbacks' = Tail(callbacks)
    /\ UNCHANGED <<flowVars, trusted, countVars, initVars, bootList, tailVars, unload,
                   budgetVars>>

-----------------------------------------------------------------------------
(* The tail of OffLineTask::DoTaskInner *)

\* The task returns without, or after, releasing the framework.
TailReturn(t) == FinishOffLine(t) /\ TailGoto(t, "count")

\* The three conjuncts of the condition, each under its own lock.
CheckRelease(t, here, holds, next) ==
    /\ InTail(t, here)
    /\ IF holds
       THEN TailGoto(t, next) /\ UNCHANGED flowVars
       ELSE TailReturn(t)
    /\ UNCHANGED <<dmVars, countVars, initVars, sendVars, deviceList, unload, budgetVars>>

\* DistributedHardwareManager::Release: ComponentManager::UnInit stops the
\* components and clears compSource_; with them go the virtual drivers.
ReleaseComponents(t) ==
    /\ InTail(t, "release")
    /\ compSource' = FALSE
    /\ registered' = {}
    /\ TailGoto(t, "unsubscribe")
    /\ UNCHANGED <<objectVars, boardVars, devIdEntrySet, capMem, metaMem, enabledDevices,
                   dmVars, countVars, initVars, sendVars, deviceList, unload, budgetVars>>

\* Release goes on: the managers drop their database adapters. What they have
\* cached stays.
ReleaseDatabases(t) ==
    /\ InTail(t, "unsubscribe")
    /\ subscribed' = FALSE
    /\ TailGoto(t, "allinit")
    /\ UNCHANGED <<flowVars, dmVars, countVars, isInit, isAllInit, flagUnInit, isLocalInit,
                   sendVars, deviceList, unload, budgetVars>>

\* isAllInit_.store(false) and isLocalInit_.store(false) at the end of Release.
ResetAllInit(t) ==
    /\ InTail(t, "allinit")
    /\ isAllInit' = FALSE
    /\ TailGoto(t, "localinit")
    /\ UNCHANGED <<flowVars, dmVars, countVars, isInit, flagUnInit, localVars, sendVars,
                   deviceList, unload, budgetVars>>

ResetLocalInit(t) ==
    /\ InTail(t, "localinit")
    /\ isLocalInit' = FALSE
    /\ TailGoto(t, "isinit")
    /\ UNCHANGED <<flowVars, dmVars, countVars, isInit, isAllInit, flagUnInit, subscribed,
                   sendVars, deviceList, unload, budgetVars>>

\* isInit_.store(false) and flagUnInit_.store(false) of Factory::UnInit.
ResetInit(t) ==
    /\ InTail(t, "isinit")
    /\ isInit' = FALSE
    /\ TailGoto(t, "flag")
    /\ UNCHANGED <<flowVars, dmVars, countVars, isAllInit, flagUnInit, localVars, sendVars,
                   deviceList, unload, budgetVars>>

ResetUnInitFlag(t) ==
    /\ InTail(t, "flag")
    /\ flagUnInit' = FALSE
    /\ TailGoto(t, "checkexit")
    /\ UNCHANGED <<flowVars, dmVars, countVars, isInit, isAllInit, localVars, sendVars,
                   deviceList, unload, budgetVars>>

\* CheckExitSAOrNot with nobody left: ExitDHFWK asks the system to unload.
ExitDHFWK(t) ==
    /\ InTail(t, "checkexit")
    /\ trusted = {} /\ connectedDevIds = {}
    /\ unload' = TRUE
    /\ TailReturn(t)
    /\ UNCHANGED <<dmVars, countVars, initVars, sendVars, deviceList, budgetVars>>

\* CheckExitSAOrNot with somebody left: it keeps the list of trusted devices.
KeepServing(t) ==
    /\ InTail(t, "checkexit")
    /\ trusted # {} \/ connectedDevIds # {}
    /\ deviceList' = [deviceList EXCEPT ![t] = trusted]
    /\ TailGoto(t, "local")
    /\ UNCHANGED <<flowVars, dmVars, countVars, initVars, sendVars, unload, budgetVars>>

\* The Init of CheckExitSAOrNot, in the steps that SendOnLineEvent has for it.
Reinit(t) ==
    /\ \/ /\ InTail(t, "local")
          /\ LocalInit
          /\ TailGoto(t, IF isAllInit THEN "setinit" ELSE "load")
          /\ UNCHANGED compSource
       \/ /\ InTail(t, "load")
          /\ compSource' = TRUE
          /\ TailGoto(t, "setall")
          /\ UNCHANGED initVars
       \/ /\ InTail(t, "setall")
          /\ isAllInit' = TRUE
          /\ TailGoto(t, "setinit")
          /\ UNCHANGED <<compSource, isInit, flagUnInit, localVars>>
       \/ /\ InTail(t, "setinit")
          /\ isInit' = TRUE
          /\ TailGoto(t, "resend")
          /\ UNCHANGED <<compSource, isAllInit, flagUnInit, localVars>>
    /\ UNCHANGED <<objectVars, boardVars, devIdEntrySet, capMem, metaMem, hardwareVars,
                   dmVars, countVars, sendVars, deviceList, unload, budgetVars>>

\* The loop of CheckExitSAOrNot: a detached SendOnLineEvent for each device of
\* the list (bound: the previous one for that device has returned).
ResendOnLine(t) ==
    /\ InTail(t, "resend")
    /\ \A d \in deviceList[t] : sendPc[d] = "idle"
    /\ sendPc' = [s \in Sender |-> IF s \in deviceList[t] THEN "flag" ELSE sendPc[s]]
    /\ sendDev' = [s \in Sender |-> IF s \in deviceList[t] THEN s ELSE sendDev[s]]
    /\ deviceList' = [deviceList EXCEPT ![t] = {}]
    /\ TailGoto(t, "return")
    /\ UNCHANGED <<flowVars, dmVars, countVars, initVars, bootList, unload, budgetVars>>

ReturnFromResend(t) ==
    /\ InTail(t, "return")
    /\ TailReturn(t)
    /\ UNCHANGED <<dmVars, countVars, initVars, sendVars, deviceList, unload, budgetVars>>

OffLineTail(t) ==
    \/ CheckRelease(t, "count", realTime = {}, "iso")
    \/ CheckRelease(t, "iso", connectedDevIds = {}, "board")
    \/ CheckRelease(t, "board", tasks = {}, "release")
    \/ ReleaseComponents(t)
    \/ ReleaseDatabases(t)
    \/ ResetAllInit(t)
    \/ ResetLocalInit(t)
    \/ ResetInit(t)
    \/ ResetUnInitFlag(t)
    \/ ExitDHFWK(t)
    \/ KeepServing(t)
    \/ Reinit(t)
    \/ ResendOnLine(t)
    \/ ReturnFromResend(t)

-----------------------------------------------------------------------------
(* CapabilityInfoManager and MetaInfoManager: events of their databases *)

DbEvent ==
    /\ events < MaxEvents
    /\ subscribed
    /\ events' = events + 1
    /\ UNCHANGED <<dmVars, countVars, initVars, sendVars, tailVars, unload>>

\* OnChange of a manager. HandleCapabilityUpdateChange and its Delete sibling
\* return at once while the framework is to be released; the others do not ask.
OnChange(st, c) ==
    /\ DbEvent
    /\ onChange[st] = {}
    /\ st = "cap" /\ c[1] # "add" => ~flagUnInit
    /\ onChange' = [onChange EXCEPT ![st] = {c}]
    /\ UNCHANGED flowVars

\* The rest of a handler, with the mutex of the manager.
Handle(st, kind, d, h) ==
    /\ <<kind, <<d, h>>>> \in onChange[st]
    /\ onChange' = [onChange EXCEPT ![st] = {}]
    /\ UNCHANGED <<dmVars, countVars, initVars, sendVars, tailVars, unload, events>>

\* Seeded fault: a capability of a device that is not online is cached.
HandleCapabilityAddChangeAnyDevice(d, h) ==
    /\ Handle("cap", "add", d, h)
    /\ SubmitHardwareTask("ENABLE", d, h, capMem \cup {<<d, h>>}, metaMem)

HandleCapabilityAddChange(d, h) ==
    /\ Handle("cap", "add", d, h)
    /\ GetNetworkIdByUUID(GetUUIDByDeviceId(d)) # NoDevice
    /\ SubmitHardwareTask("ENABLE", d, h, capMem \cup {<<d, h>>}, metaMem)

\* Hardware that is enabled is left alone.
HandleCapabilityUpdateChange(d, h) ==
    /\ Handle("cap", "update", d, h)
    /\ GetNetworkIdByUUID(GetUUIDByDeviceId(d)) # NoDevice
    /\ ~IsEnabledDevice(d, h)
    /\ SubmitHardwareTask("ENABLE", d, h, capMem \cup {<<d, h>>}, metaMem)

HandleCapabilityDeleteChange(d, h) ==
    /\ Handle("cap", "delete", d, h)
    /\ GetNetworkIdByUUID(GetUUIDByDeviceId(d)) # NoDevice
    /\ SubmitHardwareTask("DISABLE", d, h, capMem \ {<<d, h>>}, metaMem)

HandleMetaCapabilityAddChange(d, h) ==
    /\ Handle("meta", "add", d, h)
    /\ GetNetworkIdByUUID(GetUUIDByDeviceId(d)) # NoDevice
    /\ SubmitHardwareTask("ENABLE", d, h, capMem, metaMem \cup {<<d, h>>})

HandleMetaCapabilityUpdateChange(d, h) ==
    /\ Handle("meta", "update", d, h)
    /\ GetNetworkIdByUUID(GetUUIDByDeviceId(d)) # NoDevice
    /\ ~IsEnabledDevice(d, h)
    /\ SubmitHardwareTask("ENABLE", d, h, capMem, metaMem \cup {<<d, h>>})

\* The record is forgotten; hardware that was enabled for it is not disabled.
HandleMetaCapabilityDeleteChange(d, h) ==
    /\ Handle("meta", "delete", d, h)
    /\ metaMem' = metaMem \ {<<d, h>>}
    /\ UNCHANGED <<objectVars, boardVars, devIdEntrySet, capMem, compSource, hardwareVars>>

\* A change about a device that is not online, or an update of hardware that is
\* enabled, is skipped.
SkipChange(st, kind, d, h) ==
    /\ Handle(st, kind, d, h)
    /\ <<st, kind>> # <<"meta", "delete">>
    /\ \/ GetNetworkIdByUUID(GetUUIDByDeviceId(d)) = NoDevice
       \/ kind = "update" /\ IsEnabledDevice(d, h)
    /\ UNCHANGED flowVars

HandleChange(d, h) ==
    \/ HandleCapabilityAddChange(d, h)
    \/ HandleCapabilityUpdateChange(d, h)
    \/ HandleCapabilityDeleteChange(d, h)
    \/ HandleMetaCapabilityAddChange(d, h)
    \/ HandleMetaCapabilityUpdateChange(d, h)
    \/ HandleMetaCapabilityDeleteChange(d, h)
    \/ \E st \in Store, kind \in {"add", "update", "delete"} : SkipChange(st, kind, d, h)

\* The data service recovered from a crash: the managers read the records of
\* the devices that are online again, and create no task for them.
SyncRemoteCapabilityInfos ==
    /\ DbEvent
    /\ \E found \in SUBSET (devIdEntrySet \X DhId) : capMem' = capMem \cup found
    /\ UNCHANGED <<objectVars, boardVars, devIdEntrySet, metaMem, compSource, hardwareVars,
                   onChange>>

SyncRemoteMetaInfos ==
    /\ DbEvent
    /\ \E found \in SUBSET (devIdEntrySet \X DhId) : metaMem' = metaMem \cup found
    /\ UNCHANGED <<objectVars, boardVars, devIdEntrySet, capMem, compSource, hardwareVars,
                   onChange>>

-----------------------------------------------------------------------------
(* The device manager and the isomerism publisher (external) *)

DmEvent ==
    /\ events < MaxEvents
    /\ events' = events + 1
    /\ UNCHANGED <<flowVars, realTime, initVars, sendVars, tailVars, unload, onChange>>

\* A device joins the network: it is trusted, and OnDeviceReady will be called.
DeviceJoins(d) ==
    /\ DmEvent
    /\ d \notin trusted
    /\ trusted' = trusted \cup {d}
    /\ callbacks' = Append(callbacks, <<"ready", d>>)
    /\ UNCHANGED connectedDevIds

DeviceLeaves(d) ==
    /\ DmEvent
    /\ d \in trusted
    /\ trusted' = trusted \ {d}
    /\ callbacks' = Append(callbacks, <<"offline", d>>)
    /\ UNCHANGED connectedDevIds

\* DHFWKIsomerismListener::OnMessage.
IsomerismConnect(i) ==
    /\ DmEvent
    /\ i \notin connectedDevIds
    /\ connectedDevIds' = connectedDevIds \cup {i}
    /\ UNCHANGED dmVars

IsomerismDisconnect(i) ==
    /\ DmEvent
    /\ i \in connectedDevIds
    /\ connectedDevIds' = connectedDevIds \ {i}
    /\ UNCHANGED dmVars

-----------------------------------------------------------------------------
(* Specification *)

\* The service starts with devices in the trusted list (InitLocalDevInfo exits
\* at once without any, after a LocalInit; a device may have come just then).
\* DoBusinessInit has registered the callbacks and goes through the list.
Init ==
    /\ FlowInit
    /\ trusted \in SUBSET Device \ {{}}
    /\ callbacks = <<>>
    /\ realTime = {} /\ connectedDevIds = {}
    /\ isInit = FALSE /\ isAllInit = FALSE /\ flagUnInit = FALSE
    /\ isLocalInit \in BOOLEAN /\ subscribed = isLocalInit
    /\ sendPc = [s \in Sender |-> "idle"]
    /\ sendDev = [s \in Sender |-> NoDevice]
    /\ bootList = trusted
    /\ tail = [t \in TaskId |-> "count"]
    /\ deviceList = [t \in TaskId |-> {}]
    /\ unload = FALSE
    /\ onChange = [st \in Store |-> {}]
    /\ events = 0

Threads == TriggerTask \/ DoTask \/ \E t \in TaskId : TaskStep(t)

Environment ==
    \/ \E d \in Device : DeviceJoins(d) \/ DeviceLeaves(d)
    \/ \E i \in IsoDevice : IsomerismConnect(i) \/ IsomerismDisconnect(i)
    \/ \E st \in Store, c \in Change : OnChange(st, c)
    \/ SyncRemoteCapabilityInfos
    \/ SyncRemoteMetaInfos

Next ==
    \/ Threads /\ UNCHANGED fwkVars
    \/ \E t \in TaskId : OffLineTail(t)
    \/ \E s \in Sender : SendOnLineEvent(s) \/ SendOffLineEvent(s)
    \/ CheckTrustedDeviceOnline
    \/ OnDeviceReady
    \/ OnDeviceOffline
    \/ \E d \in Device, h \in DhId : HandleChange(d, h)
    \/ Environment

Spec == Init /\ [][Next]_vars

\* Every thread of the service that can take a step takes one: the ffrt worker
\* of each task, the TriggerTask and handler threads, the sending threads and
\* the threads on which the device manager and the databases call back.
Fairness ==
    /\ WF_vars(TriggerTask /\ UNCHANGED fwkVars)
    /\ WF_vars(DoTask /\ UNCHANGED fwkVars)
    /\ \A t \in TaskId : WF_vars((TaskStep(t) /\ UNCHANGED fwkVars) \/ OffLineTail(t))
    /\ \A s \in Sender : WF_vars(SendOnLineEvent(s) \/ SendOffLineEvent(s))
    /\ WF_vars(CheckTrustedDeviceOnline)
    /\ WF_vars(OnDeviceReady \/ OnDeviceOffline)
    /\ WF_vars(\E d \in Device, h \in DhId : HandleChange(d, h))

FairSpec == Spec /\ Fairness

-----------------------------------------------------------------------------
(* Properties *)

\* Nothing of the service is in progress: no callback to deliver, no change to
\* handle, no thread sending, no task.
Settled ==
    /\ callbacks = <<>> /\ bootList = {}
    /\ \A st \in Store : onChange[st] = {}
    /\ \A s \in Sender : sendPc[s] = "idle"
    /\ \A t \in TaskId : pc[t] = "free"

\* The tasks of the service behave as module TaskFlow says, whatever the
\* threads around them do: what is proved about TaskFlow holds of the service.
TasksBehave == FlowSpec

\* When the service has settled, the capability cache holds no device that is
\* offline: a database change that arrives during the offline task does not
\* put a capability back behind ClearOffLineInfo.
CacheOfOnlineDevices == Settled => \A k \in capMem : k[1] \in devIdEntrySet

\* The entries, by which SendOnLineEvent refuses a device that is already there,
\* and the real-time set, which decides about the release, are separate records
\* under separate locks. A device with an entry that is not counted in the
\* real-time set is on its way in or out: a thread is about to count it, or an
\* offline event for it, or the OffLineTask of one, will take the entry away.
EntryIsCounted ==
    \A d \in devIdEntrySet \ realTime :
        \/ \E s \in Sender :
              sendDev[s] = d /\ sendPc[s] \in {"realtime", "off_count", "off_iso", "off_flag",
                                              "off_push"}
        \/ \E t \in TaskId, step \in {"queued", "meta", "list", "create"} :
              At(t, "OFF_LINE", step) /\ task[t].dev = d

-----------------------------------------------------------------------------
(* What the service does not keep: TLC refutes each of these formulas when it *)
(* is put in the place of the invariants of FwkOverlap.cfg                     *)

\* Factory::UnInit starts only when no device has an entry and no task is left
\* that would run against released components ("all devices are offline, start
\* to free the resource", OffLineTask::DoTaskInner).
ReleaseAfterLastDevice ==
    \A t \in TaskId : InTail(t, "release") => tasks = {} /\ devIdEntrySet = {}

\* When the service has settled, the two records of who is online agree: the
\* entries that SendOnLineEvent and the capability handlers consult, and the
\* real-time set that decides about the release.
CountsAgree == Settled => realTime = devIdEntrySet

\* When the service has settled, isInit_, isAllInit_, compSource_ and the
\* subscriptions agree, so that no later event skips an initialisation that
\* Release has undone.
InitialisedHasComponents ==
    Settled => /\ isInit => compSource /\ subscribed
               /\ isInit = isAllInit

\* When the service has settled and is not about to exit, every trusted device
\* is online ("the framework constructs an online task and enables the
\* distributed hardware", README_zh.md, device online).
TrustedDeviceServed == Settled /\ ~unload => trusted \subseteq devIdEntrySet

\* When the service has settled, no source component holds a driver of a
\* device that is offline (README_zh.md, device offline).
OfflineHardwareGone == Settled => \A k \in registered : k[1] \in devIdEntrySet
=============================================================================
