------------------------------ MODULE TaskFlow ------------------------------
(***************************************************************************)
(* The task subsystem of the distributed hardware framework service:       *)
(* TaskFactory, TaskBoard, TaskExecutor and the six task classes, with the *)
(* part of DHContext, CapabilityInfoManager and ComponentManager that the  *)
(* tasks touch.                                                            *)
(*                                                                         *)
(* A task is created on the board and pushed to the executor's queue. The  *)
(* TriggerTask thread moves it to the common event handler; the handler    *)
(* thread runs DoTask.  An OnLineTask runs on that thread, every other     *)
(* task is submitted to ffrt and runs concurrently with all the others.    *)
(*                                                                         *)
(* The environment of the tasks is open: whoever creates root tasks, marks *)
(* devices online, changes the capability cache or loads the components is *)
(* free to do so at any time.  Module DHFwk closes it with the code that   *)
(* really does these things.                                               *)
(***************************************************************************)
EXTENDS Naturals, Sequences, FiniteSets

CONSTANTS Device,              \* peer devices (networkId, uuid and udid of one device)
          DhId,                \* ids of the distributed hardware of a device
          TaskId,              \* slots for live task objects (a bound of the model)
          NoTask,              \* a null Task pointer
          NoDh,                \* the empty dhId of ON_LINE, OFF_LINE and META tasks
          MayFail,             \* environment: the source components may fail a request
          MaxTaskQueueLength   \* MAX_TASK_QUEUE_LENGTH of TaskExecutor

VARIABLES task,            \* [TaskId -> TaskParam or NoTask]: the Task objects
          pc,              \* the next step of each task
          father,          \* fatherTask_, while the child still has to notify it
          unFinish,        \* OffLineTask::unFinishChildrenTasks_
          todo,            \* the hardware for which a father still creates a child
          tasks,           \* TaskBoard::tasks_
          taskQueue,       \* TaskExecutor::taskQueue_
          eventQueue,      \* tasks posted to DHContext's event handler
          handler,         \* the task DoTask runs synchronously on the handler thread
          devIdEntrySet,   \* DHContext::devIdEntrySet_
          capMem,          \* CapabilityInfoManager::globalCapInfoMap_
          metaMem,         \* MetaInfoManager::globalMetaInfoMap_
          compSource,      \* ComponentManager::compSource_ is filled
          enabledDevices,  \* TaskBoard::enabledDevices_
          registered       \* virtual drivers the source components hold

kinVars == <<father, unFinish, todo>>
objectVars == <<task, pc, kinVars>>
boardVars == <<tasks, taskQueue, eventQueue, handler>>
contextVars == <<devIdEntrySet, capMem, metaMem, compSource>>
hardwareVars == <<enabledDevices, registered>>
flowVars == <<objectVars, boardVars, contextVars, hardwareVars>>

-----------------------------------------------------------------------------
(* Types *)

\* A capability, keyed as GetCapabilityKey(deviceId, dhId).
Key == Device \X DhId

TaskType == {"ON_LINE", "OFF_LINE", "ENABLE", "DISABLE", "META_ENABLE", "META_DISABLE"}

\* Only ENABLE and DISABLE tasks are about one hardware.
TaskParam ==
    [type : {"ENABLE", "DISABLE"}, dev : Device, dh : DhId]
        \cup [type : TaskType \ {"ENABLE", "DISABLE"}, dev : Device, dh : {NoDh}]

\* "free" is an unused slot; "exit" is the tail of OffLineTask::DoTaskInner,
\* after the task took itself off the board.
Step == {"free", "queued", "sync", "list", "create", "meta", "clear", "run",
         "save", "erase", "notify", "remove", "exit"}

ASSUME TaskFlowAssumption ==
    /\ NoTask \notin TaskId
    /\ NoTask \notin TaskParam
    /\ NoDh \notin DhId
    /\ MayFail \in BOOLEAN
    /\ MaxTaskQueueLength \in Nat

TypeOK ==
    /\ task \in [TaskId -> TaskParam \cup {NoTask}]
    /\ pc \in [TaskId -> Step]
    /\ father \in [TaskId -> TaskId \cup {NoTask}]
    /\ unFinish \in [TaskId -> SUBSET TaskId]
    /\ todo \in [TaskId -> SUBSET DhId]
    /\ tasks \subseteq TaskId
    /\ taskQueue \in Seq(TaskId)
    /\ eventQueue \in Seq(TaskId)
    /\ handler \in TaskId \cup {NoTask}
    /\ devIdEntrySet \subseteq Device
    /\ capMem \subseteq Key
    /\ metaMem \subseteq Key
    /\ compSource \in BOOLEAN
    /\ enabledDevices \subseteq Key
    /\ registered \subseteq Key

-----------------------------------------------------------------------------
(* Helpers *)

KeysOf(d) == {d} \X DhId

DhIdsOf(d, caps) == {h \in DhId : <<d, h>> \in caps}

\* The capability an ENABLE or DISABLE task is about.
KeyOf(t) == <<task[t].dev, task[t].dh>>

FreeIds == {i \in TaskId : pc[i] = "free"}

\* A task id is random in the code; here a slot that is not in use.
FreshId == CHOOSE i \in FreeIds : TRUE

At(t, type, step) == pc[t] = step /\ task[t].type = type

Goto(t, step) == pc' = [pc EXCEPT ![t] = step]

\* TaskBoard::AddTask and TaskBoard::RemoveTask.
AddTask(id) == tasks' = tasks \cup {id}
RemoveTask(id) == tasks' = tasks \ {id}

\* TaskExecutor::PushTask. A task pushed to a full queue is dropped; the
\* comparison is the code's, so the queue may exceed the maximum by one.
PushTask(id) ==
    taskQueue' = IF Len(taskQueue) > MaxTaskQueueLength
                 THEN taskQueue
                 ELSE Append(taskQueue, id)

\* TaskFactory::CreateTask without a father, followed by PushTask.
CreateRootTask(type, d, h) ==
    LET id == FreshId IN
    /\ FreeIds # {}
    /\ task' = [task EXCEPT ![id] = [type |-> type, dev |-> d, dh |-> h]]
    /\ Goto(id, "queued")
    /\ AddTask(id)
    /\ PushTask(id)
    /\ UNCHANGED kinVars

\* TaskFactory::CreateTask with an OFF_LINE father, followed by PushTask: the
\* child joins unFinishChildrenTasks_ (OffLineTask::AddChildrenTask).
CreateChildOfOffLine(f, type, h, step, rest) ==
    LET id == FreshId IN
    /\ FreeIds # {}
    /\ task' = [task EXCEPT ![id] = [type |-> type, dev |-> task[f].dev, dh |-> h]]
    /\ pc' = [pc EXCEPT ![id] = "queued", ![f] = step]
    /\ father' = [father EXCEPT ![id] = f]
    /\ unFinish' = [unFinish EXCEPT ![f] = @ \cup {id}]
    /\ todo' = [todo EXCEPT ![f] = rest]
    /\ AddTask(id)
    /\ PushTask(id)

\* The same with an ON_LINE father. Nothing reads childrenTasks_ of an
\* OnLineTask, and ENABLE and META_ENABLE tasks never use their father.
CreateChildOfOnLine(f, type, h, step, rest) ==
    LET id == FreshId IN
    /\ FreeIds # {}
    /\ task' = [task EXCEPT ![id] = [type |-> type, dev |-> task[f].dev, dh |-> h]]
    /\ pc' = [pc EXCEPT ![id] = "queued", ![f] = step]
    /\ todo' = [todo EXCEPT ![f] = rest]
    /\ AddTask(id)
    /\ PushTask(id)
    /\ UNCHANGED <<father, unFinish>>

\* DoTaskInner returned: the object of a task that left the board is destroyed.
Destroy(t) ==
    /\ task' = [task EXCEPT ![t] = NoTask]
    /\ Goto(t, "free")
    /\ UNCHANGED kinVars

-----------------------------------------------------------------------------
(* TaskExecutor and the event handler *)

\* Seeded fault: the front of the queue is posted but stays in the queue.
TriggerTaskNoPop ==
    /\ taskQueue # <<>>
    /\ eventQueue' = Append(eventQueue, Head(taskQueue))
    /\ UNCHANGED <<objectVars, tasks, taskQueue, handler, contextVars, hardwareVars>>

\* TaskExecutor::TriggerTask: pop the front of the queue, post it to the handler.
TriggerTask ==
    /\ taskQueue # <<>>
    /\ taskQueue' = Tail(taskQueue)
    /\ eventQueue' = Append(eventQueue, Head(taskQueue))
    /\ UNCHANGED <<objectVars, tasks, handler, contextVars, hardwareVars>>

\* The first step of DoTask (OnLineTask) or of DoTaskInner (the others).
FirstStep(type) ==
    IF type = "ON_LINE" THEN "sync" ELSE IF type = "OFF_LINE" THEN "meta" ELSE "run"

\* Seeded fault: the next task is taken while an OnLineTask runs.
DoTaskUnblocked ==
    /\ eventQueue # <<>>
    /\ LET t == Head(eventQueue) IN
       /\ Goto(t, FirstStep(task[t].type))
       /\ handler' = IF task[t].type = "ON_LINE" THEN t ELSE NoTask
    /\ eventQueue' = Tail(eventQueue)
    /\ UNCHANGED <<task, kinVars, tasks, taskQueue, contextVars, hardwareVars>>

\* The handler thread takes the next posted task. It runs an OnLineTask itself
\* and hands the others to ffrt.
DoTask ==
    /\ eventQueue # <<>>
    /\ handler = NoTask
    /\ LET t == Head(eventQueue) IN
       /\ Goto(t, FirstStep(task[t].type))
       /\ handler' = IF task[t].type = "ON_LINE" THEN t ELSE NoTask
    /\ eventQueue' = Tail(eventQueue)
    /\ UNCHANGED <<task, kinVars, tasks, taskQueue, contextVars, hardwareVars>>

-----------------------------------------------------------------------------
(* OnLineTask *)

\* OnLineTask::DoSyncInfo: the meta capabilities the database holds for the
\* device are loaded into memory; loading may fail, which is only logged.
DoSyncInfo(t) ==
    /\ At(t, "ON_LINE", "sync")
    /\ \E loaded \in SUBSET KeysOf(task[t].dev) : metaMem' = metaMem \cup loaded
    /\ Goto(t, "list")
    /\ UNCHANGED <<task, kinVars, boardVars, devIdEntrySet, capMem, compSource,
                   hardwareVars>>

\* What OnLineTask::CreateEnableTask gets from LocalCapabilityInfoManager when
\* the capability cache has nothing: GetCapabilitiesByDeviceId returns at once
\* when the vector it is to fill is empty, and here it is.
LocalDhIdsOf(d) == {}

\* The list of hardware of OnLineTask::CreateEnableTask: capability cache, then
\* local capabilities, then meta information.
EnableList(d) ==
    LET caps == DhIdsOf(d, capMem) \cup LocalDhIdsOf(d) IN
    IF caps # {} THEN caps ELSE DhIdsOf(d, metaMem)

\* The first half of OnLineTask::CreateEnableTask.
CreateEnableList(t) ==
    /\ At(t, "ON_LINE", "list")
    /\ todo' = [todo EXCEPT ![t] = EnableList(task[t].dev)]
    /\ Goto(t, "create")
    /\ UNCHANGED <<task, father, unFinish, boardVars, contextVars, hardwareVars>>

\* Seeded fault: the dhId is not put into the parameters of the task.
CreateEnableTaskNoDh(t) ==
    /\ At(t, "ON_LINE", "create")
    /\ \E h \in todo[t] :
          CreateChildOfOnLine(t, "ENABLE", NoDh, "create", todo[t] \ {h})
    /\ UNCHANGED <<eventQueue, handler, contextVars, hardwareVars>>

\* One iteration of the loop of OnLineTask::CreateEnableTask.
CreateEnableTask(t) ==
    /\ At(t, "ON_LINE", "create")
    /\ \E h \in todo[t] :
          CreateChildOfOnLine(t, "ENABLE", h, "create", todo[t] \ {h})
    /\ UNCHANGED <<eventQueue, handler, contextVars, hardwareVars>>

\* OnLineTask::CreateMetaEnableTask.
CreateMetaEnableTask(t) ==
    /\ At(t, "ON_LINE", "create")
    /\ todo[t] = {}
    /\ CreateChildOfOnLine(t, "META_ENABLE", NoDh, "remove", {})
    /\ UNCHANGED <<eventQueue, handler, contextVars, hardwareVars>>

\* The end of OnLineTask::DoTask, which frees the handler thread.
FinishOnLine(t) ==
    /\ At(t, "ON_LINE", "remove")
    /\ Destroy(t)
    /\ RemoveTask(t)
    /\ handler' = NoTask
    /\ UNCHANGED <<taskQueue, eventQueue, contextVars, hardwareVars>>

-----------------------------------------------------------------------------
(* OffLineTask *)

\* OffLineTask::CreateMetaDisableTask.
CreateMetaDisableTask(t) ==
    /\ At(t, "OFF_LINE", "meta")
    /\ CreateChildOfOffLine(t, "META_DISABLE", NoDh, "list", {})
    /\ UNCHANGED <<eventQueue, handler, contextVars, hardwareVars>>

\* The list of hardware of OffLineTask::CreateDisableTask. The udid hash that
\* keys the meta information is known only while the device has its entry.
DisableList(d) ==
    LET caps == DhIdsOf(d, capMem) IN
    IF caps # {} THEN caps
    ELSE IF d \in devIdEntrySet THEN DhIdsOf(d, metaMem) ELSE {}

\* The first half of OffLineTask::CreateDisableTask.
CreateDisableList(t) ==
    /\ At(t, "OFF_LINE", "list")
    /\ todo' = [todo EXCEPT ![t] = DisableList(task[t].dev)]
    /\ Goto(t, "create")
    /\ UNCHANGED <<task, father, unFinish, boardVars, contextVars, hardwareVars>>

\* One iteration of the loop of OffLineTask::CreateDisableTask.
CreateDisableTask(t) ==
    /\ At(t, "OFF_LINE", "create")
    /\ \E h \in todo[t] :
          CreateChildOfOffLine(t, "DISABLE", h, "create", todo[t] \ {h})
    /\ UNCHANGED <<eventQueue, handler, contextVars, hardwareVars>>

\* Seeded fault: the device is forgotten without waiting for the children.
WaitDisableTaskFinishNoWait(t) ==
    /\ At(t, "OFF_LINE", "create")
    /\ todo[t] = {}
    /\ devIdEntrySet' = devIdEntrySet \ {task[t].dev}
    /\ Goto(t, "clear")
    /\ UNCHANGED <<task, kinVars, boardVars, capMem, metaMem, compSource, hardwareVars>>

\* OffLineTask::WaitDisableTaskFinish: wait for every child to notify, then
\* forget that the device is online.
WaitDisableTaskFinish(t) ==
    /\ At(t, "OFF_LINE", "create")
    /\ todo[t] = {}
    /\ unFinish[t] = {}
    /\ devIdEntrySet' = devIdEntrySet \ {task[t].dev}
    /\ Goto(t, "clear")
    /\ UNCHANGED <<task, kinVars, boardVars, capMem, metaMem, compSource, hardwareVars>>

\* OffLineTask::ClearOffLineInfo: RemoveCapabilityInfoInMem of the device.
ClearOffLineInfo(t) ==
    /\ At(t, "OFF_LINE", "clear")
    /\ capMem' = capMem \ KeysOf(task[t].dev)
    /\ Goto(t, "remove")
    /\ UNCHANGED <<task, kinVars, boardVars, devIdEntrySet, metaMem, compSource,
                   hardwareVars>>

\* OffLineTask::DoTaskInner takes the task off the board and goes on.
RemoveOffLine(t) ==
    /\ At(t, "OFF_LINE", "remove")
    /\ RemoveTask(t)
    /\ Goto(t, "exit")
    /\ UNCHANGED <<task, kinVars, taskQueue, eventQueue, handler, contextVars,
                   hardwareVars>>

\* OffLineTask::DoTaskInner returns.
FinishOffLine(t) ==
    /\ At(t, "OFF_LINE", "exit")
    /\ Destroy(t)
    /\ UNCHANGED <<boardVars, contextVars, hardwareVars>>

-----------------------------------------------------------------------------
(* EnableTask, DisableTask and the meta tasks *)

\* EnableTask::RegisterHardware succeeded: the source component has the driver.
\* ComponentManager::Enable refuses when compSource_ has no handler.
EnableSuccess(t) ==
    /\ At(t, "ENABLE", "run")
    /\ compSource
    /\ registered' = registered \cup {KeyOf(t)}
    /\ Goto(t, "save")
    /\ UNCHANGED <<task, kinVars, boardVars, contextVars, enabledDevices>>

\* EnableTask::RegisterHardware failed. After a timeout the component may have
\* registered the driver all the same.
EnableFail(t) ==
    /\ At(t, "ENABLE", "run")
    /\ MayFail \/ ~compSource
    /\ \/ UNCHANGED registered
       \/ compSource /\ registered' = registered \cup {KeyOf(t)}
    /\ Goto(t, "remove")
    /\ UNCHANGED <<task, kinVars, boardVars, contextVars, enabledDevices>>

\* TaskBoard::SaveEnabledDevice.
SaveEnabledDevice(t) ==
    /\ At(t, "ENABLE", "save")
    /\ enabledDevices' = enabledDevices \cup {KeyOf(t)}
    /\ Goto(t, "remove")
    /\ UNCHANGED <<task, kinVars, boardVars, contextVars, registered>>

\* DisableTask::UnRegisterHardware succeeded.
DisableSuccess(t) ==
    /\ At(t, "DISABLE", "run")
    /\ compSource
    /\ registered' = registered \ {KeyOf(t)}
    /\ Goto(t, "erase")
    /\ UNCHANGED <<task, kinVars, boardVars, contextVars, enabledDevices>>

\* DisableTask::UnRegisterHardware failed, or timed out after the component did it.
DisableFail(t) ==
    /\ At(t, "DISABLE", "run")
    /\ MayFail \/ ~compSource
    /\ \/ UNCHANGED registered
       \/ compSource /\ registered' = registered \ {KeyOf(t)}
    /\ Goto(t, "notify")
    /\ UNCHANGED <<task, kinVars, boardVars, contextVars, enabledDevices>>

\* TaskBoard::RemoveEnabledDevice.
RemoveEnabledDevice(t) ==
    /\ At(t, "DISABLE", "erase")
    /\ enabledDevices' = enabledDevices \ {KeyOf(t)}
    /\ Goto(t, "notify")
    /\ UNCHANGED <<task, kinVars, boardVars, contextVars, registered>>

\* MetaEnableTask and MetaDisableTask call the modem extension; nothing of the
\* framework's state depends on its result.
MetaEnable(t) ==
    /\ At(t, "META_ENABLE", "run")
    /\ Goto(t, "remove")
    /\ UNCHANGED <<task, kinVars, boardVars, contextVars, hardwareVars>>

MetaDisable(t) ==
    /\ At(t, "META_DISABLE", "run")
    /\ Goto(t, "notify")
    /\ UNCHANGED <<task, kinVars, boardVars, contextVars, hardwareVars>>

\* Seeded fault: the child is not erased from unFinishChildrenTasks_.
NotifyFatherFinishNoErase(t) ==
    /\ pc[t] = "notify"
    /\ father[t] # NoTask
    /\ Goto(t, "remove")
    /\ UNCHANGED <<task, kinVars, boardVars, contextVars, hardwareVars>>

\* A child of an OffLineTask calls NotifyFatherFinish. It does not use its
\* father afterwards.
NotifyFatherFinish(t) ==
    /\ pc[t] = "notify"
    /\ father[t] # NoTask
    /\ unFinish' = [unFinish EXCEPT ![father[t]] = @ \ {t}]
    /\ father' = [father EXCEPT ![t] = NoTask]
    /\ Goto(t, "remove")
    /\ UNCHANGED <<task, todo, boardVars, contextVars, hardwareVars>>

\* A DisableTask created for a deleted capability has no father to notify.
NoFatherToNotify(t) ==
    /\ pc[t] = "notify"
    /\ father[t] = NoTask
    /\ Goto(t, "remove")
    /\ UNCHANGED <<task, kinVars, boardVars, contextVars, hardwareVars>>

\* Seeded fault: a leaf task returns without taking itself off the board.
FinishLeafOnBoard(t) ==
    /\ pc[t] = "remove"
    /\ task[t].type \notin {"ON_LINE", "OFF_LINE"}
    /\ Destroy(t)
    /\ UNCHANGED <<boardVars, contextVars, hardwareVars>>

\* The end of DoTaskInner of the four leaf tasks.
FinishLeaf(t) ==
    /\ pc[t] = "remove"
    /\ task[t].type \notin {"ON_LINE", "OFF_LINE"}
    /\ Destroy(t)
    /\ RemoveTask(t)
    /\ UNCHANGED <<taskQueue, eventQueue, handler, contextVars, hardwareVars>>

OnLineStep(t) ==
    \/ DoSyncInfo(t)
    \/ CreateEnableList(t)
    \/ CreateEnableTask(t)
    \/ CreateMetaEnableTask(t)
    \/ FinishOnLine(t)

OffLineStep(t) ==
    \/ CreateMetaDisableTask(t)
    \/ CreateDisableList(t)
    \/ CreateDisableTask(t)
    \/ WaitDisableTaskFinish(t)
    \/ ClearOffLineInfo(t)
    \/ RemoveOffLine(t)

LeafStep(t) ==
    \/ EnableSuccess(t)
    \/ EnableFail(t)
    \/ SaveEnabledDevice(t)
    \/ DisableSuccess(t)
    \/ DisableFail(t)
    \/ RemoveEnabledDevice(t)
    \/ MetaEnable(t)
    \/ MetaDisable(t)
    \/ NotifyFatherFinish(t)
    \/ NoFatherToNotify(t)
    \/ FinishLeaf(t)

TaskStep(t) == OnLineStep(t) \/ OffLineStep(t) \/ LeafStep(t)

-----------------------------------------------------------------------------
(* The environment *)

\* The children that a father may still create: one per DhId, and a META task,
\* which an OffLineTask creates first and an OnLineTask last.
ToCreate(i) ==
    {h \in DhId \cup {NoDh} :
        /\ pc[i] \in {"queued", "sync", "meta", "list", "create"}
        /\ task[i].type \in {"ON_LINE", "OFF_LINE"}
        /\ h = NoDh => task[i].type = "ON_LINE" \/ pc[i] \in {"queued", "meta"}
        /\ h # NoDh /\ pc[i] = "create" => h \in todo[i]}

\* A slot stays reserved for each of them, so that no father waits for a slot.
Reserved == UNION {{i} \X ToCreate(i) : i \in TaskId}

\* There is room for a new task that will have so many children.
Room(children) == Cardinality(FreeIds) > Cardinality(Reserved) + children

\* An ON_LINE or OFF_LINE task for a device.
SubmitDeviceTask(type, d) ==
    /\ Room(Cardinality(DhId) + 1)
    /\ CreateRootTask(type, d, NoDh)
    /\ UNCHANGED <<eventQueue, handler, contextVars, hardwareVars>>

\* An ENABLE or DISABLE task for one hardware, created by the handlers of
\* database changes under the lock of the map they change.
SubmitHardwareTask(type, d, h, caps, metas) ==
    /\ Room(0)
    /\ CreateRootTask(type, d, h)
    /\ capMem' = caps
    /\ metaMem' = metas
    /\ UNCHANGED <<eventQueue, handler, devIdEntrySet, compSource, hardwareVars>>

\* Devices come online, the cached capabilities change, the components are
\* loaded, or stopped together with the drivers they hold.
SetContext ==
    /\ devIdEntrySet' \in SUBSET Device
    /\ capMem' \in SUBSET Key
    /\ metaMem' \in SUBSET Key
    /\ compSource' \in BOOLEAN
    /\ registered' \in {registered, {}}
    /\ UNCHANGED <<objectVars, boardVars, enabledDevices>>

FlowEnvironment ==
    \/ \E type \in {"ON_LINE", "OFF_LINE"}, d \in Device : SubmitDeviceTask(type, d)
    \/ \E type \in {"ENABLE", "DISABLE"}, d \in Device, h \in DhId :
          \E caps, metas \in SUBSET Key : SubmitHardwareTask(type, d, h, caps, metas)
    \/ SetContext

-----------------------------------------------------------------------------
(* Specification *)

FlowInit ==
    /\ task = [i \in TaskId |-> NoTask]
    /\ pc = [i \in TaskId |-> "free"]
    /\ father = [i \in TaskId |-> NoTask]
    /\ unFinish = [i \in TaskId |-> {}]
    /\ todo = [i \in TaskId |-> {}]
    /\ tasks = {}
    /\ taskQueue = <<>>
    /\ eventQueue = <<>>
    /\ handler = NoTask
    /\ devIdEntrySet = {}
    /\ capMem = {}
    /\ metaMem = {}
    /\ compSource = FALSE
    /\ enabledDevices = {}
    /\ registered = {}

FlowNext ==
    \/ TriggerTask
    \/ DoTask
    \/ \E t \in TaskId : TaskStep(t) \/ FinishOffLine(t)
    \/ FlowEnvironment

FlowSpec == FlowInit /\ [][FlowNext]_flowVars

-----------------------------------------------------------------------------
(* Properties *)

\* The states of a task whose DoTask or DoTaskInner may still use the object.
Alive(i) == pc[i] \notin {"free", "exit"}

\* A task is on the board exactly while it waits or runs. The board holds the
\* only strong reference to a task that ffrt runs through a raw this, so a
\* task that left the board early would run on a destroyed object; and
\* IsAllTaskFinish, which decides whether the framework may release its
\* resources, is right only if every task that may still act is counted.
BoardKeepsTasksAlive == \A i \in TaskId : i \in tasks <=> Alive(i)

\* An OffLineTask that is past WaitDisableTaskFinish has no child left that
\* still unregisters hardware: the children it knows and the children that
\* know it are the same, and none is left when it forgets the device.
FatherWaitsForChildren ==
    \A f, c \in TaskId :
        /\ c \in unFinish[f] <=> father[c] = f
        /\ father[c] = f => At(f, "OFF_LINE", "list") \/ At(f, "OFF_LINE", "create")

\* A task waits in at most one place of the two queues, and no task in a queue
\* already runs: no DoTask is called twice on one object.
QueuedOnce ==
    /\ \A i \in 1 .. Len(taskQueue) : pc[taskQueue[i]] = "queued"
    /\ \A i \in 1 .. Len(eventQueue) : pc[eventQueue[i]] = "queued"
    /\ \A i, j \in 1 .. Len(taskQueue) : taskQueue[i] = taskQueue[j] => i = j
    /\ \A i, j \in 1 .. Len(eventQueue) : eventQueue[i] = eventQueue[j] => i = j
    /\ \A i \in 1 .. Len(taskQueue), j \in 1 .. Len(eventQueue) :
          taskQueue[i] # eventQueue[j]

\* The handler thread runs at most one OnLineTask, the one it is blocked on.
OneOnLineTaskRuns ==
    \A i \in TaskId :
        (pc[i] \notin {"free", "queued"} /\ task[i].type = "ON_LINE") <=> handler = i

\* Every task that is created is eventually done, an OffLineTask with all its
\* children included, as long as the queue does not overflow.
EveryTaskFinishes == \A t \in TaskId : pc[t] # "free" ~> pc[t] = "free"

\* The parts of the inductive invariant that are not properties themselves: a
\* slot is used while its step says so, and a child that its father still
\* waits for is a DISABLE or META_DISABLE task that has not notified yet.
SlotsUsed == \A i \in TaskId : pc[i] = "free" <=> task[i] = NoTask

ChildrenUnfinished ==
    \A c \in TaskId :
        father[c] # NoTask => /\ pc[c] \in {"queued", "run", "erase", "notify"}
                              /\ task[c].type \in {"DISABLE", "META_DISABLE"}

\* The inductive invariant: together these are preserved by every step of the
\* task subsystem.
FlowInv ==
    /\ TypeOK
    /\ SlotsUsed
    /\ BoardKeepsTasksAlive
    /\ FatherWaitsForChildren
    /\ ChildrenUnfinished
    /\ QueuedOnce
    /\ OneOnLineTaskRuns
=============================================================================
