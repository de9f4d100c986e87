---------------------------- MODULE DHFwkProofs ----------------------------
(***************************************************************************)
(* Proofs about the tasks of the service, for any number of devices,       *)
(* hardware, tasks and threads, any length of the queues and any pace of   *)
(* the environment.                                                        *)
(*                                                                         *)
(* The first part is about the task subsystem alone (module TaskFlow):     *)
(* every step of it preserves FlowInv. The steps fall into five shapes,    *)
(* and one lemma treats the invariant for each shape: a task moves to its  *)
(* next step (StepKeeps), a child notifies its father (NotifyKeeps), a     *)
(* task is created (RootKeeps, the children OnLineChildKeeps and           *)
(* OffLineChildKeeps), a task ends (EndKeeps) and a task moves through the *)
(* queues (TriggerKeeps, DoTaskKeeps).                                     *)
(*                                                                         *)
(* The second part is about the whole service (module DHFwk), which drives *)
(* its tasks as TaskFlow says: every step of a thread of the service is a  *)
(* step of the task subsystem, or of its environment, or leaves the tasks  *)
(* alone. What the first part establishes therefore holds of the service.  *)
(*                                                                         *)
(* The third part follows the capability cache (CacheInv), at any pace: a  *)
(* device loses its entry only to its OffLineTask, whose next step clears  *)
(* the cache, and the handlers of the databases look the entry up in the   *)
(* step that fills the cache.                                              *)
(*                                                                         *)
(* The fourth part compares the two records of who is online, the entries  *)
(* and the real-time set (EntryIsCounted): a thread or an OffLineTask      *)
(* stands for every device that has the one and is not in the other.       *)
(***************************************************************************)
EXTENDS DHFwk, TLAPS

\* The invariant without the types: the part in which the steps interact.
KinInv ==
    /\ SlotsUsed
    /\ BoardKeepsTasksAlive
    /\ FatherWaitsForChildren
    /\ ChildrenUnfinished
    /\ QueuedOnce
    /\ OneOnLineTaskRuns

\* A task that moves on without ending, being queued or leaving the board.
InnerStep == Step \ {"free", "queued", "exit"}

\* A slot that FreshId returns is a slot, and not in use.
LEMMA FreshIdIsFree ==
    ASSUME FreeIds # {}
    PROVE  FreshId \in TaskId /\ pc[FreshId] = "free"
  BY DEF FreeIds, FreshId

-----------------------------------------------------------------------------
(* The shapes of steps *)

\* A task that moves from one of its steps to the next keeps the invariant, if
\* it leaves "list" and "create" only without children, and a child stays
\* within the steps before its notification.
LEMMA StepKeeps ==
    ASSUME FlowInv,
           NEW t \in TaskId, NEW step \in InnerStep,
           pc[t] \in InnerStep,
           pc' = [pc EXCEPT ![t] = step],
           (step \in {"list", "create"} /\ pc[t] \in {"list", "create"}) \/ unFinish[t] = {},
           father[t] = NoTask \/ step \in {"run", "erase", "notify"},
           UNCHANGED <<task, father, unFinish, tasks, taskQueue, eventQueue, handler>>
    PROVE  KinInv'
  <1>1. SlotsUsed'
    BY DEF FlowInv, TypeOK, SlotsUsed, InnerStep
  <1>2. BoardKeepsTasksAlive'
    BY DEF FlowInv, TypeOK, BoardKeepsTasksAlive, Alive, InnerStep
  <1>3. FatherWaitsForChildren'
    BY DEF FlowInv, TypeOK, FatherWaitsForChildren, At, InnerStep
  <1>4. ChildrenUnfinished'
    BY DEF FlowInv, TypeOK, ChildrenUnfinished, InnerStep
  <1>5. QueuedOnce'
    BY DEF FlowInv, TypeOK, QueuedOnce, InnerStep
  <1>6. OneOnLineTaskRuns'
    BY DEF FlowInv, TypeOK, OneOnLineTaskRuns, InnerStep
  <1> QED BY <1>1, <1>2, <1>3, <1>4, <1>5, <1>6 DEF KinInv

\* NotifyFatherFinish removes the child from its father's set and the father
\* from the child, together.
LEMMA NotifyKeeps ==
    ASSUME FlowInv, NEW t \in TaskId, NotifyFatherFinish(t)
    PROVE  KinInv'
  <1> USE DEF NotifyFatherFinish, Goto, boardVars
  <1>1. SlotsUsed'
    BY DEF FlowInv, TypeOK, SlotsUsed
  <1>2. BoardKeepsTasksAlive'
    BY DEF FlowInv, TypeOK, BoardKeepsTasksAlive, Alive
  <1>3. FatherWaitsForChildren'
    <2> SUFFICES ASSUME NEW f \in TaskId, NEW c \in TaskId
                 PROVE  /\ c \in unFinish'[f] <=> father'[c] = f
                        /\ father'[c] = f => At(f, "OFF_LINE", "list")' \/ At(f, "OFF_LINE", "create")'
      BY DEF FatherWaitsForChildren
    <2>1. father[t] \in TaskId /\ t \in unFinish[father[t]]
      BY DEF FlowInv, TypeOK, FatherWaitsForChildren
    <2>2. father[t] # t
      BY <2>1 DEF FlowInv, TypeOK, FatherWaitsForChildren, At
    <2>3. c \in unFinish'[f] <=> father'[c] = f
      BY <2>1, TaskFlowAssumption DEF FlowInv, TypeOK, FatherWaitsForChildren
    <2>4. ASSUME father'[c] = f
          PROVE  At(f, "OFF_LINE", "list")' \/ At(f, "OFF_LINE", "create")'
      <3>1. father[c] = f /\ c # t
        BY <2>4, TaskFlowAssumption DEF FlowInv, TypeOK
      <3>2. At(f, "OFF_LINE", "list") \/ At(f, "OFF_LINE", "create")
        BY <3>1 DEF FlowInv, FatherWaitsForChildren
      <3>3. f # t
        BY <3>2 DEF At
      <3> QED BY <3>2, <3>3 DEF At, FlowInv, TypeOK
    <2> QED BY <2>3, <2>4
  <1>4. ChildrenUnfinished'
    BY DEF FlowInv, TypeOK, ChildrenUnfinished
  <1>5. QueuedOnce'
    BY DEF FlowInv, TypeOK, QueuedOnce
  <1>6. OneOnLineTaskRuns'
    BY DEF FlowInv, TypeOK, OneOnLineTaskRuns
  <1> QED BY <1>1, <1>2, <1>3, <1>4, <1>5, <1>6 DEF KinInv

-----------------------------------------------------------------------------
(* Creating a task *)

\* PushTask of a task that waits nowhere keeps the queues free of duplicates,
\* whether the task is queued or dropped. The pushed task is marked queued,
\* and the step of no waiting task changes.
LEMMA PushKeeps ==
    ASSUME TypeOK, QueuedOnce, NEW id \in TaskId, pc[id] = "free",
           pc'[id] = "queued", UNCHANGED eventQueue, PushTask(id),
           \A i \in TaskId : pc[i] = "queued" => pc'[i] = "queued"
    PROVE  QueuedOnce' /\ taskQueue' \in Seq(TaskId)
  <1>1. CASE Len(taskQueue) > MaxTaskQueueLength
    <2>1. taskQueue' = taskQueue /\ eventQueue' = eventQueue
      BY <1>1 DEF PushTask
    <2>2. /\ \A i \in 1 .. Len(taskQueue) : taskQueue[i] \in TaskId
          /\ \A i \in 1 .. Len(eventQueue) : eventQueue[i] \in TaskId
      BY DEF TypeOK
    <2>3. /\ \A i \in 1 .. Len(taskQueue) : pc'[taskQueue[i]] = "queued"
          /\ \A i \in 1 .. Len(eventQueue) : pc'[eventQueue[i]] = "queued"
      BY <2>2 DEF QueuedOnce
    <2>4. QueuedOnce'
      BY <2>1, <2>3 DEF QueuedOnce
    <2> QED BY <2>1, <2>4 DEF TypeOK
  <1>2. CASE ~(Len(taskQueue) > MaxTaskQueueLength)
    <2>1. taskQueue' = Append(taskQueue, id)
      BY <1>2 DEF PushTask
    <2>2. taskQueue' \in Seq(TaskId) /\ Len(taskQueue') = Len(taskQueue) + 1
      BY <2>1 DEF TypeOK
    <2>3. \A i \in 1 .. Len(taskQueue') :
             taskQueue'[i] = IF i <= Len(taskQueue) THEN taskQueue[i] ELSE id
      BY <2>1 DEF TypeOK
    <2>4. \A i \in 1 .. Len(taskQueue) : taskQueue[i] \in TaskId /\ taskQueue[i] # id
      BY DEF TypeOK, QueuedOnce
    <2>5. \A i \in 1 .. Len(eventQueue) : eventQueue[i] \in TaskId /\ eventQueue[i] # id
      BY DEF TypeOK, QueuedOnce
    <2>6. Len(taskQueue) \in Nat
      BY DEF TypeOK
    <2> DEFINE n == Len(taskQueue)
               q(i) == taskQueue'[i]
    <2>7. \A i \in 1 .. n + 1 : q(i) \in TaskId /\ pc'[q(i)] = "queued"
      BY <2>2, <2>3, <2>4, <2>6 DEF QueuedOnce
    <2>8. \A i, j \in 1 .. n + 1 : q(i) = q(j) => i = j
      BY <2>2, <2>3, <2>4, <2>6 DEF QueuedOnce
    <2>9. \A i \in 1 .. n + 1, j \in 1 .. Len(eventQueue) : q(i) # eventQueue[j]
      BY <2>2, <2>3, <2>4, <2>5, <2>6 DEF QueuedOnce
    <2>10. \A j \in 1 .. Len(eventQueue) : pc'[eventQueue[j]] = "queued"
      BY <2>5 DEF QueuedOnce
    <2> HIDE DEF n
    <2>11. Len(taskQueue') = n + 1
      BY <2>2 DEF n
    <2> QED BY <2>2, <2>7, <2>8, <2>9, <2>10, <2>11 DEF QueuedOnce
  <1> QED BY <1>1, <1>2

\* A root task.
LEMMA RootKeeps ==
    ASSUME FlowInv, NEW type \in TaskType, NEW d \in Device, NEW h,
           [type |-> type, dev |-> d, dh |-> h] \in TaskParam,
           CreateRootTask(type, d, h), UNCHANGED <<eventQueue, handler>>
    PROVE  KinInv'
  <1> DEFINE id == FreshId
  <1>0. /\ id \in TaskId /\ pc[id] = "free"
        /\ task' = [task EXCEPT ![id] = [type |-> type, dev |-> d, dh |-> h]]
        /\ pc' = [pc EXCEPT ![id] = "queued"]
        /\ tasks' = tasks \cup {id}
        /\ PushTask(id)
        /\ UNCHANGED <<father, unFinish>>
    BY FreshIdIsFree DEF CreateRootTask, Goto, AddTask, kinVars
  <1>p. [type |-> type, dev |-> d, dh |-> h] # NoTask
    BY TaskFlowAssumption
  <1> HIDE DEF id
  <1>1. SlotsUsed'
    BY <1>0, <1>p DEF FlowInv, TypeOK, SlotsUsed
  <1>2. BoardKeepsTasksAlive'
    BY <1>0 DEF FlowInv, TypeOK, BoardKeepsTasksAlive, Alive
  <1>3. FatherWaitsForChildren'
    BY <1>0 DEF FlowInv, TypeOK, FatherWaitsForChildren, At
  <1>4. ChildrenUnfinished'
    BY <1>0 DEF FlowInv, TypeOK, ChildrenUnfinished
  <1>5. QueuedOnce'
    BY <1>0, PushKeeps DEF FlowInv, TypeOK
  <1>6. OneOnLineTaskRuns'
    BY <1>0 DEF FlowInv, TypeOK, OneOnLineTaskRuns
  <1> QED BY <1>1, <1>2, <1>3, <1>4, <1>5, <1>6 DEF KinInv

\* A child of an OnLineTask, which no task waits for.
LEMMA OnLineChildKeeps ==
    ASSUME FlowInv, NEW t \in TaskId, NEW type \in TaskType, NEW h,
           [type |-> type, dev |-> task[t].dev, dh |-> h] \in TaskParam,
           NEW step \in InnerStep, NEW rest, At(t, "ON_LINE", "create"),
           CreateChildOfOnLine(t, type, h, step, rest), UNCHANGED <<eventQueue, handler>>
    PROVE  KinInv'
  <1> DEFINE id == FreshId
  <1> DEFINE param == [type |-> type, dev |-> task[t].dev, dh |-> h]
  <1>0. /\ id \in TaskId /\ pc[id] = "free"
        /\ task' = [task EXCEPT ![id] = param]
        /\ pc' = [pc EXCEPT ![id] = "queued", ![t] = step]
        /\ tasks' = tasks \cup {id}
        /\ PushTask(id)
        /\ UNCHANGED <<father, unFinish>>
    BY FreshIdIsFree DEF CreateChildOfOnLine, AddTask
  <1>t. /\ pc[t] = "create" /\ task[t].type = "ON_LINE" /\ t # id
        /\ task[t] \in TaskParam
    BY <1>0 DEF At, FlowInv, TypeOK, SlotsUsed
  <1>p. param # NoTask /\ param.type = type
    BY TaskFlowAssumption
  <1>f. father[t] = NoTask
    BY <1>t DEF FlowInv, TypeOK, ChildrenUnfinished
  <1> HIDE DEF id, param
  <1>1. SlotsUsed'
    BY <1>0, <1>p, <1>t DEF FlowInv, TypeOK, SlotsUsed, InnerStep
  <1>2. BoardKeepsTasksAlive'
    BY <1>0, <1>t DEF FlowInv, TypeOK, BoardKeepsTasksAlive, Alive, InnerStep
  <1>3. FatherWaitsForChildren'
    BY <1>0, <1>t DEF FlowInv, TypeOK, FatherWaitsForChildren, At
  <1>4. ChildrenUnfinished'
    BY <1>0, <1>t, <1>f DEF FlowInv, TypeOK, ChildrenUnfinished
  <1>5. QueuedOnce'
    BY <1>0, <1>t, PushKeeps DEF FlowInv, TypeOK
  <1>6. OneOnLineTaskRuns'
    BY <1>0, <1>t DEF FlowInv, TypeOK, OneOnLineTaskRuns, InnerStep
  <1> QED BY <1>1, <1>2, <1>3, <1>4, <1>5, <1>6 DEF KinInv

\* A child of an OffLineTask joins the set its father waits for.
LEMMA OffLineChildKeeps ==
    ASSUME FlowInv, NEW t \in TaskId, NEW type \in {"DISABLE", "META_DISABLE"},
           NEW h, NEW step \in {"list", "create"}, NEW rest,
           [type |-> type, dev |-> task[t].dev, dh |-> h] \in TaskParam,
           task[t].type = "OFF_LINE", pc[t] \in {"meta", "create"},
           CreateChildOfOffLine(t, type, h, step, rest), UNCHANGED <<eventQueue, handler>>
    PROVE  KinInv'
  <1> DEFINE id == FreshId
  <1> DEFINE param == [type |-> type, dev |-> task[t].dev, dh |-> h]
  <1>0. /\ id \in TaskId /\ pc[id] = "free"
        /\ task' = [task EXCEPT ![id] = param]
        /\ pc' = [pc EXCEPT ![id] = "queued", ![t] = step]
        /\ father' = [father EXCEPT ![id] = t]
        /\ unFinish' = [unFinish EXCEPT ![t] = @ \cup {id}]
        /\ tasks' = tasks \cup {id}
        /\ PushTask(id)
    BY FreshIdIsFree DEF CreateChildOfOffLine, AddTask
  <1>t. t # id /\ task[t] \in TaskParam
    BY <1>0 DEF FlowInv, TypeOK, SlotsUsed
  <1>p. param # NoTask /\ param.type = type
    BY TaskFlowAssumption
  <1>f. father[id] = NoTask /\ father[t] = NoTask
    BY <1>0, <1>t DEF FlowInv, TypeOK, ChildrenUnfinished
  <1>g. \A f \in TaskId : id \notin unFinish[f] /\ father[f] # id
    <2> HIDE DEF id, param
    <2>1. \A f \in TaskId : id \notin unFinish[f]
      BY <1>0, <1>f, TaskFlowAssumption DEF FlowInv, TypeOK, FatherWaitsForChildren, At
    <2>2. \A f \in TaskId : father[f] # id
      BY <1>0, <1>f, TaskFlowAssumption DEF FlowInv, TypeOK, FatherWaitsForChildren, At
    <2> QED
      BY <2>1, <2>2
  <1> HIDE DEF id, param
  <1>1. SlotsUsed'
    BY <1>0, <1>p, <1>t DEF FlowInv, TypeOK, SlotsUsed
  <1>2. BoardKeepsTasksAlive'
    BY <1>0, <1>t DEF FlowInv, TypeOK, BoardKeepsTasksAlive, Alive
  <1>3. FatherWaitsForChildren'
    BY <1>0, <1>t, <1>g DEF FlowInv, TypeOK, FatherWaitsForChildren, At
  <1>4. ChildrenUnfinished'
    BY <1>0, <1>t, <1>p, <1>f DEF FlowInv, TypeOK, ChildrenUnfinished
  <1>5. QueuedOnce'
    BY <1>0, <1>t, PushKeeps DEF FlowInv, TypeOK
  <1>6. OneOnLineTaskRuns'
    BY <1>0, <1>t, <1>p DEF FlowInv, TypeOK, OneOnLineTaskRuns
  <1> QED BY <1>1, <1>2, <1>3, <1>4, <1>5, <1>6 DEF KinInv

-----------------------------------------------------------------------------
(* Ending a task, and the queues *)

\* A task that leaves the board and is destroyed: it is no father any more, and
\* it has no father that waits for it.
LEMMA EndKeeps ==
    ASSUME FlowInv, NEW t \in TaskId, pc[t] = "remove", Destroy(t), RemoveTask(t),
           UNCHANGED <<taskQueue, eventQueue>>,
           \/ task[t].type = "ON_LINE" /\ handler' = NoTask
           \/ task[t].type # "ON_LINE" /\ UNCHANGED handler
    PROVE  KinInv'
  <1> USE DEF Destroy, RemoveTask, Goto, kinVars
  <1>1. SlotsUsed'
    BY DEF FlowInv, TypeOK, SlotsUsed
  <1>2. BoardKeepsTasksAlive'
    BY DEF FlowInv, TypeOK, BoardKeepsTasksAlive, Alive
  <1>3. FatherWaitsForChildren'
    BY DEF FlowInv, TypeOK, FatherWaitsForChildren, At
  <1>4. ChildrenUnfinished'
    BY DEF FlowInv, TypeOK, ChildrenUnfinished
  <1>5. QueuedOnce'
    BY DEF FlowInv, TypeOK, QueuedOnce
  <1>6. OneOnLineTaskRuns'
    BY TaskFlowAssumption DEF FlowInv, TypeOK, OneOnLineTaskRuns
  <1> QED BY <1>1, <1>2, <1>3, <1>4, <1>5, <1>6 DEF KinInv

\* An OffLineTask leaves the board but goes on to its tail.
LEMMA RemoveOffLineKeeps ==
    ASSUME FlowInv, NEW t \in TaskId, RemoveOffLine(t)
    PROVE  KinInv'
  <1> USE DEF RemoveOffLine, RemoveTask, Goto, At, kinVars
  <1>1. SlotsUsed'
    BY DEF FlowInv, TypeOK, SlotsUsed
  <1>2. BoardKeepsTasksAlive'
    BY DEF FlowInv, TypeOK, BoardKeepsTasksAlive, Alive
  <1>3. FatherWaitsForChildren'
    BY DEF FlowInv, TypeOK, FatherWaitsForChildren
  <1>4. ChildrenUnfinished'
    BY DEF FlowInv, TypeOK, ChildrenUnfinished
  <1>5. QueuedOnce'
    BY DEF FlowInv, TypeOK, QueuedOnce
  <1>6. OneOnLineTaskRuns'
    BY DEF FlowInv, TypeOK, OneOnLineTaskRuns
  <1> QED BY <1>1, <1>2, <1>3, <1>4, <1>5, <1>6 DEF KinInv

\* The tail of an OffLineTask ends.
LEMMA FinishOffLineKeeps ==
    ASSUME FlowInv, NEW t \in TaskId, FinishOffLine(t)
    PROVE  KinInv'
  <1> USE DEF FinishOffLine, Destroy, Goto, At, kinVars, boardVars
  <1>1. SlotsUsed'
    BY DEF FlowInv, TypeOK, SlotsUsed
  <1>2. BoardKeepsTasksAlive'
    BY DEF FlowInv, TypeOK, BoardKeepsTasksAlive, Alive
  <1>3. FatherWaitsForChildren'
    BY DEF FlowInv, TypeOK, FatherWaitsForChildren
  <1>4. ChildrenUnfinished'
    BY DEF FlowInv, TypeOK, ChildrenUnfinished
  <1>5. QueuedOnce'
    BY DEF FlowInv, TypeOK, QueuedOnce
  <1>6. OneOnLineTaskRuns'
    BY DEF FlowInv, TypeOK, OneOnLineTaskRuns
  <1> QED BY <1>1, <1>2, <1>3, <1>4, <1>5, <1>6 DEF KinInv

\* TriggerTask moves the front of one queue to the back of the other.
LEMMA TriggerKeeps ==
    ASSUME FlowInv, TriggerTask
    PROVE  KinInv' /\ taskQueue' \in Seq(TaskId) /\ eventQueue' \in Seq(TaskId)
  <1> DEFINE n == Len(taskQueue)
             m == Len(eventQueue)
  <1>1. /\ taskQueue \in Seq(TaskId) /\ eventQueue \in Seq(TaskId) /\ taskQueue # <<>>
        /\ taskQueue' = Tail(taskQueue)
        /\ eventQueue' = Append(eventQueue, Head(taskQueue))
        /\ UNCHANGED <<task, pc, father, unFinish, tasks, handler>>
    BY DEF FlowInv, TypeOK, TriggerTask, objectVars, kinVars
  <1>2. n \in Nat /\ m \in Nat /\ n > 0 /\ Head(taskQueue) = taskQueue[1]
    BY <1>1
  <1>3. /\ taskQueue' \in Seq(TaskId) /\ Len(taskQueue') = n - 1
        /\ \A i \in 1 .. n - 1 : taskQueue'[i] = taskQueue[i + 1]
    BY <1>1, <1>2
  <1>4. /\ eventQueue' \in Seq(TaskId) /\ Len(eventQueue') = m + 1
        /\ \A i \in 1 .. m + 1 : eventQueue'[i] = IF i <= m THEN eventQueue[i] ELSE taskQueue[1]
    BY <1>1, <1>2
  <1>5. QueuedOnce'
    <2>1. \A i \in 1 .. n : pc[taskQueue[i]] = "queued"
      BY DEF FlowInv, QueuedOnce
    <2>2. \A i \in 1 .. m : pc[eventQueue[i]] = "queued"
      BY DEF FlowInv, QueuedOnce
    <2>3. \A i, j \in 1 .. n : taskQueue[i] = taskQueue[j] => i = j
      BY DEF FlowInv, QueuedOnce
    <2>4. \A i, j \in 1 .. m : eventQueue[i] = eventQueue[j] => i = j
      BY DEF FlowInv, QueuedOnce
    <2>5. \A i \in 1 .. n, j \in 1 .. m : taskQueue[i] # eventQueue[j]
      BY DEF FlowInv, QueuedOnce
    <2> HIDE DEF n, m
    <2>6. \A i \in 1 .. n - 1 : pc[taskQueue'[i]] = "queued"
      BY <1>2, <1>3, <2>1
    <2>7. \A i \in 1 .. m + 1 : pc[eventQueue'[i]] = "queued"
      BY <1>2, <1>4, <2>1, <2>2
    <2>8. \A i, j \in 1 .. n - 1 : taskQueue'[i] = taskQueue'[j] => i = j
      BY <1>2, <1>3, <2>3
    <2>9. \A i, j \in 1 .. m + 1 : eventQueue'[i] = eventQueue'[j] => i = j
      BY <1>2, <1>4, <2>4, <2>5
    <2>10. ASSUME NEW i \in 1 .. n - 1, NEW j \in 1 .. m + 1
           PROVE  taskQueue'[i] # eventQueue'[j]
      <3>1. taskQueue'[i] = taskQueue[i + 1] /\ i + 1 \in 1 .. n /\ i + 1 # 1 /\ 1 \in 1 .. n
        BY <1>2, <1>3
      <3>2. CASE j \in 1 .. m
        <4>1. eventQueue'[j] = eventQueue[j]
          BY <1>2, <1>4, <3>2
        <4> QED BY <2>5, <3>1, <3>2, <4>1
      <3>3. CASE j = m + 1
        <4>1. eventQueue'[j] = taskQueue[1]
          BY <1>2, <1>4, <3>3
        <4> QED BY <2>3, <3>1, <4>1
      <3> QED BY <1>2, <3>2, <3>3
    <2>11. Len(taskQueue') = n - 1 /\ Len(eventQueue') = m + 1 /\ pc' = pc
      BY <1>1, <1>3, <1>4
    <2>12. \A i \in 1 .. Len(taskQueue') : pc'[taskQueue'[i]] = "queued"
      BY <2>6, <2>11
    <2>13. \A i \in 1 .. Len(eventQueue') : pc'[eventQueue'[i]] = "queued"
      BY <2>7, <2>11
    <2>14. /\ \A i, j \in 1 .. Len(taskQueue') : taskQueue'[i] = taskQueue'[j] => i = j
           /\ \A i, j \in 1 .. Len(eventQueue') : eventQueue'[i] = eventQueue'[j] => i = j
           /\ \A i \in 1 .. Len(taskQueue'), j \in 1 .. Len(eventQueue') :
                 taskQueue'[i] # eventQueue'[j]
      BY <2>8, <2>9, <2>10, <2>11
    <2> QED BY <2>12, <2>13, <2>14 DEF QueuedOnce
  <1>6. SlotsUsed' /\ BoardKeepsTasksAlive' /\ FatherWaitsForChildren' /\ ChildrenUnfinished'
        /\ OneOnLineTaskRuns'
    BY <1>1 DEF FlowInv, SlotsUsed, BoardKeepsTasksAlive, Alive, FatherWaitsForChildren, At,
                ChildrenUnfinished, OneOnLineTaskRuns
  <1> QED BY <1>3, <1>4, <1>5, <1>6 DEF KinInv

\* DoTask takes the front of the handler's queue; the task starts its first
\* step and waits nowhere any more.
LEMMA DoTaskKeeps ==
    ASSUME FlowInv, DoTask
    PROVE  KinInv' /\ eventQueue' \in Seq(TaskId) /\ pc' \in [TaskId -> Step]
           /\ handler' \in TaskId \cup {NoTask}
  <1> DEFINE t == Head(eventQueue)
             m == Len(eventQueue)
             first == FirstStep(task[t].type)
  <1>1. /\ eventQueue \in Seq(TaskId) /\ eventQueue # <<>> /\ handler = NoTask
        /\ taskQueue \in Seq(TaskId)
        /\ eventQueue' = Tail(eventQueue)
        /\ pc' = [pc EXCEPT ![t] = first]
        /\ handler' = IF task[t].type = "ON_LINE" THEN t ELSE NoTask
        /\ UNCHANGED <<task, father, unFinish, tasks, taskQueue>>
    BY DEF FlowInv, TypeOK, DoTask, Goto, kinVars
  <1>2. m \in Nat /\ m > 0 /\ t = eventQueue[1] /\ t \in TaskId
    BY <1>1
  <1>3. /\ eventQueue' \in Seq(TaskId) /\ Len(eventQueue') = m - 1
        /\ \A i \in 1 .. m - 1 : eventQueue'[i] = eventQueue[i + 1]
    BY <1>1, <1>2
  <1>4. pc[t] = "queued"
    BY <1>2 DEF FlowInv, QueuedOnce
  <1>5. task[t] \in TaskParam
    BY <1>2, <1>4 DEF FlowInv, TypeOK, SlotsUsed
  <1>6. /\ first \in {"sync", "meta", "run"}
        /\ task[t].type \in {"DISABLE", "META_DISABLE"} => first = "run"
    BY <1>5 DEF FirstStep
  <1>7. QueuedOnce'
    <2>1. \A i \in 1 .. Len(taskQueue) : taskQueue[i] \in TaskId /\ taskQueue[i] # t
      BY <1>1, <1>2 DEF FlowInv, QueuedOnce
    <2>2. \A i \in 1 .. m - 1 : eventQueue[i + 1] \in TaskId /\ eventQueue[i + 1] # t
      BY <1>1, <1>2 DEF FlowInv, QueuedOnce
    <2>3. \A i \in 1 .. Len(taskQueue) : pc'[taskQueue[i]] = "queued"
      BY <1>1, <2>1 DEF FlowInv, TypeOK, QueuedOnce
    <2>4. \A i \in 1 .. m - 1 : pc'[eventQueue'[i]] = "queued"
      <3>1. \A i \in 1 .. m : pc[eventQueue[i]] = "queued"
        BY DEF FlowInv, QueuedOnce
      <3>2. \A i \in 1 .. m - 1 : pc[eventQueue[i + 1]] = "queued"
        BY <1>2, <3>1
      <3> QED BY <1>1, <1>3, <2>2, <3>2 DEF FlowInv, TypeOK
    <2>5. \A i, j \in 1 .. m - 1 : eventQueue'[i] = eventQueue'[j] => i = j
      <3>1. \A i, j \in 1 .. m : eventQueue[i] = eventQueue[j] => i = j
        BY DEF FlowInv, QueuedOnce
      <3> HIDE DEF m
      <3> QED BY <1>2, <1>3, <3>1
    <2>6. \A i \in 1 .. Len(taskQueue), j \in 1 .. m - 1 : taskQueue[i] # eventQueue'[j]
      <3>1. \A i \in 1 .. Len(taskQueue), j \in 1 .. m : taskQueue[i] # eventQueue[j]
        BY DEF FlowInv, QueuedOnce
      <3> HIDE DEF m
      <3> QED BY <1>2, <1>3, <3>1
    <2>7. \A i, j \in 1 .. Len(taskQueue) : taskQueue[i] = taskQueue[j] => i = j
      BY DEF FlowInv, QueuedOnce
    <2> HIDE DEF t, m, first
    <2>8. taskQueue' = taskQueue /\ Len(eventQueue') = m - 1
      BY <1>1, <1>3
    <2>9. \A i \in 1 .. Len(taskQueue') : pc'[taskQueue'[i]] = "queued"
      BY <2>3, <2>8
    <2>10. \A i \in 1 .. Len(eventQueue') : pc'[eventQueue'[i]] = "queued"
      BY <2>4, <2>8
    <2>11. \A i, j \in 1 .. Len(taskQueue') : taskQueue'[i] = taskQueue'[j] => i = j
      BY <2>7, <2>8
    <2>12. \A i, j \in 1 .. Len(eventQueue') : eventQueue'[i] = eventQueue'[j] => i = j
      BY <2>5, <2>8
    <2>13. \A i \in 1 .. Len(taskQueue'), j \in 1 .. Len(eventQueue') :
              taskQueue'[i] # eventQueue'[j]
      BY <2>6, <2>8
    <2> QED BY <2>9, <2>10, <2>11, <2>12, <2>13 DEF QueuedOnce
  <1> HIDE DEF t, first
  <1>8. SlotsUsed'
    BY <1>1, <1>2, <1>4, <1>6 DEF FlowInv, TypeOK, SlotsUsed
  <1>9. BoardKeepsTasksAlive'
    BY <1>1, <1>2, <1>4, <1>6 DEF FlowInv, TypeOK, BoardKeepsTasksAlive, Alive
  <1>10. FatherWaitsForChildren'
    BY <1>1, <1>2, <1>4, <1>6 DEF FlowInv, TypeOK, FatherWaitsForChildren, At
  <1>11. ChildrenUnfinished'
    BY <1>1, <1>2, <1>4, <1>6 DEF FlowInv, TypeOK, ChildrenUnfinished
  <1>12. OneOnLineTaskRuns'
    BY <1>1, <1>2, <1>4, <1>6, TaskFlowAssumption DEF FlowInv, TypeOK, OneOnLineTaskRuns
  <1>13. pc' \in [TaskId -> Step] /\ handler' \in TaskId \cup {NoTask}
    BY <1>1, <1>2, <1>6 DEF FlowInv, TypeOK, Step
  <1> QED BY <1>3, <1>7, <1>8, <1>9, <1>10, <1>11, <1>12, <1>13 DEF KinInv

-----------------------------------------------------------------------------
(* The invariant *)

\* The device of a task that runs is a device.
LEMMA TaskHasParam ==
    ASSUME FlowInv, NEW t \in TaskId, pc[t] # "free"
    PROVE  task[t] \in TaskParam /\ task[t].dev \in Device
  <1>1. task[t] \in TaskParam
    BY DEF FlowInv, TypeOK, SlotsUsed
  <1> QED BY <1>1 DEF TaskParam

\* Creating a task keeps the types.
LEMMA CreateKeepsTypes ==
    ASSUME FlowInv, FreeIds # {}, NEW param \in TaskParam, NEW f \in TaskId,
           NEW step \in Step,
           task' = [task EXCEPT ![FreshId] = param],
           pc' = [pc EXCEPT ![FreshId] = "queued", ![f] = step],
           AddTask(FreshId), PushTask(FreshId)
    PROVE  /\ task' \in [TaskId -> TaskParam \cup {NoTask}]
           /\ pc' \in [TaskId -> Step]
           /\ tasks' \subseteq TaskId
           /\ taskQueue' \in Seq(TaskId)
  <1>1. FreshId \in TaskId
    BY FreshIdIsFree
  <1> QED BY <1>1 DEF FlowInv, TypeOK, Step, AddTask, PushTask

\* Every step of an OnLineTask keeps the invariant.
LEMMA OnLineStepKeeps ==
    ASSUME FlowInv, NEW t \in TaskId, OnLineStep(t)
    PROVE  FlowInv'
  <1> USE DEF boardVars, contextVars, hardwareVars
  <1>0. task[t].type = "ON_LINE" /\ pc[t] # "free"
    BY DEF OnLineStep, DoSyncInfo, CreateEnableList, CreateEnableTask, CreateMetaEnableTask,
           FinishOnLine, At
  <1>p. task[t] \in TaskParam /\ task[t].dev \in Device
    BY <1>0, TaskHasParam
  <1>k. father[t] = NoTask /\ unFinish[t] = {}
    BY <1>0 DEF FlowInv, TypeOK, ChildrenUnfinished, FatherWaitsForChildren, At
  <1>1. CASE DoSyncInfo(t)
    <2>1. KinInv'
      BY <1>1, <1>k, StepKeeps DEF DoSyncInfo, At, Goto, kinVars, InnerStep, Step
    <2>2. TypeOK'
      BY <1>1, <1>p DEF FlowInv, TypeOK, DoSyncInfo, Goto, kinVars, Step, KeysOf, Key
    <2> QED BY <2>1, <2>2 DEF KinInv, FlowInv
  <1>2. CASE CreateEnableList(t)
    <2>1. KinInv'
      BY <1>2, <1>k, StepKeeps DEF CreateEnableList, At, Goto, InnerStep, Step
    <2>2. EnableList(task[t].dev) \subseteq DhId
      BY DEF EnableList, DhIdsOf, LocalDhIdsOf
    <2>3. TypeOK'
      BY <1>2, <2>2 DEF FlowInv, TypeOK, CreateEnableList, Goto, Step
    <2> QED BY <2>1, <2>3 DEF KinInv, FlowInv
  <1>3. CASE CreateEnableTask(t)
    <2>1. PICK h \in todo[t] : CreateChildOfOnLine(t, "ENABLE", h, "create", todo[t] \ {h})
      BY <1>3 DEF CreateEnableTask
    <2>2. h \in DhId /\ todo[t] \subseteq DhId
      BY DEF FlowInv, TypeOK
    <2>3. [type |-> "ENABLE", dev |-> task[t].dev, dh |-> h] \in TaskParam
      BY <1>p, <2>2 DEF TaskParam, TaskType
    <2>4. KinInv'
      BY <1>3, <2>3, <2>1, <2>2, OnLineChildKeeps DEF CreateEnableTask, InnerStep, Step, TaskType
    <2>5. TypeOK'
      BY <1>3, <2>1, <2>2, <2>3, CreateKeepsTypes
         DEF FlowInv, TypeOK, CreateEnableTask, CreateChildOfOnLine, Step
    <2> QED BY <2>4, <2>5 DEF KinInv, FlowInv
  <1>4. CASE CreateMetaEnableTask(t)
    <2>3. [type |-> "META_ENABLE", dev |-> task[t].dev, dh |-> NoDh] \in TaskParam
      BY <1>p DEF TaskParam, TaskType
    <2>4. KinInv'
      BY <1>4, <2>3, OnLineChildKeeps DEF CreateMetaEnableTask, InnerStep, Step, TaskType
    <2>5. TypeOK'
      BY <1>4, <2>3, CreateKeepsTypes
         DEF FlowInv, TypeOK, CreateMetaEnableTask, CreateChildOfOnLine, Step
    <2> QED BY <2>4, <2>5 DEF KinInv, FlowInv
  <1>5. CASE FinishOnLine(t)
    <2>1. KinInv'
      BY <1>5, EndKeeps DEF FinishOnLine, At
    <2>2. TypeOK'
      BY <1>5 DEF FlowInv, TypeOK, FinishOnLine, Destroy, RemoveTask, Goto, kinVars, Step
    <2> QED BY <2>1, <2>2 DEF KinInv, FlowInv
  <1> QED BY <1>1, <1>2, <1>3, <1>4, <1>5 DEF OnLineStep

\* Every step of an OffLineTask keeps the invariant.
LEMMA OffLineStepKeeps ==
    ASSUME FlowInv, NEW t \in TaskId, OffLineStep(t) \/ FinishOffLine(t)
    PROVE  FlowInv'
  <1> USE DEF boardVars, contextVars, hardwareVars
  <1>0. task[t].type = "OFF_LINE" /\ pc[t] # "free"
    BY DEF OffLineStep, CreateMetaDisableTask, CreateDisableList, CreateDisableTask,
           WaitDisableTaskFinish, ClearOffLineInfo, RemoveOffLine, FinishOffLine, At
  <1>p. task[t] \in TaskParam /\ task[t].dev \in Device
    BY <1>0, TaskHasParam
  <1>k. father[t] = NoTask /\ (pc[t] \notin {"list", "create"} => unFinish[t] = {})
    BY <1>0 DEF FlowInv, TypeOK, ChildrenUnfinished, FatherWaitsForChildren, At
  <1>1. CASE CreateMetaDisableTask(t)
    <2>3. [type |-> "META_DISABLE", dev |-> task[t].dev, dh |-> NoDh] \in TaskParam
      BY <1>p DEF TaskParam, TaskType
    <2>4. KinInv'
      BY <1>1, <2>3, OffLineChildKeeps DEF CreateMetaDisableTask, At
    <2>5. FreshId \in TaskId
      BY <1>1, FreshIdIsFree DEF CreateMetaDisableTask, CreateChildOfOffLine
    <2>6. TypeOK'
      <3>1. /\ task' \in [TaskId -> TaskParam \cup {NoTask}] /\ pc' \in [TaskId -> Step]
            /\ tasks' \subseteq TaskId /\ taskQueue' \in Seq(TaskId)
        BY <1>1, <2>3, CreateKeepsTypes
           DEF CreateMetaDisableTask, CreateChildOfOffLine, Step
      <3>2. /\ father' \in [TaskId -> TaskId \cup {NoTask}]
            /\ unFinish' \in [TaskId -> SUBSET TaskId]
            /\ todo' \in [TaskId -> SUBSET DhId]
        BY <1>1, <2>5 DEF FlowInv, TypeOK, CreateMetaDisableTask, CreateChildOfOffLine
      <3> QED BY <1>1, <3>1, <3>2 DEF FlowInv, TypeOK, CreateMetaDisableTask
    <2> QED BY <2>4, <2>6 DEF KinInv, FlowInv
  <1>2. CASE CreateDisableList(t)
    <2>1. KinInv'
      BY <1>2, <1>k, StepKeeps DEF CreateDisableList, At, Goto, InnerStep, Step
    <2>2. DisableList(task[t].dev) \subseteq DhId
      BY DEF DisableList, DhIdsOf
    <2>3. TypeOK'
      BY <1>2, <2>2 DEF FlowInv, TypeOK, CreateDisableList, Goto, Step
    <2> QED BY <2>1, <2>3 DEF KinInv, FlowInv
  <1>3. CASE CreateDisableTask(t)
    <2>1. PICK h \in todo[t] : CreateChildOfOffLine(t, "DISABLE", h, "create", todo[t] \ {h})
      BY <1>3 DEF CreateDisableTask
    <2>2. h \in DhId /\ todo[t] \subseteq DhId
      BY DEF FlowInv, TypeOK
    <2>3. [type |-> "DISABLE", dev |-> task[t].dev, dh |-> h] \in TaskParam
      BY <1>p, <2>2 DEF TaskParam, TaskType
    <2>4. KinInv'
      BY <1>3, <2>3, <2>1, <2>2, OffLineChildKeeps DEF CreateDisableTask, At
    <2>5. FreshId \in TaskId
      BY <2>1, FreshIdIsFree DEF CreateChildOfOffLine
    <2>6. TypeOK'
      <3>1. /\ task' \in [TaskId -> TaskParam \cup {NoTask}] /\ pc' \in [TaskId -> Step]
            /\ tasks' \subseteq TaskId /\ taskQueue' \in Seq(TaskId)
        BY <1>3, <2>1, <2>2, <2>3, CreateKeepsTypes
           DEF CreateChildOfOffLine, Step
      <3>2. /\ father' \in [TaskId -> TaskId \cup {NoTask}]
            /\ unFinish' \in [TaskId -> SUBSET TaskId]
            /\ todo' \in [TaskId -> SUBSET DhId]
        BY <1>3, <2>1, <2>2, <2>5 DEF FlowInv, TypeOK, CreateChildOfOffLine
      <3> QED BY <1>3, <3>1, <3>2 DEF FlowInv, TypeOK, CreateDisableTask
    <2> QED BY <2>4, <2>6 DEF KinInv, FlowInv
  <1>4. CASE WaitDisableTaskFinish(t)
    <2>1. KinInv'
      BY <1>4, <1>k, StepKeeps DEF WaitDisableTaskFinish, At, Goto, kinVars, InnerStep, Step
    <2>2. TypeOK'
      BY <1>4 DEF FlowInv, TypeOK, WaitDisableTaskFinish, Goto, kinVars, Step
    <2> QED BY <2>1, <2>2 DEF KinInv, FlowInv
  <1>5. CASE ClearOffLineInfo(t)
    <2>1. KinInv'
      BY <1>5, <1>k, StepKeeps DEF ClearOffLineInfo, At, Goto, kinVars, InnerStep, Step
    <2>2. TypeOK'
      BY <1>5 DEF FlowInv, TypeOK, ClearOffLineInfo, Goto, kinVars, Step
    <2> QED BY <2>1, <2>2 DEF KinInv, FlowInv
  <1>6. CASE RemoveOffLine(t)
    <2>1. TypeOK'
      BY <1>6 DEF FlowInv, TypeOK, RemoveOffLine, RemoveTask, Goto, kinVars, Step
    <2> QED BY <1>6, <2>1, RemoveOffLineKeeps DEF KinInv, FlowInv
  <1>7. CASE FinishOffLine(t)
    <2>1. TypeOK'
      BY <1>7 DEF FlowInv, TypeOK, FinishOffLine, Destroy, Goto, kinVars, Step
    <2> QED BY <1>7, <2>1, FinishOffLineKeeps DEF KinInv, FlowInv
  <1> QED BY <1>1, <1>2, <1>3, <1>4, <1>5, <1>6, <1>7 DEF OffLineStep

\* Every step of the four leaf tasks keeps the invariant.
LEMMA LeafStepKeeps ==
    ASSUME FlowInv, NEW t \in TaskId, LeafStep(t)
    PROVE  FlowInv'
  <1> USE DEF boardVars, contextVars, hardwareVars
  <1>0. pc[t] \in {"run", "save", "erase", "notify", "remove"}
    BY DEF LeafStep, EnableSuccess, EnableFail, SaveEnabledDevice, DisableSuccess, DisableFail,
           RemoveEnabledDevice, MetaEnable, MetaDisable, NotifyFatherFinish, NoFatherToNotify,
           FinishLeaf, At
  <1>p. task[t].type \in {"ENABLE", "DISABLE"} => KeyOf(t) \in Key
    <2>1. task[t] \in TaskParam
      BY <1>0, TaskHasParam
    <2> QED BY <2>1 DEF TaskParam, KeyOf, Key
  <1>k. /\ unFinish[t] = {}
        /\ task[t].type \notin {"DISABLE", "META_DISABLE"} => father[t] = NoTask
    BY <1>0 DEF FlowInv, TypeOK, ChildrenUnfinished, FatherWaitsForChildren, At
  <1>1. CASE EnableSuccess(t)
    <2>1. KinInv'
      BY <1>1, <1>k, StepKeeps DEF EnableSuccess, At, Goto, kinVars, InnerStep, Step
    <2>2. TypeOK'
      BY <1>1, <1>p DEF FlowInv, TypeOK, EnableSuccess, At, Goto, kinVars, Step
    <2> QED BY <2>1, <2>2 DEF KinInv, FlowInv
  <1>2. CASE EnableFail(t)
    <2>1. KinInv'
      BY <1>2, <1>k, StepKeeps DEF EnableFail, At, Goto, kinVars, InnerStep, Step
    <2>2. TypeOK'
      BY <1>2, <1>p DEF FlowInv, TypeOK, EnableFail, At, Goto, kinVars, Step
    <2> QED BY <2>1, <2>2 DEF KinInv, FlowInv
  <1>3. CASE SaveEnabledDevice(t)
    <2>1. KinInv'
      BY <1>3, <1>k, StepKeeps DEF SaveEnabledDevice, At, Goto, kinVars, InnerStep, Step
    <2>2. TypeOK'
      BY <1>3, <1>p DEF FlowInv, TypeOK, SaveEnabledDevice, At, Goto, kinVars, Step
    <2> QED BY <2>1, <2>2 DEF KinInv, FlowInv
  <1>4. CASE DisableSuccess(t)
    <2>1. KinInv'
      BY <1>4, <1>k, StepKeeps DEF DisableSuccess, At, Goto, kinVars, InnerStep, Step
    <2>2. TypeOK'
      BY <1>4, <1>p DEF FlowInv, TypeOK, DisableSuccess, At, Goto, kinVars, Step
    <2> QED BY <2>1, <2>2 DEF KinInv, FlowInv
  <1>5. CASE DisableFail(t)
    <2>1. KinInv'
      BY <1>5, <1>k, StepKeeps DEF DisableFail, At, Goto, kinVars, InnerStep, Step
    <2>2. TypeOK'
      BY <1>5, <1>p DEF FlowInv, TypeOK, DisableFail, At, Goto, kinVars, Step
    <2> QED BY <2>1, <2>2 DEF KinInv, FlowInv
  <1>6. CASE RemoveEnabledDevice(t)
    <2>1. KinInv'
      BY <1>6, <1>k, StepKeeps DEF RemoveEnabledDevice, At, Goto, kinVars, InnerStep, Step
    <2>2. TypeOK'
      BY <1>6, <1>p DEF FlowInv, TypeOK, RemoveEnabledDevice, At, Goto, kinVars, Step
    <2> QED BY <2>1, <2>2 DEF KinInv, FlowInv
  <1>7. CASE MetaEnable(t)
    <2>1. KinInv'
      BY <1>7, <1>k, StepKeeps DEF MetaEnable, At, Goto, kinVars, InnerStep, Step
    <2>2. TypeOK'
      BY <1>7, <1>p DEF FlowInv, TypeOK, MetaEnable, At, Goto, kinVars, Step
    <2> QED BY <2>1, <2>2 DEF KinInv, FlowInv
  <1>8. CASE MetaDisable(t)
    <2>1. KinInv'
      BY <1>8, <1>k, StepKeeps DEF MetaDisable, At, Goto, kinVars, InnerStep, Step
    <2>2. TypeOK'
      BY <1>8, <1>p DEF FlowInv, TypeOK, MetaDisable, At, Goto, kinVars, Step
    <2> QED BY <2>1, <2>2 DEF KinInv, FlowInv
  <1>9. CASE NoFatherToNotify(t)
    <2>1. KinInv'
      BY <1>9, <1>k, StepKeeps DEF NoFatherToNotify, At, Goto, kinVars, InnerStep, Step
    <2>2. TypeOK'
      BY <1>9, <1>p DEF FlowInv, TypeOK, NoFatherToNotify, At, Goto, kinVars, Step
    <2> QED BY <2>1, <2>2 DEF KinInv, FlowInv
  <1>10. CASE NotifyFatherFinish(t)
    <2>1. TypeOK'
      BY <1>10 DEF FlowInv, TypeOK, NotifyFatherFinish, Goto, Step
    <2> QED BY <1>10, <2>1, NotifyKeeps DEF KinInv, FlowInv
  <1>11. CASE FinishLeaf(t)
    <2>1. KinInv'
      BY <1>11, EndKeeps DEF FinishLeaf
    <2>2. TypeOK'
      BY <1>11 DEF FlowInv, TypeOK, FinishLeaf, Destroy, RemoveTask, Goto, kinVars, Step
    <2> QED BY <2>1, <2>2 DEF KinInv, FlowInv
  <1> QED BY <1>1, <1>2, <1>3, <1>4, <1>5, <1>6, <1>7, <1>8, <1>9, <1>10, <1>11 DEF LeafStep

\* Whatever the environment does keeps the invariant.
LEMMA EnvironmentKeeps ==
    ASSUME FlowInv, FlowEnvironment
    PROVE  FlowInv'
  <1> USE DEF boardVars, contextVars, hardwareVars
  <1>1. ASSUME NEW type \in {"ON_LINE", "OFF_LINE"}, NEW d \in Device, SubmitDeviceTask(type, d)
        PROVE  FlowInv'
    <2>1. [type |-> type, dev |-> d, dh |-> NoDh] \in TaskParam
      BY DEF TaskParam, TaskType
    <2>2. KinInv'
      BY <1>1, <2>1, RootKeeps DEF SubmitDeviceTask, TaskType
    <2>3. FreshId \in TaskId
      BY <1>1, FreshIdIsFree DEF SubmitDeviceTask, CreateRootTask
    <2>4. TypeOK'
      BY <1>1, <2>1, <2>3 DEF FlowInv, TypeOK, SubmitDeviceTask, CreateRootTask, Goto, AddTask,
                              PushTask, kinVars, Step
    <2> QED BY <2>2, <2>4 DEF KinInv, FlowInv
  <1>2. ASSUME NEW type \in {"ENABLE", "DISABLE"}, NEW d \in Device, NEW h \in DhId,
               NEW caps \in SUBSET Key, NEW metas \in SUBSET Key,
               SubmitHardwareTask(type, d, h, caps, metas)
        PROVE  FlowInv'
    <2>1. [type |-> type, dev |-> d, dh |-> h] \in TaskParam
      BY DEF TaskParam, TaskType
    <2>2. KinInv'
      BY <1>2, <2>1, RootKeeps DEF SubmitHardwareTask, TaskType
    <2>3. FreshId \in TaskId
      BY <1>2, FreshIdIsFree DEF SubmitHardwareTask, CreateRootTask
    <2>4. TypeOK'
      BY <1>2, <2>1, <2>3 DEF FlowInv, TypeOK, SubmitHardwareTask, CreateRootTask, Goto, AddTask,
                              PushTask, kinVars, Step
    <2> QED BY <2>2, <2>4 DEF KinInv, FlowInv
  <1>3. CASE SetContext
    <2>1. UNCHANGED <<task, pc, father, unFinish, todo, tasks, taskQueue, eventQueue, handler>>
      BY <1>3 DEF SetContext, objectVars, kinVars
    <2>2. KinInv'
      BY <2>1 DEF FlowInv, KinInv, SlotsUsed, BoardKeepsTasksAlive, Alive,
                  FatherWaitsForChildren, At, ChildrenUnfinished, QueuedOnce, OneOnLineTaskRuns
    <2>3. TypeOK'
      BY <1>3, <2>1 DEF FlowInv, TypeOK, SetContext
    <2> QED BY <2>2, <2>3 DEF KinInv, FlowInv
  <1> QED BY <1>1, <1>2, <1>3 DEF FlowEnvironment

\* Every step of the task subsystem, and of what surrounds it, preserves the
\* inductive invariant.
LEMMA FlowStepKeeps == FlowInv /\ [FlowNext]_flowVars => FlowInv'
  <1> SUFFICES ASSUME FlowInv, [FlowNext]_flowVars
               PROVE  FlowInv'
    OBVIOUS
  <1>1. CASE TriggerTask
    <2>1. KinInv' /\ taskQueue' \in Seq(TaskId) /\ eventQueue' \in Seq(TaskId)
      BY <1>1, TriggerKeeps
    <2>2. TypeOK'
      BY <1>1, <2>1 DEF FlowInv, TypeOK, TriggerTask, objectVars, kinVars, contextVars,
                        hardwareVars
    <2> QED BY <2>1, <2>2 DEF KinInv, FlowInv
  <1>2. CASE DoTask
    <2>1. /\ KinInv' /\ eventQueue' \in Seq(TaskId) /\ pc' \in [TaskId -> Step]
          /\ handler' \in TaskId \cup {NoTask}
      BY <1>2, DoTaskKeeps
    <2>2. TypeOK'
      BY <1>2, <2>1 DEF FlowInv, TypeOK, DoTask, kinVars, contextVars, hardwareVars
    <2> QED BY <2>1, <2>2 DEF KinInv, FlowInv
  <1>3. ASSUME NEW t \in TaskId, TaskStep(t) \/ FinishOffLine(t)
        PROVE  FlowInv'
    BY <1>3, OnLineStepKeeps, OffLineStepKeeps, LeafStepKeeps DEF TaskStep
  <1>4. CASE FlowEnvironment
    BY <1>4, EnvironmentKeeps
  <1>5. CASE UNCHANGED flowVars
    <2>1. UNCHANGED <<task, pc, father, unFinish, todo, tasks, taskQueue, eventQueue, handler,
                      devIdEntrySet, capMem, metaMem, compSource, enabledDevices, registered>>
      BY <1>5 DEF flowVars, objectVars, kinVars, boardVars, contextVars, hardwareVars
    <2> QED BY <2>1 DEF FlowInv, TypeOK, SlotsUsed, BoardKeepsTasksAlive, Alive,
                FatherWaitsForChildren, At, ChildrenUnfinished, QueuedOnce, OneOnLineTaskRuns
  <1> QED BY <1>1, <1>2, <1>3, <1>4, <1>5 DEF FlowNext

\* The inductive invariant holds when the service starts, without any task.
LEMMA FlowStarts == FlowInit => FlowInv
  <1> SUFFICES ASSUME FlowInit
               PROVE  FlowInv
    OBVIOUS
  <1>1. TypeOK
    <2>1. task \in [TaskId -> TaskParam \cup {NoTask}] /\ handler \in TaskId \cup {NoTask}
      BY DEF FlowInit
    <2>2. pc \in [TaskId -> Step] /\ father \in [TaskId -> TaskId \cup {NoTask}]
      BY DEF FlowInit, Step
    <2>3. unFinish \in [TaskId -> SUBSET TaskId] /\ todo \in [TaskId -> SUBSET DhId]
      BY DEF FlowInit
    <2>4. taskQueue \in Seq(TaskId) /\ eventQueue \in Seq(TaskId)
      BY DEF FlowInit
    <2> QED BY <2>1, <2>2, <2>3, <2>4 DEF FlowInit, TypeOK
  <1>2. SlotsUsed /\ BoardKeepsTasksAlive /\ ChildrenUnfinished
    BY DEF FlowInit, SlotsUsed, BoardKeepsTasksAlive, Alive, ChildrenUnfinished
  <1>3. FatherWaitsForChildren /\ OneOnLineTaskRuns
    BY TaskFlowAssumption DEF FlowInit, FatherWaitsForChildren, OneOnLineTaskRuns
  <1>4. QueuedOnce
    BY DEF FlowInit, QueuedOnce
  <1> QED BY <1>1, <1>2, <1>3, <1>4 DEF FlowInv

\* FlowInv is an invariant of the task subsystem, for any number of devices,
\* hardware and tasks, any queue length, with or without failing components,
\* and whatever the rest of the service does.
THEOREM FlowInvariant == FlowSpec => []FlowInv
  BY FlowStarts, FlowStepKeeps, PTL DEF FlowSpec

\* The types of the task subsystem.
THEOREM FlowTypes == FlowSpec => []TypeOK
  <1>1. FlowInv => TypeOK
    BY DEF FlowInv
  <1> QED BY <1>1, FlowInvariant, PTL

\* No task runs after TaskBoard gave up its object, and IsAllTaskFinish counts
\* every task that may still act.
THEOREM BoardIsRight == FlowSpec => []BoardKeepsTasksAlive
  <1>1. FlowInv => BoardKeepsTasksAlive
    BY DEF FlowInv
  <1> QED BY <1>1, FlowInvariant, PTL

\* An OffLineTask forgets a device only after all children have unregistered
\* its hardware, and no child notifies a father that is gone.
THEOREM OffLineTaskWaits == FlowSpec => []FatherWaitsForChildren
  <1>1. FlowInv => FatherWaitsForChildren
    BY DEF FlowInv
  <1> QED BY <1>1, FlowInvariant, PTL

\* No task object is run twice: it waits in at most one of the two queues.
THEOREM TasksRunOnce == FlowSpec => []QueuedOnce
  <1>1. FlowInv => QueuedOnce
    BY DEF FlowInv
  <1> QED BY <1>1, FlowInvariant, PTL

\* No OnLineTask runs beside another on the handler thread.
THEOREM OnLineTasksAlternate == FlowSpec => []OneOnLineTaskRuns
  <1>1. FlowInv => OneOnLineTaskRuns
    BY DEF FlowInv
  <1> QED BY <1>1, FlowInvariant, PTL

-----------------------------------------------------------------------------
(* The service: what its threads know *)

\* A thread that sends an event knows the device it sends it for.
SendersKnowDevice == \A s \in Sender : sendPc[s] # "idle" => sendDev[s] \in Device

\* The types of the variables of the sending threads.
SenderTypes ==
    /\ sendPc \in [Sender -> SendStep]
    /\ sendDev \in [Sender -> Device \cup {NoDevice}]

\* The inductive invariant: a task is only created for a device because every
\* thread, callback and list holds devices only.
FwkInv == FwkTypeOK /\ FlowInv /\ SendersKnowDevice

\* What each action of the service has to show.
StepIsRight ==
    /\ [FlowNext]_flowVars
    /\ TypeOK' => FwkTypeOK'
    /\ SendersKnowDevice'

-----------------------------------------------------------------------------
(* The shapes of steps *)

\* A step of a sending thread that does not touch the tasks.
LEMMA SenderMoves ==
    ASSUME FwkInv, NEW s \in Sender, NEW step \in SendStep,
           sendPc' = [sendPc EXCEPT ![s] = step],
           \/ sendDev' = sendDev /\ sendDev[s] \in Device
           \/ \E d \in Device : sendDev' = [sendDev EXCEPT ![s] = d]
           \/ step = "idle" /\ sendDev' = [sendDev EXCEPT ![s] = NoDevice]
    PROVE  SenderTypes' /\ SendersKnowDevice'
  <1> USE DEF SenderTypes
  <1>1. SenderTypes
    BY DEF FwkInv, FwkTypeOK
  <1>2. SendersKnowDevice
    BY DEF FwkInv
  <1>3. SenderTypes'
    BY <1>1
  <1>4. \A r \in Sender : sendPc'[r] # "idle" => sendDev'[r] \in Device
    BY <1>1, <1>2 DEF SendersKnowDevice
  <1> QED BY <1>3, <1>4 DEF SendersKnowDevice

\* A step that changes only what the environment of TaskFlow may change.
LEMMA ContextChanges ==
    ASSUME FwkInv,
           devIdEntrySet' \subseteq Device, capMem' \subseteq Key, metaMem' \subseteq Key,
           compSource' \in BOOLEAN, registered' \in {registered, {}},
           UNCHANGED <<objectVars, boardVars, enabledDevices>>
    PROVE  FlowNext
  BY DEF FlowNext, FlowEnvironment, SetContext

\* A thread that is not idle has a device.
LEMMA BusySenderHasDevice ==
    ASSUME FwkInv, NEW s \in Sender, sendPc[s] # "idle"
    PROVE  sendDev[s] \in Device
  BY DEF FwkInv, SendersKnowDevice

-----------------------------------------------------------------------------
(* SendOnLineEvent and SendOffLineEvent *)

\* The steps of an online event: only AddOnlineDevice, the start of the
\* components and the push of the ON_LINE task touch the task subsystem.
LEMMA SendOnLineEventIsRight ==
    ASSUME FwkInv, NEW s \in Sender, SendOnLineEvent(s)
    PROVE  StepIsRight
  <1> USE DEF FwkInv, FwkTypeOK, SenderTypes, dmVars, countVars, initVars, localVars,
              tailVars, budgetVars
  <1>1. CASE CheckUnInitFlag(s)
    <2>1. sendDev[s] \in Device
      BY <1>1, BusySenderHasDevice DEF CheckUnInitFlag
    <2>2. SenderTypes' /\ SendersKnowDevice'
      BY <1>1, <2>1, SenderMoves DEF CheckUnInitFlag, SendReturn, SendGoto, SendStep
    <2> QED BY <1>1, <2>2 DEF StepIsRight, CheckUnInitFlag
  <1>2. CASE CheckRepeatOnline(s)
    <2>1. sendDev[s] \in Device
      BY <1>2, BusySenderHasDevice DEF CheckRepeatOnline
    <2>2. SenderTypes' /\ SendersKnowDevice'
      BY <1>2, <2>1, SenderMoves DEF CheckRepeatOnline, SendReturn, SendGoto, SendStep
    <2> QED BY <1>2, <2>2 DEF StepIsRight, CheckRepeatOnline
  <1>3. CASE AddOnlineDevice(s)
    <2>1. sendDev[s] \in Device
      BY <1>3, BusySenderHasDevice DEF AddOnlineDevice
    <2>2. SenderTypes' /\ SendersKnowDevice'
      BY <1>3, <2>1, SenderMoves DEF AddOnlineDevice, SendGoto, SendStep
    <2>3. FlowNext
      BY <1>3, <2>1, ContextChanges DEF AddOnlineDevice, TypeOK, hardwareVars
    <2> QED BY <1>3, <2>2, <2>3 DEF StepIsRight, AddOnlineDevice
  <1>4. CASE AddRealTimeOnlineDevice(s)
    <2>1. sendDev[s] \in Device
      BY <1>4, BusySenderHasDevice DEF AddRealTimeOnlineDevice
    <2>2. SenderTypes' /\ SendersKnowDevice'
      BY <1>4, <2>1, SenderMoves DEF AddRealTimeOnlineDevice, SendGoto, SendStep
    <2> QED BY <1>4, <2>1, <2>2 DEF StepIsRight, AddRealTimeOnlineDevice
  <1>5. CASE CheckInit(s, "init", "local", "push")
    <2>1. sendDev[s] \in Device
      BY <1>5, BusySenderHasDevice DEF CheckInit
    <2>2. SenderTypes' /\ SendersKnowDevice'
      BY <1>5, <2>1, SenderMoves DEF CheckInit, SendGoto, SendStep
    <2> QED BY <1>5, <2>2 DEF StepIsRight, CheckInit
  <1>6. CASE InitializeLocal(s, "local", "load", "setinit")
    <2>1. sendDev[s] \in Device
      BY <1>6, BusySenderHasDevice DEF InitializeLocal
    <2>2. SenderTypes' /\ SendersKnowDevice'
      BY <1>6, <2>1, SenderMoves DEF InitializeLocal, LocalInit, SendGoto, SendStep
    <2> QED BY <1>6, <2>2 DEF StepIsRight, InitializeLocal, LocalInit
  <1>7. CASE Initialize(s, "load", "setall")
    <2>1. sendDev[s] \in Device
      BY <1>7, BusySenderHasDevice DEF Initialize
    <2>2. SenderTypes' /\ SendersKnowDevice'
      BY <1>7, <2>1, SenderMoves DEF Initialize, SendGoto, SendStep
    <2>3. FlowNext
      BY <1>7, <2>1, ContextChanges DEF Initialize, TypeOK, hardwareVars
    <2> QED BY <1>7, <2>2, <2>3 DEF StepIsRight, Initialize
  <1>8. CASE SetAllInit(s, "setall", "setinit")
    <2>1. sendDev[s] \in Device
      BY <1>8, BusySenderHasDevice DEF SetAllInit
    <2>2. SenderTypes' /\ SendersKnowDevice'
      BY <1>8, <2>1, SenderMoves DEF SetAllInit, SendGoto, SendStep
    <2> QED BY <1>8, <2>2 DEF StepIsRight, SetAllInit
  <1>9. CASE SetInit(s, "setinit", "push")
    <2>1. sendDev[s] \in Device
      BY <1>9, BusySenderHasDevice DEF SetInit
    <2>2. SenderTypes' /\ SendersKnowDevice'
      BY <1>9, <2>1, SenderMoves DEF SetInit, SendGoto, SendStep
    <2> QED BY <1>9, <2>2 DEF StepIsRight, SetInit
  <1>10. CASE PushDeviceTask(s, "push", "ON_LINE")
    <2>1. sendDev[s] \in Device
      BY <1>10, BusySenderHasDevice DEF PushDeviceTask
    <2>2. SenderTypes' /\ SendersKnowDevice'
      BY <1>10, <2>1, SenderMoves DEF PushDeviceTask, SendReturn, SendGoto, SendStep
    <2>3. SubmitDeviceTask("ON_LINE", sendDev[s])
      BY <1>10 DEF PushDeviceTask, SubmitDeviceTask
    <2>4. FlowNext
      BY <2>1, <2>3 DEF FlowNext, FlowEnvironment
    <2> QED BY <1>10, <2>2, <2>4 DEF StepIsRight, PushDeviceTask
  <1> QED BY <1>1, <1>2, <1>3, <1>4, <1>5, <1>6, <1>7, <1>8, <1>9, <1>10 DEF SendOnLineEvent

\* The steps of an offline event.
LEMMA SendOffLineEventIsRight ==
    ASSUME FwkInv, NEW s \in Sender, SendOffLineEvent(s)
    PROVE  StepIsRight
  <1> USE DEF FwkInv, FwkTypeOK, SenderTypes, dmVars, countVars, initVars, localVars,
              tailVars, budgetVars
  <1>1. CASE CheckInit(s, "off_init", "off_local", "off_online")
    <2>1. sendDev[s] \in Device
      BY <1>1, BusySenderHasDevice DEF CheckInit
    <2>2. SenderTypes' /\ SendersKnowDevice'
      BY <1>1, <2>1, SenderMoves DEF CheckInit, SendGoto, SendStep
    <2> QED BY <1>1, <2>2 DEF StepIsRight, CheckInit
  <1>2. CASE InitializeLocal(s, "off_local", "off_load", "off_setinit")
    <2>1. sendDev[s] \in Device
      BY <1>2, BusySenderHasDevice DEF InitializeLocal
    <2>2. SenderTypes' /\ SendersKnowDevice'
      BY <1>2, <2>1, SenderMoves DEF InitializeLocal, LocalInit, SendGoto, SendStep
    <2> QED BY <1>2, <2>2 DEF StepIsRight, InitializeLocal, LocalInit
  <1>3. CASE Initialize(s, "off_load", "off_setall")
    <2>1. sendDev[s] \in Device
      BY <1>3, BusySenderHasDevice DEF Initialize
    <2>2. SenderTypes' /\ SendersKnowDevice'
      BY <1>3, <2>1, SenderMoves DEF Initialize, SendGoto, SendStep
    <2>3. FlowNext
      BY <1>3, <2>1, ContextChanges DEF Initialize, TypeOK, hardwareVars
    <2> QED BY <1>3, <2>2, <2>3 DEF StepIsRight, Initialize
  <1>4. CASE SetAllInit(s, "off_setall", "off_setinit")
    <2>1. sendDev[s] \in Device
      BY <1>4, BusySenderHasDevice DEF SetAllInit
    <2>2. SenderTypes' /\ SendersKnowDevice'
      BY <1>4, <2>1, SenderMoves DEF SetAllInit, SendGoto, SendStep
    <2> QED BY <1>4, <2>2 DEF StepIsRight, SetAllInit
  <1>5. CASE SetInit(s, "off_setinit", "off_online")
    <2>1. sendDev[s] \in Device
      BY <1>5, BusySenderHasDevice DEF SetInit
    <2>2. SenderTypes' /\ SendersKnowDevice'
      BY <1>5, <2>1, SenderMoves DEF SetInit, SendGoto, SendStep
    <2> QED BY <1>5, <2>2 DEF StepIsRight, SetInit
  <1>6. CASE CheckRepeatOffline(s)
    <2>1. sendDev[s] \in Device
      BY <1>6, BusySenderHasDevice DEF CheckRepeatOffline
    <2>2. SenderTypes' /\ SendersKnowDevice'
      BY <1>6, <2>1, SenderMoves DEF CheckRepeatOffline, SendReturn, SendGoto, SendStep
    <2> QED BY <1>6, <2>2 DEF StepIsRight, CheckRepeatOffline
  <1>7. CASE DeleteRealTimeOnlineDevice(s)
    <2>1. sendDev[s] \in Device
      BY <1>7, BusySenderHasDevice DEF DeleteRealTimeOnlineDevice
    <2>2. SenderTypes' /\ SendersKnowDevice'
      BY <1>7, <2>1, SenderMoves DEF DeleteRealTimeOnlineDevice, SendGoto, SendStep
    <2> QED BY <1>7, <2>2 DEF StepIsRight, DeleteRealTimeOnlineDevice
  <1>8. CASE CheckLastDevice(s)
    <2>1. sendDev[s] \in Device
      BY <1>8, BusySenderHasDevice DEF CheckLastDevice
    <2>2. SenderTypes' /\ SendersKnowDevice'
      BY <1>8, <2>1, SenderMoves DEF CheckLastDevice, SendGoto, SendStep
    <2> QED BY <1>8, <2>2 DEF StepIsRight, CheckLastDevice
  <1>9. CASE SetUnInitFlag(s)
    <2>1. sendDev[s] \in Device
      BY <1>9, BusySenderHasDevice DEF SetUnInitFlag
    <2>2. SenderTypes' /\ SendersKnowDevice'
      BY <1>9, <2>1, SenderMoves DEF SetUnInitFlag, SendGoto, SendStep
    <2> QED BY <1>9, <2>2 DEF StepIsRight, SetUnInitFlag
  <1>10. CASE PushDeviceTask(s, "off_push", "OFF_LINE")
    <2>1. sendDev[s] \in Device
      BY <1>10, BusySenderHasDevice DEF PushDeviceTask
    <2>2. SenderTypes' /\ SendersKnowDevice'
      BY <1>10, <2>1, SenderMoves DEF PushDeviceTask, SendReturn, SendGoto, SendStep
    <2>3. SubmitDeviceTask("OFF_LINE", sendDev[s])
      BY <1>10 DEF PushDeviceTask, SubmitDeviceTask
    <2>4. FlowNext
      BY <2>1, <2>3 DEF FlowNext, FlowEnvironment
    <2> QED BY <1>10, <2>2, <2>4 DEF StepIsRight, PushDeviceTask
  <1> QED BY <1>1, <1>2, <1>3, <1>4, <1>5, <1>6, <1>7, <1>8, <1>9, <1>10 DEF SendOffLineEvent

-----------------------------------------------------------------------------
(* AccessManager *)

\* The callbacks of the device manager and the start-up thread only give a
\* thread its next device.
LEMMA AccessManagerIsRight ==
    ASSUME FwkInv, CheckTrustedDeviceOnline \/ OnDeviceReady \/ OnDeviceOffline
    PROVE  StepIsRight
  <1> USE DEF FwkInv, FwkTypeOK, SenderTypes, dmVars, countVars, initVars, localVars,
              tailVars, budgetVars
  <1>1. "dm" \in Sender /\ "boot" \in Sender
    BY DEF Sender
  <1>2. CASE CheckTrustedDeviceOnline
    <2>1. PICK d \in bootList : SendBegin("boot", d, "flag") /\ bootList' = bootList \ {d}
      BY <1>2 DEF CheckTrustedDeviceOnline
    <2>2. SenderTypes' /\ SendersKnowDevice'
      BY <1>1, <2>1, SenderMoves DEF SendBegin, SendGoto, SendStep
    <2> QED BY <1>2, <2>1, <2>2 DEF StepIsRight, CheckTrustedDeviceOnline
  <1>3. ASSUME callbacks # <<>>
        PROVE  Head(callbacks)[2] \in Device /\ Tail(callbacks) \in Seq(Callback)
    <2>1. Head(callbacks) \in Callback /\ Tail(callbacks) \in Seq(Callback)
      BY <1>3
    <2> QED BY <2>1 DEF Callback
  <1>4. CASE OnDeviceReady
    <2>1. SenderTypes' /\ SendersKnowDevice'
      BY <1>1, <1>3, <1>4, SenderMoves DEF OnDeviceReady, SendBegin, SendGoto, SendStep
    <2> QED BY <1>3, <1>4, <2>1 DEF StepIsRight, OnDeviceReady
  <1>5. CASE OnDeviceOffline
    <2>1. SenderTypes' /\ SendersKnowDevice'
      <3>1. CASE GetUUIDByNetworkId(Head(callbacks)[2]) # NoDevice
        BY <1>1, <1>3, <1>5, <3>1, SenderMoves
           DEF OnDeviceOffline, GetUUIDByNetworkId, Entry, SendBegin, SendGoto, SendStep
      <3>2. CASE GetUUIDByNetworkId(Head(callbacks)[2]) = NoDevice
        BY <1>5, <3>2 DEF OnDeviceOffline, sendVars, SendersKnowDevice
      <3> QED BY <3>1, <3>2
    <2> QED BY <1>3, <1>5, <2>1 DEF StepIsRight, OnDeviceOffline
  <1> QED BY <1>2, <1>4, <1>5

-----------------------------------------------------------------------------
(* The tail of OffLineTask::DoTaskInner *)

\* The task that returns from its tail is destroyed, as in TaskFlow.
LEMMA TailReturns ==
    ASSUME FwkInv, NEW t \in TaskId, TailReturn(t)
    PROVE  FlowNext /\ tail' \in [TaskId -> TailStep]
  <1>1. FlowNext
    BY DEF TailReturn, FlowNext
  <1>2. tail' \in [TaskId -> TailStep]
    BY DEF FwkInv, FwkTypeOK, TailReturn, TailGoto, TailStep
  <1> QED BY <1>1, <1>2

\* A condition of the release that was read moves the task on, or ends it.
LEMMA CheckReleaseIsRight ==
    ASSUME FwkInv, NEW t \in TaskId, NEW here, NEW holds, NEW next \in TailStep,
           CheckRelease(t, here, holds, next)
    PROVE  StepIsRight
  <1>1. [FlowNext]_flowVars /\ tail' \in [TaskId -> TailStep]
    <2>1. CASE TailGoto(t, next) /\ UNCHANGED flowVars
      BY <2>1 DEF FwkInv, FwkTypeOK, TailGoto
    <2>2. CASE TailReturn(t)
      BY <2>2, TailReturns
    <2> QED BY <2>1, <2>2 DEF CheckRelease
  <1> QED BY <1>1 DEF StepIsRight, FwkInv, FwkTypeOK, CheckRelease, SendersKnowDevice, sendVars,
                      dmVars, countVars, initVars, localVars, budgetVars

\* Factory::UnInit: the components stop, and nothing else of a task changes.
LEMMA ReleaseIsRight ==
    ASSUME FwkInv, NEW t \in TaskId,
           \/ ReleaseComponents(t) \/ ReleaseDatabases(t) \/ ResetAllInit(t)
           \/ ResetLocalInit(t) \/ ResetInit(t) \/ ResetUnInitFlag(t)
    PROVE  StepIsRight
  <1>1. tail' \in [TaskId -> TailStep]
    BY DEF FwkInv, FwkTypeOK, ReleaseComponents, ReleaseDatabases, ResetAllInit, ResetLocalInit,
           ResetInit, ResetUnInitFlag, TailGoto, TailStep
  <1>2. SendersKnowDevice'
    BY DEF FwkInv, SendersKnowDevice, ReleaseComponents, ReleaseDatabases, ResetAllInit,
           ResetLocalInit, ResetInit, ResetUnInitFlag, sendVars
  <1>3. CASE ReleaseComponents(t)
    <2>1. FlowNext
      BY <1>3, ContextChanges DEF FwkInv, FwkTypeOK, TypeOK, ReleaseComponents
    <2> QED BY <1>1, <1>2, <1>3, <2>1
            DEF StepIsRight, FwkInv, FwkTypeOK, ReleaseComponents, sendVars, dmVars, countVars,
                initVars, localVars, budgetVars
  <1>4. CASE ~ReleaseComponents(t)
    BY <1>1, <1>2, <1>4
       DEF StepIsRight, FwkInv, FwkTypeOK, ReleaseDatabases, ResetAllInit, ResetLocalInit,
           ResetInit, ResetUnInitFlag, sendVars, dmVars, countVars, initVars, localVars, budgetVars
  <1> QED BY <1>3, <1>4

\* CheckExitSAOrNot: the service exits, or initialises again and starts a
\* detached SendOnLineEvent for each device of the trusted list.
LEMMA CheckExitIsRight ==
    ASSUME FwkInv, NEW t \in TaskId,
           \/ ExitDHFWK(t) \/ KeepServing(t) \/ Reinit(t) \/ ResendOnLine(t)
           \/ ReturnFromResend(t)
    PROVE  StepIsRight
  <1> USE DEF FwkInv, FwkTypeOK, dmVars, countVars, initVars, localVars, budgetVars
  <1>1. CASE ExitDHFWK(t)
    <2>1. FlowNext /\ tail' \in [TaskId -> TailStep]
      BY <1>1, TailReturns DEF ExitDHFWK
    <2> QED BY <1>1, <2>1 DEF StepIsRight, ExitDHFWK, SendersKnowDevice, sendVars
  <1>2. CASE KeepServing(t)
    <2>1. tail' \in [TaskId -> TailStep]
      BY <1>2 DEF KeepServing, TailGoto, TailStep
    <2> QED BY <1>2, <2>1 DEF StepIsRight, KeepServing, SendersKnowDevice, sendVars
  <1>3. CASE Reinit(t)
    <2>1. tail' \in [TaskId -> TailStep]
      BY <1>3 DEF Reinit, TailGoto, TailStep
    <2>2. FlowNext
      <3>1. compSource' \in BOOLEAN
        BY <1>3 DEF Reinit, TypeOK
      <3> QED BY <1>3, <3>1, ContextChanges DEF Reinit, TypeOK, hardwareVars
    <2>3. /\ isInit' \in BOOLEAN /\ isAllInit' \in BOOLEAN /\ flagUnInit' \in BOOLEAN
          /\ isLocalInit' \in BOOLEAN /\ subscribed' \in BOOLEAN
      BY <1>3 DEF Reinit, LocalInit
    <2> QED BY <1>3, <2>1, <2>2, <2>3 DEF StepIsRight, Reinit, SendersKnowDevice, sendVars
  <1>4. CASE ResendOnLine(t)
    <2>1. tail' \in [TaskId -> TailStep]
      BY <1>4 DEF ResendOnLine, TailGoto, TailStep
    <2>2. deviceList[t] \subseteq Device
      OBVIOUS
    <2>3. sendPc' \in [Sender -> SendStep]
      BY <1>4 DEF ResendOnLine, SendStep
    <2>4. sendDev' \in [Sender -> Device \cup {NoDevice}]
      BY <1>4, <2>2 DEF ResendOnLine
    <2>5. SendersKnowDevice'
      BY <1>4, <2>2 DEF ResendOnLine, SendersKnowDevice
    <2>6. deviceList' \in [TaskId -> SUBSET Device]
      BY <1>4 DEF ResendOnLine
    <2> QED BY <1>4, <2>1, <2>3, <2>4, <2>5, <2>6 DEF StepIsRight, ResendOnLine
  <1>5. CASE ReturnFromResend(t)
    <2>1. FlowNext /\ tail' \in [TaskId -> TailStep]
      BY <1>5, TailReturns DEF ReturnFromResend
    <2> QED BY <1>5, <2>1 DEF StepIsRight, ReturnFromResend, SendersKnowDevice, sendVars
  <1> QED BY <1>1, <1>2, <1>3, <1>4, <1>5

\* The tail of an OffLineTask, from the condition of the release to its return.
LEMMA OffLineTailIsRight ==
    ASSUME FwkInv, NEW t \in TaskId, OffLineTail(t)
    PROVE  StepIsRight
  <1>1. {"iso", "board", "release"} \subseteq TailStep
    BY DEF TailStep
  <1>2. CASE \/ CheckRelease(t, "count", realTime = {}, "iso")
             \/ CheckRelease(t, "iso", connectedDevIds = {}, "board")
             \/ CheckRelease(t, "board", tasks = {}, "release")
    BY <1>1, <1>2, CheckReleaseIsRight
  <1> QED BY <1>2, ReleaseIsRight, CheckExitIsRight DEF OffLineTail

-----------------------------------------------------------------------------
(* The databases and the device manager *)

\* A handler of a database change creates at most one ENABLE or DISABLE task,
\* with the map it has changed.
LEMMA HandleChangeIsRight ==
    ASSUME FwkInv, NEW d \in Device, NEW h \in DhId, HandleChange(d, h)
    PROVE  StepIsRight
  <1>1. PICK st \in Store, kind \in {"add", "update", "delete"} : Handle(st, kind, d, h)
    BY DEF HandleChange, HandleCapabilityAddChange, HandleCapabilityUpdateChange,
           HandleCapabilityDeleteChange, HandleMetaCapabilityAddChange,
           HandleMetaCapabilityUpdateChange, HandleMetaCapabilityDeleteChange, SkipChange, Store
  <1>2. onChange' \in [Store -> SUBSET Change]
    BY <1>1 DEF Handle, FwkInv, FwkTypeOK
  <1>3. /\ capMem \subseteq Key /\ metaMem \subseteq Key /\ <<d, h>> \in Key
        /\ devIdEntrySet \subseteq Device /\ compSource \in BOOLEAN
    BY DEF FwkInv, FwkTypeOK, TypeOK, Key
  <1>4. [FlowNext]_flowVars
    <2>1. CASE \E type \in {"ENABLE", "DISABLE"} : \E caps, metas \in SUBSET Key :
                  SubmitHardwareTask(type, d, h, caps, metas)
      BY <2>1 DEF FlowNext, FlowEnvironment
    <2>2. CASE HandleMetaCapabilityDeleteChange(d, h)
      BY <1>3, <2>2, ContextChanges DEF HandleMetaCapabilityDeleteChange, hardwareVars
    <2>3. CASE UNCHANGED flowVars
      BY <2>3
    <2>4. capMem \cup {<<d, h>>} \in SUBSET Key /\ capMem \ {<<d, h>>} \in SUBSET Key
      BY <1>3
    <2>5. metaMem \cup {<<d, h>>} \in SUBSET Key
      BY <1>3
    <2>6. capMem \in SUBSET Key /\ metaMem \in SUBSET Key
      BY <1>3
    <2>7. CASE HandleCapabilityAddChange(d, h) \/ HandleCapabilityUpdateChange(d, h)
      BY <2>1, <2>4, <2>6, <2>7 DEF HandleCapabilityAddChange, HandleCapabilityUpdateChange
    <2>8. CASE HandleCapabilityDeleteChange(d, h)
      BY <2>1, <2>4, <2>6, <2>8 DEF HandleCapabilityDeleteChange
    <2>9. CASE HandleMetaCapabilityAddChange(d, h) \/ HandleMetaCapabilityUpdateChange(d, h)
      BY <2>1, <2>5, <2>6, <2>9
         DEF HandleMetaCapabilityAddChange, HandleMetaCapabilityUpdateChange
    <2> QED BY <2>2, <2>3, <2>7, <2>8, <2>9 DEF HandleChange, SkipChange
  <1> QED BY <1>1, <1>2, <1>4 DEF StepIsRight, FwkInv, FwkTypeOK, Handle, SendersKnowDevice,
                 sendVars, dmVars, countVars, initVars, localVars, tailVars

\* A callback added to the queue of callbacks gives a queue of callbacks.
LEMMA AppendIsSeq ==
    ASSUME NEW S, NEW q \in Seq(S), NEW e \in S
    PROVE  Append(q, e) \in Seq(S)
  OBVIOUS

\* Events of the device manager leave the tasks alone; a recovery of the
\* databases reads records of devices that are online.
LEMMA EnvironmentIsRight ==
    ASSUME FwkInv, Environment
    PROVE  StepIsRight
  <1> USE DHFwkAssumption
      DEF FwkInv, FwkTypeOK, SendersKnowDevice, sendVars, dmVars, countVars, initVars, localVars,
          tailVars
  <1>1. CASE \E d \in Device : DeviceJoins(d) \/ DeviceLeaves(d)
    <2>1. PICK d \in Device : DeviceJoins(d) \/ DeviceLeaves(d)
      BY <1>1
    <2>2. callbacks' \in Seq(Callback)
      <3>1. <<"ready", d>> \in Callback /\ <<"offline", d>> \in Callback
        BY DEF Callback
      <3>2. PICK c \in Callback : callbacks' = Append(callbacks, c)
        BY <2>1, <3>1 DEF DeviceJoins, DeviceLeaves
      <3> QED BY <3>2, AppendIsSeq
    <2>3. events' \in 0 .. MaxEvents
      BY <2>1 DEF DeviceJoins, DeviceLeaves, DmEvent
    <2> QED BY <2>1, <2>2, <2>3 DEF StepIsRight, DeviceJoins, DeviceLeaves, DmEvent
  <1>2. CASE \E i \in IsoDevice : IsomerismConnect(i) \/ IsomerismDisconnect(i)
    <2>1. events' \in 0 .. MaxEvents
      BY <1>2 DEF IsomerismConnect, IsomerismDisconnect, DmEvent
    <2> QED BY <1>2, <2>1 DEF StepIsRight, IsomerismConnect, IsomerismDisconnect, DmEvent
  <1>3. CASE \E st \in Store, c \in Change : OnChange(st, c)
    <2>1. events' \in 0 .. MaxEvents
      BY <1>3 DEF OnChange, DbEvent
    <2>2. onChange' \in [Store -> SUBSET Change]
      BY <1>3 DEF OnChange
    <2> QED BY <1>3, <2>1, <2>2 DEF StepIsRight, OnChange, DbEvent
  <1>4. CASE SyncRemoteCapabilityInfos \/ SyncRemoteMetaInfos
    <2>1. devIdEntrySet \X DhId \subseteq Key
      BY DEF TypeOK, Key
    <2>2. FlowNext
      BY <1>4, <2>1, ContextChanges
         DEF SyncRemoteCapabilityInfos, SyncRemoteMetaInfos, TypeOK, hardwareVars
    <2>3. events' \in 0 .. MaxEvents
      BY <1>4 DEF SyncRemoteCapabilityInfos, SyncRemoteMetaInfos, DbEvent
    <2> QED BY <1>4, <2>2, <2>3
            DEF StepIsRight, SyncRemoteCapabilityInfos, SyncRemoteMetaInfos, DbEvent
  <1> QED BY <1>1, <1>2, <1>3, <1>4 DEF Environment

-----------------------------------------------------------------------------
(* The service *)

\* Every step of the service is right in the sense of StepIsRight.
LEMMA NextIsRight ==
    ASSUME FwkInv, [Next]_vars
    PROVE  StepIsRight
  <1> USE DEF FwkInv, FwkTypeOK, SendersKnowDevice, fwkVars, sendVars, dmVars, countVars,
              initVars, localVars, tailVars, budgetVars
  <1>1. CASE Threads /\ UNCHANGED fwkVars
    <2>1. FlowNext
      BY <1>1 DEF Threads, FlowNext
    <2> QED BY <1>1, <2>1 DEF StepIsRight
  <1>2. CASE UNCHANGED vars
    BY <1>2 DEF StepIsRight, vars
  <1> QED BY <1>1, <1>2, OffLineTailIsRight, SendOnLineEventIsRight, SendOffLineEventIsRight,
             AccessManagerIsRight, HandleChangeIsRight, EnvironmentIsRight DEF Next

\* FwkInv is an invariant of the service, whatever the pace of its environment.
THEOREM ServiceInvariant == Spec => []FwkInv
  <1>1. Init => FwkInv
    <2> SUFFICES ASSUME Init
                 PROVE  FwkInv
      OBVIOUS
    <2>1. FlowInv /\ TypeOK
      BY FlowStarts DEF Init, FlowInv
    <2>2. SendersKnowDevice
      BY DEF Init, SendersKnowDevice
    <2>3. sendPc \in [Sender -> SendStep] /\ tail \in [TaskId -> TailStep]
      BY DEF Init, SendStep, TailStep
    <2>4. callbacks \in Seq(Callback) /\ onChange \in [Store -> SUBSET Change]
      BY DEF Init
    <2>5. /\ isInit \in BOOLEAN /\ isAllInit \in BOOLEAN /\ flagUnInit \in BOOLEAN
          /\ isLocalInit \in BOOLEAN /\ subscribed \in BOOLEAN /\ unload \in BOOLEAN
      BY DEF Init
    <2>6. trusted \subseteq Device /\ bootList \subseteq Device
      BY DEF Init
    <2>7. /\ sendDev \in [Sender -> Device \cup {NoDevice}]
          /\ deviceList \in [TaskId -> SUBSET Device]
      BY DEF Init
    <2>8. events \in 0 .. MaxEvents
      BY DHFwkAssumption DEF Init
    <2>9. realTime \subseteq Device /\ connectedDevIds \subseteq IsoDevice
      BY DEF Init
    <2> QED BY <2>1, <2>2, <2>3, <2>4, <2>5, <2>6, <2>7, <2>8, <2>9 DEF FwkInv, FwkTypeOK
  <1>2. FwkInv /\ [Next]_vars => FwkInv'
    <2> SUFFICES ASSUME FwkInv, [Next]_vars
                 PROVE  FwkInv'
      OBVIOUS
    <2>1. StepIsRight
      BY NextIsRight
    <2>2. FlowInv'
      BY <2>1, FlowStepKeeps DEF StepIsRight, FwkInv
    <2> QED BY <2>1, <2>2 DEF StepIsRight, FwkInv, FlowInv
  <1> QED BY <1>1, <1>2, PTL DEF Spec

\* The types of the service.
THEOREM ServiceTypes == Spec => []FwkTypeOK
  <1>1. FwkInv => FwkTypeOK
    BY DEF FwkInv
  <1> QED BY <1>1, ServiceInvariant, PTL

\* The service implements the task subsystem: SendOnLineEvent, SendOffLineEvent,
\* the release and the handlers of database changes use tasks only as TaskFlow
\* lets its environment use them.
THEOREM ServiceRefinesTasks == Spec => TasksBehave
  <1>1. Init => FlowInit
    BY DEF Init
  <1>2. FwkInv /\ [Next]_vars => [FlowNext]_flowVars
    BY NextIsRight DEF StepIsRight
  <1> QED BY <1>1, <1>2, ServiceInvariant, PTL DEF Spec, TasksBehave, FlowSpec

\* In the whole service no task runs after the board gave up its object, so
\* the release never overlooks a task that IsAllTaskFinish does not count.
THEOREM ServiceBoardIsRight == Spec => []BoardKeepsTasksAlive
  BY ServiceRefinesTasks, BoardIsRight, PTL DEF TasksBehave

\* In the whole service an OffLineTask forgets a device only after all its
\* children have unregistered the hardware of the device.
THEOREM ServiceOffLineWaits == Spec => []FatherWaitsForChildren
  BY ServiceRefinesTasks, OffLineTaskWaits, PTL DEF TasksBehave

-----------------------------------------------------------------------------
(* What the tasks do to the service *)

\* An OffLineTask that is not done yet.
OffTask(t) == pc[t] # "free" /\ task[t].type = "OFF_LINE"

\* The steps of an OffLineTask, and those after it has forgotten its device.
OffLineTaskStep == {"queued", "meta", "list", "create", "clear", "remove", "exit"}
Forgotten == {"clear", "remove", "exit"}

\* An OffLineTask is at one of its own steps.
OffLineAtItsStep == \A t \in TaskId : OffTask(t) => pc[t] \in OffLineTaskStep

\* The cache holds devices that are online, and those whose OffLineTask is
\* about to clear it.
CacheFollows ==
    \A k \in capMem :
        \/ k[1] \in devIdEntrySet
        \/ \E t \in TaskId : At(t, "OFF_LINE", "clear") /\ task[t].dev = k[1]

\* What a step of the task subsystem may do to the rest: some task is alive,
\* OffLineTasks neither come nor go, and a device loses its entry only to its
\* OffLineTask.
TaskMoves ==
    /\ \E v \in TaskId : Alive(v)
    /\ \A u \in TaskId : OffTask(u) <=> OffTask(u)'
    /\ \A u \in TaskId : OffTask(u) => task'[u] = task[u]
    /\ \A u \in TaskId : pc[u] = "exit" => pc'[u] = "exit"
    /\ \A u \in TaskId : OffTask(u) /\ pc'[u] \in Forgotten =>
          pc[u] \in Forgotten \/ task[u].dev \notin devIdEntrySet'
    /\ \/ devIdEntrySet' = devIdEntrySet
       \/ \E t \in TaskId : OffTask(t) /\ devIdEntrySet' = devIdEntrySet \ {task[t].dev}

\* What is shown of a step of a task.
StepFollows == TaskMoves /\ OffLineAtItsStep' /\ (CacheFollows => CacheFollows')

\* A task goes on; no device is forgotten and the cache stays.
LEMMA GoingOnFollows ==
    ASSUME FlowInv, OffLineAtItsStep, NEW t \in TaskId, Alive(t), NEW step, step # "free",
           task' = task, pc' = [pc EXCEPT ![t] = step],
           OffTask(t) => /\ pc[t] # "clear" /\ step \in OffLineTaskStep
                         /\ step \in Forgotten => pc[t] \in Forgotten,
           UNCHANGED <<devIdEntrySet, capMem>>
    PROVE  StepFollows
  <1> USE DEF FlowInv, TypeOK, Alive, OffTask, Forgotten
  <1>1. TaskMoves
    BY DEF TaskMoves
  <1>2. ASSUME CacheFollows
        PROVE  CacheFollows'
    BY <1>2 DEF CacheFollows, At
  <1>3. OffLineAtItsStep'
    BY DEF OffLineAtItsStep, OffLineTaskStep
  <1> QED BY <1>1, <1>2, <1>3 DEF StepFollows

\* A father creates a child, which is no OffLineTask.
LEMMA CreatingFollows ==
    ASSUME FlowInv, OffLineAtItsStep, NEW t \in TaskId, Alive(t), NEW id \in TaskId, pc[id] = "free",
           NEW param \in TaskParam, param.type # "OFF_LINE", NEW step, step # "free",
           task' = [task EXCEPT ![id] = param],
           pc' = [pc EXCEPT ![id] = "queued", ![t] = step],
           OffTask(t) => pc[t] # "clear" /\ step \in OffLineTaskStep \ Forgotten,
           UNCHANGED <<devIdEntrySet, capMem>>
    PROVE  StepFollows
  <1> USE DEF FlowInv, TypeOK, Alive, OffTask, Forgotten
  <1>0. t # id
    OBVIOUS
  <1>1. TaskMoves
    BY <1>0 DEF TaskMoves
  <1>2. ASSUME CacheFollows
        PROVE  CacheFollows'
    BY <1>0, <1>2 DEF CacheFollows, At
  <1>3. OffLineAtItsStep'
    BY <1>0 DEF OffLineAtItsStep, OffLineTaskStep
  <1> QED BY <1>1, <1>2, <1>3 DEF StepFollows

\* A task that is no OffLineTask is destroyed.
LEMMA EndingFollows ==
    ASSUME FlowInv, OffLineAtItsStep, NEW t \in TaskId, Alive(t), task[t].type # "OFF_LINE", Destroy(t),
           UNCHANGED <<devIdEntrySet, capMem>>
    PROVE  StepFollows
  <1> USE DEF FlowInv, TypeOK, Alive, OffTask, Forgotten, Destroy, Goto
  <1>1. TaskMoves
    BY DEF TaskMoves
  <1>2. ASSUME CacheFollows
        PROVE  CacheFollows'
    BY <1>2 DEF CacheFollows, At
  <1>3. OffLineAtItsStep'
    BY DEF OffLineAtItsStep, OffLineTaskStep
  <1> QED BY <1>1, <1>2, <1>3 DEF StepFollows

\* The steps of an OnLineTask.
LEMMA OnLineStepFollows ==
    ASSUME FlowInv, OffLineAtItsStep, NEW t \in TaskId, OnLineStep(t)
    PROVE  StepFollows
  <1> USE DEF contextVars
  <1>0. task[t].type = "ON_LINE" /\ Alive(t) /\ ~OffTask(t)
    BY DEF OnLineStep, DoSyncInfo, CreateEnableList, CreateEnableTask, CreateMetaEnableTask,
           FinishOnLine, At, Alive, OffTask
  <1>p. task[t].dev \in Device
    BY <1>0, TaskHasParam DEF Alive
  <1>1. CASE DoSyncInfo(t) \/ CreateEnableList(t)
    BY <1>0, <1>1, GoingOnFollows DEF DoSyncInfo, CreateEnableList, Goto
  <1>2. CASE CreateEnableTask(t)
    <2>1. PICK h \in todo[t] : CreateChildOfOnLine(t, "ENABLE", h, "create", todo[t] \ {h})
      BY <1>2 DEF CreateEnableTask
    <2> DEFINE param == [type |-> "ENABLE", dev |-> task[t].dev, dh |-> h]
    <2>2. param \in TaskParam /\ param.type # "OFF_LINE"
      BY <1>p DEF TaskParam, FlowInv, TypeOK
    <2>3. /\ FreshId \in TaskId /\ pc[FreshId] = "free"
          /\ task' = [task EXCEPT ![FreshId] = param]
          /\ pc' = [pc EXCEPT ![FreshId] = "queued", ![t] = "create"]
      BY <2>1, FreshIdIsFree DEF CreateChildOfOnLine
    <2> HIDE DEF param
    <2> QED BY <1>0, <1>2, <2>2, <2>3, CreatingFollows DEF CreateEnableTask
  <1>3. CASE CreateMetaEnableTask(t)
    <2> DEFINE param == [type |-> "META_ENABLE", dev |-> task[t].dev, dh |-> NoDh]
    <2>2. param \in TaskParam /\ param.type # "OFF_LINE"
      BY <1>p DEF TaskParam, TaskType
    <2>3. /\ FreshId \in TaskId /\ pc[FreshId] = "free"
          /\ task' = [task EXCEPT ![FreshId] = param]
          /\ pc' = [pc EXCEPT ![FreshId] = "queued", ![t] = "remove"]
      BY <1>3, FreshIdIsFree DEF CreateMetaEnableTask, CreateChildOfOnLine
    <2> HIDE DEF param
    <2> QED BY <1>0, <1>3, <2>2, <2>3, CreatingFollows DEF CreateMetaEnableTask
  <1>4. CASE FinishOnLine(t)
    BY <1>0, <1>4, EndingFollows DEF FinishOnLine
  <1> QED BY <1>1, <1>2, <1>3, <1>4 DEF OnLineStep

\* The steps of an OffLineTask.
LEMMA OffLineStepFollows ==
    ASSUME FlowInv, OffLineAtItsStep, NEW t \in TaskId, OffLineStep(t)
    PROVE  StepFollows
  <1> USE DEF contextVars
  <1>0. task[t].type = "OFF_LINE" /\ Alive(t) /\ OffTask(t)
    BY DEF OffLineStep, CreateMetaDisableTask, CreateDisableList, CreateDisableTask,
           WaitDisableTaskFinish, ClearOffLineInfo, RemoveOffLine, At, Alive, OffTask
  <1>p. task[t].dev \in Device
    BY <1>0, TaskHasParam DEF Alive
  <1>1. CASE CreateDisableList(t) \/ RemoveOffLine(t)
    BY <1>0, <1>1, GoingOnFollows DEF CreateDisableList, RemoveOffLine, Goto, At, Forgotten, OffLineTaskStep
  <1>2. CASE CreateDisableTask(t)
    <2>1. PICK h \in todo[t] : CreateChildOfOffLine(t, "DISABLE", h, "create", todo[t] \ {h})
      BY <1>2 DEF CreateDisableTask
    <2> DEFINE param == [type |-> "DISABLE", dev |-> task[t].dev, dh |-> h]
    <2>2. param \in TaskParam /\ param.type # "OFF_LINE"
      BY <1>p DEF TaskParam, FlowInv, TypeOK
    <2>3. /\ FreshId \in TaskId /\ pc[FreshId] = "free" /\ pc[t] # "clear"
          /\ task' = [task EXCEPT ![FreshId] = param]
          /\ pc' = [pc EXCEPT ![FreshId] = "queued", ![t] = "create"]
      BY <1>2, <2>1, FreshIdIsFree DEF CreateChildOfOffLine, CreateDisableTask, At
    <2> HIDE DEF param
    <2> QED BY <1>0, <1>2, <2>2, <2>3, CreatingFollows DEF CreateDisableTask, Forgotten, OffLineTaskStep
  <1>3. CASE CreateMetaDisableTask(t)
    <2> DEFINE param == [type |-> "META_DISABLE", dev |-> task[t].dev, dh |-> NoDh]
    <2>2. param \in TaskParam /\ param.type # "OFF_LINE"
      BY <1>p DEF TaskParam, TaskType
    <2>3. /\ FreshId \in TaskId /\ pc[FreshId] = "free" /\ pc[t] # "clear"
          /\ task' = [task EXCEPT ![FreshId] = param]
          /\ pc' = [pc EXCEPT ![FreshId] = "queued", ![t] = "list"]
      BY <1>3, FreshIdIsFree DEF CreateMetaDisableTask, CreateChildOfOffLine, At
    <2> HIDE DEF param
    <2> QED BY <1>0, <1>3, <2>2, <2>3, CreatingFollows DEF CreateMetaDisableTask, Forgotten, OffLineTaskStep
  <1>4. CASE WaitDisableTaskFinish(t)
    <2> USE DEF WaitDisableTaskFinish, Goto, FlowInv, TypeOK, OffTask, Forgotten
    <2>1. TaskMoves
      <3>1. \A u \in TaskId : u # t => pc'[u] = pc[u] /\ task'[u] = task[u]
        BY <1>4
      <3>2. pc'[t] = "clear" /\ task' = task /\ pc[t] = "create"
        BY <1>4 DEF At
      <3>3. devIdEntrySet' = devIdEntrySet \ {task[t].dev}
        BY <1>4
      <3> QED BY <1>0, <3>1, <3>2, <3>3 DEF TaskMoves
    <2>2. ASSUME CacheFollows
          PROVE  CacheFollows'
      <3> SUFFICES ASSUME NEW k \in capMem
                   PROVE  \/ k[1] \in devIdEntrySet'
                          \/ \E u \in TaskId : At(u, "OFF_LINE", "clear")' /\ task'[u].dev = k[1]
        BY <1>4 DEF CacheFollows
      <3>1. CASE k[1] = task[t].dev
        BY <1>0, <1>4, <3>1 DEF At
      <3>2. CASE k[1] # task[t].dev
        BY <1>4, <2>2, <3>2 DEF CacheFollows, At
      <3> QED BY <3>1, <3>2
    <2>3. OffLineAtItsStep'
      BY <1>0, <1>4 DEF OffLineAtItsStep, OffLineTaskStep
    <2> QED BY <2>1, <2>2, <2>3 DEF StepFollows
  <1>5. CASE ClearOffLineInfo(t)
    <2> USE DEF ClearOffLineInfo, Goto, FlowInv, TypeOK, OffTask, Forgotten
    <2>1. TaskMoves
      BY <1>0, <1>5 DEF TaskMoves, At
    <2>2. ASSUME CacheFollows
          PROVE  CacheFollows'
      <3> SUFFICES ASSUME NEW k \in capMem'
                   PROVE  \/ k[1] \in devIdEntrySet'
                          \/ \E u \in TaskId : At(u, "OFF_LINE", "clear")' /\ task'[u].dev = k[1]
        BY <1>5 DEF CacheFollows
      <3>1. k \in capMem /\ k[1] # task[t].dev
        BY <1>5 DEF KeysOf, Key
      <3> QED BY <1>5, <2>2, <3>1 DEF CacheFollows, At
    <2>3. OffLineAtItsStep'
      BY <1>0, <1>5 DEF OffLineAtItsStep, OffLineTaskStep
    <2> QED BY <2>1, <2>2, <2>3 DEF StepFollows
  <1> QED BY <1>1, <1>2, <1>3, <1>4, <1>5 DEF OffLineStep

\* The steps of the four leaf tasks.
LEMMA LeafStepFollows ==
    ASSUME FlowInv, OffLineAtItsStep, NEW t \in TaskId, LeafStep(t)
    PROVE  StepFollows
  <1> USE DEF contextVars
  <1>0. Alive(t) /\ pc[t] \in {"run", "save", "erase", "notify", "remove"}
    BY DEF LeafStep, EnableSuccess, EnableFail, SaveEnabledDevice, DisableSuccess, DisableFail,
           RemoveEnabledDevice, MetaEnable, MetaDisable, NotifyFatherFinish, NoFatherToNotify,
           FinishLeaf, At, Alive
  <1>1. CASE \/ EnableSuccess(t) \/ EnableFail(t) \/ SaveEnabledDevice(t) \/ DisableSuccess(t)
             \/ DisableFail(t) \/ RemoveEnabledDevice(t) \/ MetaEnable(t) \/ MetaDisable(t)
    <2>1. ~OffTask(t)
      BY <1>1 DEF EnableSuccess, EnableFail, SaveEnabledDevice, DisableSuccess, DisableFail,
                  RemoveEnabledDevice, MetaEnable, MetaDisable, At, OffTask
    <2>2. PICK step \in {"save", "erase", "notify", "remove"} : pc' = [pc EXCEPT ![t] = step]
      BY <1>1 DEF EnableSuccess, EnableFail, SaveEnabledDevice, DisableSuccess, DisableFail,
                  RemoveEnabledDevice, MetaEnable, MetaDisable, Goto
    <2>3. task' = task /\ UNCHANGED <<devIdEntrySet, capMem>>
      BY <1>1 DEF EnableSuccess, EnableFail, SaveEnabledDevice, DisableSuccess, DisableFail,
                  RemoveEnabledDevice, MetaEnable, MetaDisable
    <2> QED BY <1>0, <2>1, <2>2, <2>3, GoingOnFollows
  <1>2. CASE NotifyFatherFinish(t) \/ NoFatherToNotify(t)
    <2>1. ~OffTask(t)
      <3>1. pc[t] = "notify"
        BY <1>2 DEF NotifyFatherFinish, NoFatherToNotify
      <3> QED BY <3>1 DEF OffLineAtItsStep, OffLineTaskStep
    <2> QED BY <1>0, <1>2, <2>1, GoingOnFollows DEF NotifyFatherFinish, NoFatherToNotify, Goto
  <1>3. CASE FinishLeaf(t)
    BY <1>0, <1>3, EndingFollows DEF FinishLeaf
  <1> QED BY <1>1, <1>2, <1>3 DEF LeafStep

\* TriggerTask and DoTask move tasks through the queues.
LEMMA QueuesFollow ==
    ASSUME FlowInv, OffLineAtItsStep, TriggerTask \/ DoTask
    PROVE  StepFollows
  <1> USE DEF contextVars
  <1>1. CASE TriggerTask
    <2>1. Head(taskQueue) \in TaskId /\ Alive(Head(taskQueue))
      <3>1. taskQueue # <<>> /\ taskQueue \in Seq(TaskId)
        BY <1>1 DEF TriggerTask, FlowInv, TypeOK
      <3>2. Len(taskQueue) >= 1 /\ Head(taskQueue) = taskQueue[1] /\ Head(taskQueue) \in TaskId
        BY <3>1
      <3>3. pc[taskQueue[1]] = "queued"
        BY <3>1, <3>2 DEF FlowInv, QueuedOnce
      <3> QED BY <3>2, <3>3 DEF Alive
    <2>2. task' = task /\ pc' = pc /\ devIdEntrySet' = devIdEntrySet /\ capMem' = capMem
      BY <1>1 DEF TriggerTask, objectVars
    <2>3. TaskMoves
      BY <2>1, <2>2 DEF TaskMoves, OffTask, Forgotten
    <2> QED BY <2>2, <2>3 DEF StepFollows, OffLineAtItsStep, CacheFollows, OffTask, At
  <1>2. CASE DoTask
    <2> DEFINE t == Head(eventQueue)
    <2>1. t \in TaskId /\ pc[t] = "queued"
      <3>1. eventQueue # <<>> /\ eventQueue \in Seq(TaskId)
        BY <1>2 DEF DoTask, FlowInv, TypeOK
      <3>2. Len(eventQueue) >= 1 /\ t = eventQueue[1] /\ t \in TaskId
        BY <3>1
      <3>3. pc[eventQueue[1]] = "queued"
        BY <3>1, <3>2 DEF FlowInv, QueuedOnce
      <3> QED BY <3>2, <3>3
    <2>2. /\ pc' = [pc EXCEPT ![t] = FirstStep(task[t].type)] /\ task' = task
          /\ UNCHANGED <<devIdEntrySet, capMem>>
      BY <1>2 DEF DoTask, Goto
    <2> HIDE DEF t
    <2>3. /\ Alive(t) /\ FirstStep(task[t].type) # "free"
          /\ OffTask(t) => FirstStep(task[t].type) = "meta"
      BY <2>1 DEF Alive, FirstStep, OffTask
    <2> QED BY <2>1, <2>2, <2>3, GoingOnFollows DEF OffLineTaskStep, Forgotten
  <1> QED BY <1>1, <1>2

\* Every step of the threads of the task subsystem.
LEMMA ThreadsFollow ==
    ASSUME FlowInv, OffLineAtItsStep, Threads
    PROVE  StepFollows
  BY QueuesFollow, OnLineStepFollows, OffLineStepFollows, LeafStepFollows DEF Threads, TaskStep

-----------------------------------------------------------------------------
(* The capability cache, whatever the pace *)

CacheInv == OffLineAtItsStep /\ CacheFollows

\* A step that leaves tasks and cache alone, and takes no entry away.
LEMMA QuietKeepsCache ==
    ASSUME CacheInv, UNCHANGED <<task, pc, capMem>>, devIdEntrySet \subseteq devIdEntrySet'
    PROVE  CacheInv'
  BY DEF CacheInv, OffLineAtItsStep, CacheFollows, OffTask, At

\* A new root task takes a free slot, and waits there.
LEMMA RootTakesFreeSlot ==
    ASSUME FlowInv, NEW type, NEW d, NEW h, CreateRootTask(type, d, h)
    PROVE  \E id \in TaskId :
               /\ pc[id] = "free"
               /\ task' = [task EXCEPT ![id] = [type |-> type, dev |-> d, dh |-> h]]
               /\ pc' = [pc EXCEPT ![id] = "queued"]
               /\ tasks' = tasks \cup {id}
  BY FreshIdIsFree DEF CreateRootTask, Goto, AddTask

\* A root task is created, together with a change of the cache: what is added
\* to it is of a device that has its entry.
LEMMA RootKeepsCache ==
    ASSUME FwkInv, CacheInv, NEW type, NEW d, NEW h, CreateRootTask(type, d, h),
           \A k \in capMem' : k \in capMem \/ k[1] \in devIdEntrySet,
           UNCHANGED devIdEntrySet
    PROVE  CacheInv'
  <1>1. PICK id \in TaskId :
               /\ pc[id] = "free"
               /\ task' = [task EXCEPT ![id] = [type |-> type, dev |-> d, dh |-> h]]
               /\ pc' = [pc EXCEPT ![id] = "queued"]
    BY RootTakesFreeSlot DEF FwkInv
  <1> USE DEF FwkInv, FlowInv, TypeOK
  <1>2. \A u \in TaskId : u # id => pc'[u] = pc[u] /\ task'[u] = task[u]
    BY <1>1
  <1>3. pc'[id] = "queued"
    BY <1>1
  <1>4. OffLineAtItsStep'
    BY <1>2, <1>3 DEF CacheInv, OffLineAtItsStep, OffTask, OffLineTaskStep
  <1>5. CacheFollows'
    BY <1>1, <1>2 DEF CacheInv, CacheFollows, At
  <1> QED BY <1>4, <1>5 DEF CacheInv

\* An OffLineTask returns; it has cleared the cache long before.
LEMMA ReturnKeepsCache ==
    ASSUME FwkInv, CacheInv, NEW t \in TaskId, TailReturn(t)
    PROVE  CacheInv'
  <1> USE DEF FwkInv, FlowInv, TypeOK, TailReturn, FinishOffLine, Destroy, Goto, At, contextVars
  <1>1. OffLineAtItsStep'
    BY DEF CacheInv, OffLineAtItsStep, OffTask
  <1>2. CacheFollows'
    BY DEF CacheInv, CacheFollows
  <1> QED BY <1>1, <1>2 DEF CacheInv

\* The steps of an event leave the cache alone and take no entry away.
LEMMA SendingKeepsCache ==
    ASSUME FwkInv, CacheInv, NEW s \in Sender, SendOnLineEvent(s) \/ SendOffLineEvent(s)
    PROVE  CacheInv'
  <1>1. CASE PushDeviceTask(s, "push", "ON_LINE") \/ PushDeviceTask(s, "off_push", "OFF_LINE")
    BY <1>1, RootKeepsCache DEF PushDeviceTask, contextVars
  <1>2. CASE ~(PushDeviceTask(s, "push", "ON_LINE") \/ PushDeviceTask(s, "off_push", "OFF_LINE"))
    <2>1. UNCHANGED <<task, pc, capMem>> /\ devIdEntrySet \subseteq devIdEntrySet'
      BY <1>2 DEF SendOnLineEvent, SendOffLineEvent, CheckUnInitFlag, CheckRepeatOnline,
             AddOnlineDevice, AddRealTimeOnlineDevice, CheckInit, InitializeLocal, Initialize,
             SetAllInit, SetInit, CheckRepeatOffline, DeleteRealTimeOnlineDevice, CheckLastDevice,
             SetUnInitFlag, flowVars, objectVars, contextVars
    <2> QED BY <2>1, QuietKeepsCache
  <1> QED BY <1>1, <1>2

\* The tail of an OffLineTask leaves the cache alone, its return included.
LEMMA TailKeepsCache ==
    ASSUME FwkInv, CacheInv, NEW t \in TaskId, OffLineTail(t)
    PROVE  CacheInv'
  <1>1. CASE TailReturn(t)
    BY <1>1, ReturnKeepsCache
  <1>2. CASE ~TailReturn(t)
    <2>1. UNCHANGED <<task, pc, capMem>> /\ devIdEntrySet \subseteq devIdEntrySet'
      BY <1>2 DEF OffLineTail, CheckRelease, ReleaseComponents, ReleaseDatabases, ResetAllInit,
             ResetLocalInit, ResetInit, ResetUnInitFlag, ExitDHFWK, KeepServing, Reinit,
             ResendOnLine, ReturnFromResend, flowVars, objectVars, contextVars
    <2> QED BY <2>1, QuietKeepsCache
  <1> QED BY <1>1, <1>2

\* A handler of a database change adds to the cache only for a device that has
\* its entry, in the step that looks it up.
LEMMA HandlingKeepsCache ==
    ASSUME FwkInv, CacheInv, NEW d \in Device, NEW h \in DhId, HandleChange(d, h)
    PROVE  CacheInv'
  <1>1. CASE HandleCapabilityAddChange(d, h) \/ HandleCapabilityUpdateChange(d, h)
    <2>1. d \in devIdEntrySet
      BY <1>1, DHFwkAssumption
         DEF HandleCapabilityAddChange, HandleCapabilityUpdateChange, GetNetworkIdByUUID,
             GetUUIDByDeviceId, Entry
    <2>2. \A k \in capMem' : k \in capMem \/ k[1] \in devIdEntrySet
      BY <1>1, <2>1 DEF HandleCapabilityAddChange, HandleCapabilityUpdateChange,
             SubmitHardwareTask
    <2> QED BY <1>1, <2>2, RootKeepsCache
            DEF HandleCapabilityAddChange, HandleCapabilityUpdateChange, SubmitHardwareTask
  <1>2. CASE \/ HandleCapabilityDeleteChange(d, h) \/ HandleMetaCapabilityAddChange(d, h)
             \/ HandleMetaCapabilityUpdateChange(d, h)
    <2>1. capMem' \subseteq capMem
      BY <1>2 DEF HandleCapabilityDeleteChange, HandleMetaCapabilityAddChange,
             HandleMetaCapabilityUpdateChange, SubmitHardwareTask
    <2> QED BY <1>2, <2>1, RootKeepsCache
            DEF HandleCapabilityDeleteChange, HandleMetaCapabilityAddChange,
                HandleMetaCapabilityUpdateChange, SubmitHardwareTask
  <1>3. CASE \/ HandleMetaCapabilityDeleteChange(d, h)
             \/ \E st \in Store, kind \in {"add", "update", "delete"} : SkipChange(st, kind, d, h)
    BY <1>3, QuietKeepsCache
       DEF HandleMetaCapabilityDeleteChange, SkipChange, flowVars, objectVars, contextVars
  <1> QED BY <1>1, <1>2, <1>3 DEF HandleChange

\* A recovery of the database reads the records of devices that are online.
LEMMA EnvironmentKeepsCache ==
    ASSUME FwkInv, CacheInv, Environment
    PROVE  CacheInv'
  <1>1. CASE SyncRemoteCapabilityInfos
    <2>1. PICK found \in SUBSET (devIdEntrySet \X DhId) : capMem' = capMem \cup found
      BY <1>1 DEF SyncRemoteCapabilityInfos
    <2>2. \A k \in found : k[1] \in devIdEntrySet
      OBVIOUS
    <2>3. UNCHANGED <<task, pc, devIdEntrySet>>
      BY <1>1 DEF SyncRemoteCapabilityInfos, objectVars
    <2> QED BY <2>1, <2>2, <2>3 DEF CacheInv, OffLineAtItsStep, CacheFollows, OffTask, At
  <1>2. CASE ~SyncRemoteCapabilityInfos
    <2>1. UNCHANGED <<task, pc, capMem>> /\ devIdEntrySet \subseteq devIdEntrySet'
      BY <1>2 DEF Environment, DeviceJoins, DeviceLeaves, IsomerismConnect, IsomerismDisconnect,
             OnChange, SyncRemoteMetaInfos, DmEvent, DbEvent, flowVars, objectVars, contextVars
    <2> QED BY <2>1, QuietKeepsCache
  <1> QED BY <1>1, <1>2

\* Every step of the service.
LEMMA NextKeepsCache ==
    ASSUME FwkInv, CacheInv, [Next]_vars
    PROVE  CacheInv'
  <1>1. CASE Threads /\ UNCHANGED fwkVars
    BY <1>1, ThreadsFollow DEF StepFollows, CacheInv, FwkInv
  <1>2. CASE \/ CheckTrustedDeviceOnline \/ OnDeviceReady \/ OnDeviceOffline
             \/ UNCHANGED vars
    BY <1>2, QuietKeepsCache DEF CheckTrustedDeviceOnline, OnDeviceReady, OnDeviceOffline, vars,
                                 flowVars, objectVars, contextVars
  <1> QED BY <1>1, <1>2, TailKeepsCache, SendingKeepsCache, HandlingKeepsCache,
             EnvironmentKeepsCache DEF Next

\* Whatever the pace of devices and databases, the number of devices and the
\* interleaving of the threads, a database change that arrives during an
\* offline task never leaves the capability of an offline device in the cache.
THEOREM CacheIsOfOnlineDevices == Spec => []CacheOfOnlineDevices
  <1>1. Init => CacheInv
    BY DEF Init, FlowInit, CacheInv, OffLineAtItsStep, CacheFollows, OffTask
  <1>2. FwkInv /\ CacheInv /\ [Next]_vars => CacheInv'
    BY NextKeepsCache
  <1>3. CacheInv => CacheOfOnlineDevices
    BY DEF CacheInv, CacheFollows, CacheOfOnlineDevices, Settled, At
  <1> QED BY <1>1, <1>2, <1>3, ServiceInvariant, PTL DEF Spec

-----------------------------------------------------------------------------
(* The entries and the real-time set *)

\* The steps of a sender, and of an OffLineTask, that stand for a device which
\* has its entry and is not counted.
Turning == {"realtime", "off_count", "off_iso", "off_flag", "off_push"}
Taking == {"queued", "meta", "list", "create"}

TakesAway(t, d) == pc[t] \in Taking /\ task[t].type = "OFF_LINE" /\ task[t].dev = d

\* EntryIsCounted with the two sets of steps named.
LEMMA CountedMeans ==
    EntryIsCounted <=>
        \A d \in devIdEntrySet \ realTime :
            \/ \E s \in Sender : sendDev[s] = d /\ sendPc[s] \in Turning
            \/ \E t \in TaskId : TakesAway(t, d)
  BY DEF EntryIsCounted, Turning, Taking, TakesAway, At

LEMMA CountedMeansNext ==
    EntryIsCounted' <=>
        \A d \in devIdEntrySet' \ realTime' :
            \/ \E s \in Sender : sendDev'[s] = d /\ sendPc'[s] \in Turning
            \/ \E t \in TaskId : TakesAway(t, d)'
  BY DEF EntryIsCounted, Turning, Taking, TakesAway, At

\* A step that gives no entry, takes no device out of the real-time set and
\* leaves everyone who stands for a device at work.
LEMMA StandingKeepsCount ==
    ASSUME EntryIsCounted, devIdEntrySet' \subseteq devIdEntrySet, realTime \subseteq realTime',
           \A s \in Sender : sendPc[s] \in Turning =>
               sendPc'[s] \in Turning /\ sendDev'[s] = sendDev[s],
           \A t \in TaskId : \A d \in devIdEntrySet' : TakesAway(t, d) => TakesAway(t, d)'
    PROVE  EntryIsCounted'
  BY CountedMeans, CountedMeansNext

\* A new root task leaves the other tasks where they are.
LEMMA RootKeepsTaking ==
    ASSUME FwkInv, NEW type, NEW d, NEW h, CreateRootTask(type, d, h)
    PROVE  /\ \A t \in TaskId : \A e \in Device : TakesAway(t, e) => TakesAway(t, e)'
           /\ type = "OFF_LINE" => \E t \in TaskId : TakesAway(t, d)'
  <1>1. PICK id \in TaskId :
               /\ pc[id] = "free"
               /\ task' = [task EXCEPT ![id] = [type |-> type, dev |-> d, dh |-> h]]
               /\ pc' = [pc EXCEPT ![id] = "queued"]
    BY RootTakesFreeSlot DEF FwkInv
  <1> USE DEF FwkInv, FlowInv, TypeOK, TakesAway, Taking
  <1>2. \A u \in TaskId : u # id => pc'[u] = pc[u] /\ task'[u] = task[u]
    BY <1>1
  <1>3. pc'[id] = "queued" /\ task'[id] = [type |-> type, dev |-> d, dh |-> h]
    BY <1>1
  <1>4. \A t \in TaskId : \A e \in Device : TakesAway(t, e) => TakesAway(t, e)'
    BY <1>1, <1>2
  <1>5. type = "OFF_LINE" => TakesAway(id, d)'
    BY <1>3
  <1> QED BY <1>4, <1>5

\* The threads of the task subsystem: a device loses its entry in the step in
\* which its OffLineTask ceases to stand for it.
LEMMA ThreadsKeepCount ==
    ASSUME FwkInv, CacheInv, EntryIsCounted, Threads, UNCHANGED fwkVars
    PROVE  EntryIsCounted'
  <1>1. TaskMoves /\ OffLineAtItsStep'
    BY ThreadsFollow DEF StepFollows, FwkInv, CacheInv
  <1>2. devIdEntrySet' \subseteq devIdEntrySet
    BY <1>1 DEF TaskMoves
  <1>3. ASSUME NEW t \in TaskId, NEW d \in devIdEntrySet', TakesAway(t, d)
        PROVE  TakesAway(t, d)'
    <2>1. OffTask(t) /\ pc[t] \notin Forgotten /\ task[t].dev = d
      BY <1>3 DEF TakesAway, Taking, OffTask, Forgotten
    <2>2. OffTask(t)' /\ task'[t] = task[t]
      BY <1>1, <2>1 DEF TaskMoves
    <2>3. pc'[t] \notin Forgotten
      BY <1>1, <1>3, <2>1 DEF TaskMoves
    <2>4. pc'[t] \in Taking
      BY <1>1, <2>2, <2>3 DEF OffLineAtItsStep, OffLineTaskStep, Forgotten, Taking
    <2> QED BY <1>3, <2>2, <2>4 DEF TakesAway
  <1>4. realTime' = realTime /\ sendPc' = sendPc /\ sendDev' = sendDev
    BY DEF fwkVars, countVars, sendVars
  <1> QED BY <1>2, <1>3, <1>4, StandingKeepsCount

\* The steps of an event. The offline event of a device pushes the OffLineTask
\* that stands for it from then on.
LEMMA SendingKeepsCount ==
    ASSUME FwkInv, EntryIsCounted, NEW s \in Sender, SendOnLineEvent(s) \/ SendOffLineEvent(s)
    PROVE  EntryIsCounted'
  <1> USE DEF FwkInv, FwkTypeOK, SendGoto, SendReturn
  <1>t. sendPc \in [Sender -> SendStep] /\ sendDev \in [Sender -> Device \cup {NoDevice}]
    OBVIOUS
  <1>d. devIdEntrySet \subseteq Device
    BY DEF FlowInv, TypeOK
  <1>1. CASE AddOnlineDevice(s)
    <2>1. /\ sendPc'[s] = "realtime" /\ sendDev' = sendDev /\ realTime' = realTime
          /\ devIdEntrySet' = devIdEntrySet \cup {sendDev[s]}
          /\ UNCHANGED <<task, pc>>
      BY <1>1 DEF AddOnlineDevice, countVars, objectVars
    <2>2. \A u \in Sender : sendPc[u] \in Turning => sendPc'[u] \in Turning
      BY <1>1 DEF AddOnlineDevice, Turning
    <2>3. \A t \in TaskId : \A d \in devIdEntrySet : TakesAway(t, d) => TakesAway(t, d)'
      BY <2>1 DEF TakesAway
    <2>4. sendPc'[s] \in Turning
      BY <2>1 DEF Turning
    <2> QED BY <2>1, <2>2, <2>3, <2>4, CountedMeans, CountedMeansNext
  <1>2. CASE AddRealTimeOnlineDevice(s)
    <2>1. /\ sendPc[s] = "realtime" /\ sendDev' = sendDev
          /\ realTime' = realTime \cup {sendDev[s]}
          /\ UNCHANGED <<task, pc, devIdEntrySet>>
      BY <1>2 DEF AddRealTimeOnlineDevice, flowVars, objectVars, contextVars
    <2>2. \A u \in Sender : u # s => sendPc'[u] = sendPc[u]
      BY <1>2 DEF AddRealTimeOnlineDevice
    <2>3. \A t \in TaskId : \A d \in devIdEntrySet : TakesAway(t, d) => TakesAway(t, d)'
      BY <2>1 DEF TakesAway
    <2> QED BY <2>1, <2>2, <2>3, CountedMeans, CountedMeansNext
  <1>3. CASE DeleteRealTimeOnlineDevice(s)
    <2>1. /\ sendPc'[s] = "off_count" /\ sendDev' = sendDev
          /\ realTime' = realTime \ {sendDev[s]}
          /\ UNCHANGED <<task, pc, devIdEntrySet>>
      BY <1>3 DEF DeleteRealTimeOnlineDevice, flowVars, objectVars, contextVars
    <2>2. \A u \in Sender : sendPc[u] \in Turning => sendPc'[u] \in Turning
      BY <1>3 DEF DeleteRealTimeOnlineDevice, Turning
    <2>3. \A t \in TaskId : \A d \in devIdEntrySet : TakesAway(t, d) => TakesAway(t, d)'
      BY <2>1 DEF TakesAway
    <2>4. sendPc'[s] \in Turning
      BY <2>1 DEF Turning
    <2> QED BY <2>1, <2>2, <2>3, <2>4, CountedMeans, CountedMeansNext
  <1>4. CASE PushDeviceTask(s, "off_push", "OFF_LINE")
    <2>0. PICK e : e = sendDev[s]
      OBVIOUS
    <2>1. /\ CreateRootTask("OFF_LINE", e, NoDh)
          /\ UNCHANGED <<devIdEntrySet, realTime>>
      BY <1>4, <2>0 DEF PushDeviceTask, contextVars, countVars
    <2>2. \A u \in Sender : u # s => sendPc'[u] = sendPc[u] /\ sendDev'[u] = sendDev[u]
      BY <1>4 DEF PushDeviceTask
    <2>3. /\ \A t \in TaskId : \A d \in Device : TakesAway(t, d) => TakesAway(t, d)'
          /\ \E t \in TaskId : TakesAway(t, e)'
      BY <2>1, RootKeepsTaking
    <2> QED BY <1>d, <2>0, <2>1, <2>2, <2>3, CountedMeans, CountedMeansNext
  <1>5. CASE PushDeviceTask(s, "push", "ON_LINE")
    <2>1. /\ CreateRootTask("ON_LINE", sendDev[s], NoDh)
          /\ UNCHANGED <<devIdEntrySet, realTime>>
      BY <1>5 DEF PushDeviceTask, contextVars, countVars
    <2>2. \A u \in Sender : sendPc[u] \in Turning =>
              sendPc'[u] = sendPc[u] /\ sendDev'[u] = sendDev[u]
      BY <1>5 DEF PushDeviceTask, Turning
    <2>3. \A t \in TaskId : \A d \in Device : TakesAway(t, d) => TakesAway(t, d)'
      BY <2>1, RootKeepsTaking
    <2> QED BY <1>d, <2>1, <2>2, <2>3, StandingKeepsCount
  <1>6. CASE \/ CheckUnInitFlag(s) \/ CheckRepeatOnline(s) \/ CheckInit(s, "init", "local", "push")
             \/ InitializeLocal(s, "local", "load", "setinit") \/ Initialize(s, "load", "setall")
             \/ SetAllInit(s, "setall", "setinit") \/ SetInit(s, "setinit", "push")
             \/ CheckInit(s, "off_init", "off_local", "off_online")
             \/ InitializeLocal(s, "off_local", "off_load", "off_setinit")
             \/ Initialize(s, "off_load", "off_setall")
             \/ SetAllInit(s, "off_setall", "off_setinit")
             \/ SetInit(s, "off_setinit", "off_online") \/ CheckRepeatOffline(s)
    <2>1. UNCHANGED <<task, pc, devIdEntrySet, realTime>>
      BY <1>6 DEF CheckUnInitFlag, CheckRepeatOnline, CheckInit, InitializeLocal, Initialize,
             SetAllInit, SetInit, CheckRepeatOffline, flowVars, objectVars, contextVars, countVars
    <2>2. sendPc[s] \notin Turning
      BY <1>6 DEF CheckUnInitFlag, CheckRepeatOnline, CheckInit, InitializeLocal, Initialize,
             SetAllInit, SetInit, CheckRepeatOffline, Turning
    <2>3. \A u \in Sender : u # s => sendPc'[u] = sendPc[u] /\ sendDev'[u] = sendDev[u]
      BY <1>6 DEF CheckUnInitFlag, CheckRepeatOnline, CheckInit, InitializeLocal, Initialize,
             SetAllInit, SetInit, CheckRepeatOffline
    <2>4. \A t \in TaskId : \A d \in devIdEntrySet' : TakesAway(t, d) => TakesAway(t, d)'
      BY <2>1 DEF TakesAway
    <2> QED BY <2>1, <2>2, <2>3, <2>4, StandingKeepsCount
  <1>7. CASE CheckLastDevice(s) \/ SetUnInitFlag(s)
    <2>1. UNCHANGED <<task, pc, devIdEntrySet, realTime, sendDev>>
      BY <1>7 DEF CheckLastDevice, SetUnInitFlag, flowVars, objectVars, contextVars, countVars
    <2>2. \A u \in Sender : sendPc[u] \in Turning => sendPc'[u] \in Turning
      BY <1>7 DEF CheckLastDevice, SetUnInitFlag, Turning
    <2>3. \A t \in TaskId : \A d \in devIdEntrySet' : TakesAway(t, d) => TakesAway(t, d)'
      BY <2>1 DEF TakesAway
    <2> QED BY <2>1, <2>2, <2>3, StandingKeepsCount
  <1> QED BY <1>1, <1>2, <1>3, <1>4, <1>5, <1>6, <1>7 DEF SendOnLineEvent, SendOffLineEvent

\* The tail of an OffLineTask, which stands for no device any more; the threads
\* that it starts were idle.
LEMMA TailKeepsCount ==
    ASSUME FwkInv, EntryIsCounted, NEW t \in TaskId, OffLineTail(t)
    PROVE  EntryIsCounted'
  <1> USE DEF FwkInv, FwkTypeOK, FlowInv, TypeOK
  <1>1. devIdEntrySet' = devIdEntrySet /\ realTime' = realTime
    BY DEF OffLineTail, CheckRelease, ReleaseComponents, ReleaseDatabases, ResetAllInit,
           ResetLocalInit, ResetInit, ResetUnInitFlag, ExitDHFWK, KeepServing, Reinit,
           ResendOnLine, ReturnFromResend, TailReturn, FinishOffLine, flowVars, contextVars,
           countVars
  <1>2. \A s \in Sender : sendPc[s] \in Turning =>
            sendPc'[s] \in Turning /\ sendDev'[s] = sendDev[s]
    BY DEF OffLineTail, CheckRelease, ReleaseComponents, ReleaseDatabases, ResetAllInit,
           ResetLocalInit, ResetInit, ResetUnInitFlag, ExitDHFWK, KeepServing, Reinit,
           ResendOnLine, ReturnFromResend, sendVars, Turning
  <1>3. ASSUME NEW u \in TaskId, NEW d \in devIdEntrySet', TakesAway(u, d)
        PROVE  TakesAway(u, d)'
    <2>1. CASE TailReturn(t)
      <3>1. pc[t] = "exit" /\ pc' = [pc EXCEPT ![t] = "free"]
            /\ task' = [task EXCEPT ![t] = NoTask]
        BY <2>1 DEF TailReturn, FinishOffLine, Destroy, Goto, At
      <3> QED BY <1>3, <3>1 DEF TakesAway, Taking
    <2>2. CASE ~TailReturn(t)
      <3>1. UNCHANGED <<task, pc>>
        BY <2>2 DEF OffLineTail, CheckRelease, ReleaseComponents, ReleaseDatabases, ResetAllInit,
               ResetLocalInit, ResetInit, ResetUnInitFlag, ExitDHFWK, KeepServing, Reinit,
               ResendOnLine, ReturnFromResend, flowVars, objectVars
      <3> QED BY <1>3, <3>1 DEF TakesAway
    <2> QED BY <2>1, <2>2
  <1> QED BY <1>1, <1>2, <1>3, StandingKeepsCount

\* Handlers of database changes, callbacks and the environment.
LEMMA OthersKeepCount ==
    ASSUME FwkInv, EntryIsCounted,
           \/ \E d \in Device, h \in DhId : HandleChange(d, h)
           \/ CheckTrustedDeviceOnline \/ OnDeviceReady \/ OnDeviceOffline
           \/ Environment \/ UNCHANGED vars
    PROVE  EntryIsCounted'
  <1> USE DEF FwkInv, FwkTypeOK
  <1>1. CASE \E d \in Device, h \in DhId : HandleChange(d, h)
    <2>1. PICK d \in Device, h \in DhId : HandleChange(d, h)
      BY <1>1
    <2>2. UNCHANGED <<devIdEntrySet, realTime, sendPc, sendDev>>
      BY <2>1 DEF HandleChange, HandleCapabilityAddChange, HandleCapabilityUpdateChange,
             HandleCapabilityDeleteChange, HandleMetaCapabilityAddChange,
             HandleMetaCapabilityUpdateChange, HandleMetaCapabilityDeleteChange, SkipChange,
             Handle, SubmitHardwareTask, flowVars, contextVars, countVars, sendVars
    <2>3. \/ \E type, e, g : CreateRootTask(type, e, g)
          \/ UNCHANGED <<task, pc>>
      BY <2>1 DEF HandleChange, HandleCapabilityAddChange, HandleCapabilityUpdateChange,
             HandleCapabilityDeleteChange, HandleMetaCapabilityAddChange,
             HandleMetaCapabilityUpdateChange, HandleMetaCapabilityDeleteChange, SkipChange,
             SubmitHardwareTask, flowVars, objectVars
    <2>4. \A t \in TaskId : \A e \in devIdEntrySet' : TakesAway(t, e) => TakesAway(t, e)'
      <3>1. devIdEntrySet' \subseteq Device
        BY <2>2 DEF FlowInv, TypeOK
      <3>2. CASE \E type, e, g : CreateRootTask(type, e, g)
        BY <3>1, <3>2, RootKeepsTaking
      <3>3. CASE UNCHANGED <<task, pc>>
        BY <3>3 DEF TakesAway
      <3> QED BY <2>3, <3>2, <3>3
    <2> QED BY <2>2, <2>4, StandingKeepsCount
  <1>2. CASE CheckTrustedDeviceOnline \/ OnDeviceReady \/ OnDeviceOffline
    <2>1. UNCHANGED <<task, pc, devIdEntrySet, realTime>>
      BY <1>2 DEF CheckTrustedDeviceOnline, OnDeviceReady, OnDeviceOffline, flowVars, objectVars,
             contextVars, countVars
    <2>2. \A s \in Sender : sendPc[s] \in Turning =>
              sendPc'[s] \in Turning /\ sendDev'[s] = sendDev[s]
      BY <1>2 DEF CheckTrustedDeviceOnline, OnDeviceReady, OnDeviceOffline, SendBegin, SendGoto,
             sendVars, Turning
    <2>3. \A t \in TaskId : \A d \in devIdEntrySet' : TakesAway(t, d) => TakesAway(t, d)'
      BY <2>1 DEF TakesAway
    <2> QED BY <2>1, <2>2, <2>3, StandingKeepsCount
  <1>3. CASE Environment \/ UNCHANGED vars
    <2>1. UNCHANGED <<task, pc, devIdEntrySet, realTime, sendPc, sendDev>>
      BY <1>3 DEF Environment, DeviceJoins, DeviceLeaves, IsomerismConnect, IsomerismDisconnect,
             OnChange, SyncRemoteCapabilityInfos, SyncRemoteMetaInfos, DmEvent, DbEvent, vars,
             fwkVars, flowVars, objectVars, contextVars, countVars, sendVars
    <2>2. \A t \in TaskId : \A d \in devIdEntrySet' : TakesAway(t, d) => TakesAway(t, d)'
      BY <2>1 DEF TakesAway
    <2> QED BY <2>1, <2>2, StandingKeepsCount
  <1> QED BY <1>1, <1>2, <1>3

\* Whatever the pace of the environment and the interleaving of the threads,
\* a device that has its entry and is not counted as online is on its way in or
\* out: no entry is left behind that would refuse the device when it returns.
THEOREM EntriesAreCounted == Spec => []EntryIsCounted
  <1>1. Init => EntryIsCounted
    BY DEF Init, FlowInit, EntryIsCounted
  <1>2. Init => CacheInv
    BY DEF Init, FlowInit, CacheInv, OffLineAtItsStep, CacheFollows, OffTask
  <1>3. FwkInv /\ CacheInv /\ [Next]_vars => CacheInv'
    BY NextKeepsCache
  <1>4. FwkInv /\ CacheInv /\ EntryIsCounted /\ [Next]_vars => EntryIsCounted'
    BY ThreadsKeepCount, SendingKeepsCount, TailKeepsCount, OthersKeepCount DEF Next
  <1> QED BY <1>1, <1>2, <1>3, <1>4, ServiceInvariant, PTL DEF Spec
=============================================================================
