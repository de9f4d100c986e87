--------------------------- MODULE CapsSyncProofs ---------------------------
(***************************************************************************)
(* Proof about the full capability exchange (module CapsSync), for any set *)
(* of devices, hardware and connections and any bounds: an answer refreshes *)
(* a hardware at most once, whatever failures, connections, restarts and   *)
(* business states interleave with it. And while no device releases its    *)
(* transport or fails to send an answer, a device that asks no one itself  *)
(* answers whoever asks it.                                                *)
(***************************************************************************)
EXTENDS CapsSync, TLAPS

\* The types the counting argument needs.
CountTypes ==
    /\ pushes \in [Node -> [Key -> Nat]]
    /\ answers \in [Node -> [Node -> Nat]]
    /\ needRefresh = [n \in Node |-> needRefresh[n]]
    /\ handPc = [n \in Node |-> handPc[n]]
    /\ handMsg = [n \in Node |-> handMsg[n]]
    /\ handTodo = [n \in Node |-> handTodo[n]]
    /\ handDh = [n \in Node |-> handDh[n]]

BudgetInv == CountTypes /\ RefreshBudget

\* The variables RefreshBudget speaks of.
countVars == <<pushes, answers, needRefresh, handPc, handMsg, handTodo, handDh>>

\* Counting one more anywhere keeps a function a function into the numbers.
LEMMA CountUp ==
    ASSUME NEW S, NEW f \in [S -> Nat], NEW x
    PROVE  [f EXCEPT ![x] = @ + 1] \in [S -> Nat]
  <1>1. CASE x \in S
    BY <1>1
  <1>2. CASE x \notin S
    <2>1. [f EXCEPT ![x] = @ + 1] = f
      BY <1>2
    <2> QED BY <2>1
  <1> QED BY <1>1, <1>2

\* Nothing is pushed, saved or owed at first.
LEMMA InitBudget == Init => BudgetInv
  <1> SUFFICES ASSUME Init PROVE BudgetInv
    OBVIOUS
  <1>1. CountTypes
    BY DEF Init, CountTypes
  <1>2. RefreshBudget
    <2> SUFFICES ASSUME NEW n \in Node
                 PROVE  /\ \A k \in Key : pushes[n][k] + One(k \in needRefresh[n])
                                          + One(Pending(n, k)) <= answers[n][k[1]]
                        /\ handPc[n] \in {"push", "save"} => handDh[n] \notin handTodo[n]
      BY DEF RefreshBudget
    <2>1. ASSUME NEW k \in Key
          PROVE  pushes[n][k] = 0 /\ answers[n][k[1]] = 0 /\ k \notin needRefresh[n] /\ ~Pending(n, k)
      <3>1. k[1] \in Node
        BY DEF Key
      <3>2. handPc[n] = "idle" /\ pushes[n][k] = 0 /\ needRefresh[n] = {}
        BY DEF Init
      <3>3. answers[n][k[1]] = 0
        BY <3>1 DEF Init
      <3> QED BY <3>2, <3>3 DEF Pending
    <2>2. handPc[n] = "idle"
      BY DEF Init
    <2> QED BY <2>1, <2>2 DEF One
  <1> QED BY <1>1, <1>2 DEF BudgetInv

\* A step that leaves the counted variables alone keeps the invariant.
LEMMA UncountedKeeps == BudgetInv /\ UNCHANGED countVars => BudgetInv'
  <1> SUFFICES ASSUME BudgetInv, UNCHANGED countVars PROVE BudgetInv'
    OBVIOUS
  <1> QED BY DEF BudgetInv, countVars, CountTypes, RefreshBudget, Pending, One

\* A step of the handler thread of node m: nothing of another node changes, and
\* for each hardware of m the counted total grows no more than the answers.
LEMMA NodeStepKeeps ==
    ASSUME BudgetInv, CountTypes', NEW m \in Node,
           \A n \in Node \ {m} :
               /\ pushes'[n] = pushes[n] /\ answers'[n] = answers[n]
               /\ needRefresh'[n] = needRefresh[n] /\ handPc'[n] = handPc[n]
               /\ handMsg'[n] = handMsg[n] /\ handTodo'[n] = handTodo[n]
               /\ handDh'[n] = handDh[n],
           \A k \in Key : pushes'[m][k] + One(k \in needRefresh'[m]) + One(Pending(m, k)')
                          <= answers'[m][k[1]],
           handPc'[m] \in {"push", "save"} => handDh'[m] \notin handTodo'[m]
    PROVE  BudgetInv'
  <1>1. ASSUME NEW n \in Node, NEW k \in Key
        PROVE  pushes'[n][k] + One(k \in needRefresh'[n]) + One(Pending(n, k)') <= answers'[n][k[1]]
    <2>1. CASE n = m
      BY <2>1
    <2>2. CASE n # m
      <3>1. Pending(n, k)' <=> Pending(n, k)
        BY <2>2 DEF Pending
      <3>2. pushes[n][k] + One(k \in needRefresh[n]) + One(Pending(n, k)) <= answers[n][k[1]]
        BY DEF BudgetInv, RefreshBudget
      <3> QED BY <2>2, <3>1, <3>2 DEF One
    <2> QED BY <2>1, <2>2
  <1>2. ASSUME NEW n \in Node, handPc'[n] \in {"push", "save"} PROVE handDh'[n] \notin handTodo'[n]
    BY <1>2 DEF BudgetInv, RefreshBudget
  <1> QED BY <1>1, <1>2 DEF BudgetInv, RefreshBudget

\* A step that only moves the handler thread of m, and owes no more than before.
LEMMA ControlStepKeeps ==
    ASSUME BudgetInv, NEW m \in Node, UNCHANGED <<pushes, answers, needRefresh>>,
           CountTypes',
           \A n \in Node \ {m} :
               /\ handPc'[n] = handPc[n] /\ handMsg'[n] = handMsg[n]
               /\ handTodo'[n] = handTodo[n] /\ handDh'[n] = handDh[n],
           \A k \in Key : Pending(m, k)' => Pending(m, k),
           handPc'[m] \in {"push", "save"} => handDh'[m] \notin handTodo'[m]
    PROVE  BudgetInv'
  <1>1. ASSUME NEW k \in Key
        PROVE  pushes'[m][k] + One(k \in needRefresh'[m]) + One(Pending(m, k)') <= answers'[m][k[1]]
    <2>1. pushes[m][k] + One(k \in needRefresh[m]) + One(Pending(m, k)) <= answers[m][k[1]]
      BY DEF BudgetInv, RefreshBudget
    <2>2. k[1] \in Node
      BY DEF Key
    <2>3. pushes[m][k] \in Nat /\ answers[m][k[1]] \in Nat
      BY <2>2 DEF BudgetInv, CountTypes
    <2>4. Pending(m, k)' => Pending(m, k)
      OBVIOUS
    <2> QED BY <2>1, <2>3, <2>4 DEF One
  <1> QED BY <1>1, NodeStepKeeps

\* Every step keeps the count: a push or a save pays for what an answer owed.
LEMMA NextBudget == BudgetInv /\ [Next]_vars => BudgetInv'
  <1> SUFFICES ASSUME BudgetInv, [Next]_vars PROVE BudgetInv'
    OBVIOUS
  <1> USE DEF BudgetInv
  <1>1. ASSUME NEW n \in Node, StartRequest(n) PROVE BudgetInv'
    BY <1>1, UncountedKeeps
    DEF StartRequest, IsDeviceSessionOpened, Bind, BindFail, OnSocketOpened, SendReq,
        SendReqBytes, SendReqFail, countVars, handVars, bizVars, historyVars
  <1>2. ASSUME NEW n \in Node, NEW p \in Node, TriggerReqFullDHCaps(n, p) PROVE BudgetInv'
    BY <1>2, UncountedKeeps DEF TriggerReqFullDHCaps, countVars, handVars, bizVars, historyVars
  <1>3. ASSUME NEW c \in Conn, NEW n \in Node, SoftbusCallback(c, n) PROVE BudgetInv'
    BY <1>3, UncountedKeeps
    DEF SoftbusCallback, OnBind, OnBytesReceived, OnSocketClosed, Receive, countVars, handVars,
        bizVars, historyVars
  <1>4. ASSUME NEW n \in Node, UnInit(n) \/ Init_(n) PROVE BudgetInv'
    BY <1>4, UncountedKeeps DEF UnInit, Init_, countVars, handVars, bizVars, historyVars
  <1>5. ASSUME NEW n \in Node, NEW k \in Key, NEW state \in BusinessState,
               UpdateBusinessState(n, k, state)
        PROVE  BudgetInv'
    BY <1>5, UncountedKeeps DEF UpdateBusinessState, countVars, handVars, historyVars
  <1>6. ASSUME NEW m \in Node, ProcessEvent(m) PROVE BudgetInv'
    <2>1. CASE \/ GetAndSendLocalFullCaps(m) \/ SendRspBytes(m) \/ SendRspFail(m)
               \/ StopSocket(m)
               \/ ShutdownSocket(m) \/ ClearDeviceSocketOpened(m) \/ FinishRsp(m)
      <3> USE DEF GetAndSendLocalFullCaps, SendRspBytes, SendRspFail, StopSocket, ShutdownSocket,
                  ClearDeviceSocketOpened, FinishRsp, HandGoto, bizVars, historyVars, handVars
      <3>1. CountTypes' /\ UNCHANGED <<pushes, answers, needRefresh>>
        BY <2>1 DEF CountTypes
      <3>2. \A n \in Node \ {m} :
               /\ handPc'[n] = handPc[n] /\ handMsg'[n] = handMsg[n]
               /\ handTodo'[n] = handTodo[n] /\ handDh'[n] = handDh[n]
        BY <2>1 DEF CountTypes
      <3>3. \A k \in Key : Pending(m, k)' => Pending(m, k)
        BY <2>1 DEF CountTypes, Pending
      <3>4. handPc'[m] \notin {"push", "save"}
        BY <2>1 DEF CountTypes
      <3> QED BY <3>1, <3>2, <3>3, <3>4, ControlStepKeeps
    <2>2. CASE ParseAndSaveRemoteDHCaps(m)
      <3> DEFINE msg == Head(events[m])
      <3>1. /\ handPc[m] = "idle" /\ UNCHANGED <<pushes, needRefresh, handTodo, handDh>>
            /\ answers' = [answers EXCEPT ![m][msg.from] = @ + 1]
            /\ handMsg' = [handMsg EXCEPT ![m] = msg]
            /\ handPc' = [handPc EXCEPT ![m] = IF msg.caps = {} THEN "idle" ELSE "stop"]
        BY <2>2 DEF ParseAndSaveRemoteDHCaps, NextEvent, HandGoto, bizVars
      <3> HIDE DEF msg
      <3>2. CountTypes'
        <4>1. [answers[m] EXCEPT ![msg.from] = @ + 1] \in [Node -> Nat]
          <5>1. answers[m] \in [Node -> Nat]
            BY DEF CountTypes
          <5> QED BY <5>1, CountUp
        <4>2. answers' = [answers EXCEPT ![m] = [answers[m] EXCEPT ![msg.from] = @ + 1]]
          BY <3>1
        <4>3. answers' \in [Node -> [Node -> Nat]]
          BY <4>1, <4>2 DEF CountTypes
        <4> QED BY <3>1, <4>3 DEF CountTypes
      <3>3. \A n \in Node \ {m} :
               /\ pushes'[n] = pushes[n] /\ answers'[n] = answers[n]
               /\ needRefresh'[n] = needRefresh[n] /\ handPc'[n] = handPc[n]
               /\ handMsg'[n] = handMsg[n] /\ handTodo'[n] = handTodo[n]
               /\ handDh'[n] = handDh[n]
        BY <3>1 DEF CountTypes
      <3>4. handPc'[m] \in {"idle", "stop"} /\ handMsg'[m] = msg
        BY <3>1 DEF CountTypes
      <3>5. ASSUME NEW k \in Key
            PROVE  pushes'[m][k] + One(k \in needRefresh'[m]) + One(Pending(m, k)')
                   <= answers'[m][k[1]]
        <4>1. k[1] \in Node
          BY DEF Key
        <4>2. pushes[m][k] \in Nat /\ answers[m][k[1]] \in Nat
          BY <4>1 DEF CountTypes
        <4>3. pushes[m][k] + One(k \in needRefresh[m]) + One(Pending(m, k)) <= answers[m][k[1]]
          BY DEF RefreshBudget
        <4>4. ~Pending(m, k)
          BY <3>1 DEF Pending
        <4>5. CASE k[1] = msg.from
          <5>1. answers'[m][k[1]] = answers[m][k[1]] + 1
            BY <3>1, <4>1, <4>5 DEF CountTypes
          <5> QED BY <3>1, <4>2, <4>3, <4>4, <5>1 DEF One
        <4>6. CASE k[1] # msg.from
          <5>1. answers'[m][k[1]] = answers[m][k[1]]
            BY <3>1, <4>1, <4>6 DEF CountTypes
          <5>2. ~Pending(m, k)'
            BY <3>4, <4>6 DEF Pending
          <5> QED BY <3>1, <4>2, <4>3, <4>4, <5>1, <5>2 DEF One
        <4> QED BY <4>5, <4>6
      <3> QED BY <3>2, <3>3, <3>4, <3>5, NodeStepKeeps
    <2>3. CASE GetUUIDByNetworkId(m)
      <3> USE DEF GetUUIDByNetworkId, HandGoto, bizVars, historyVars
      <3>1. CountTypes' /\ UNCHANGED <<pushes, answers, needRefresh>>
        BY <2>3 DEF CountTypes
      <3>2. \A n \in Node \ {m} :
               /\ handPc'[n] = handPc[n] /\ handMsg'[n] = handMsg[n]
               /\ handTodo'[n] = handTodo[n] /\ handDh'[n] = handDh[n]
        BY <2>3 DEF CountTypes
      <3>3. \A k \in Key : Pending(m, k)' => Pending(m, k)
        BY <2>3 DEF CountTypes, Pending
      <3>4. handPc'[m] \notin {"push", "save"}
        BY <2>3 DEF CountTypes
      <3> QED BY <3>1, <3>2, <3>3, <3>4, ControlStepKeeps
    <2>4. ASSUME NEW h \in DhId, QueryBusinessState(m, h) PROVE BudgetInv'
      <3> USE DEF QueryBusinessState, HandGoto, bizVars, historyVars
      <3>1. CountTypes' /\ UNCHANGED <<pushes, answers, needRefresh>>
        BY <2>4 DEF CountTypes
      <3>2. \A n \in Node \ {m} :
               /\ handPc'[n] = handPc[n] /\ handMsg'[n] = handMsg[n]
               /\ handTodo'[n] = handTodo[n] /\ handDh'[n] = handDh[n]
        BY <2>4 DEF CountTypes
      <3>3. \A k \in Key : Pending(m, k)' => Pending(m, k)
        BY <2>4 DEF CountTypes, Pending
      <3>4. handDh'[m] \notin handTodo'[m]
        BY <2>4 DEF CountTypes
      <3> QED BY <3>1, <3>2, <3>3, <3>4, ControlStepKeeps
    <2>5. CASE RefreshNow(m)
      <3>1. /\ handPc[m] = "push" /\ UNCHANGED <<answers, needRefresh, handMsg, handTodo, handDh>>
            /\ pushes' = [pushes EXCEPT ![m][HandKey(m)] = @ + 1]
            /\ handPc' = [handPc EXCEPT ![m] = "query"]
        BY <2>5 DEF RefreshNow, PushEnable, HandGoto, historyVars
      <3>2. CountTypes'
        <4>1. [pushes[m] EXCEPT ![HandKey(m)] = @ + 1] \in [Key -> Nat]
          <5>1. pushes[m] \in [Key -> Nat]
            BY DEF CountTypes
          <5> QED BY <5>1, CountUp
        <4>2. pushes' = [pushes EXCEPT ![m] = [pushes[m] EXCEPT ![HandKey(m)] = @ + 1]]
          BY <3>1
        <4>3. pushes' \in [Node -> [Key -> Nat]]
          BY <4>1, <4>2 DEF CountTypes
        <4> QED BY <3>1, <4>3 DEF CountTypes
      <3>3. \A n \in Node \ {m} :
               /\ pushes'[n] = pushes[n] /\ answers'[n] = answers[n]
               /\ needRefresh'[n] = needRefresh[n] /\ handPc'[n] = handPc[n]
               /\ handMsg'[n] = handMsg[n] /\ handTodo'[n] = handTodo[n]
               /\ handDh'[n] = handDh[n]
        BY <3>1 DEF CountTypes
      <3>4. handPc'[m] = "query"
        BY <3>1 DEF CountTypes
      <3>5. ASSUME NEW k \in Key
            PROVE  pushes'[m][k] + One(k \in needRefresh'[m]) + One(Pending(m, k)')
                   <= answers'[m][k[1]]
        <4>1. k[1] \in Node /\ k = <<k[1], k[2]>>
          BY DEF Key
        <4>2. pushes[m][k] \in Nat /\ answers[m][k[1]] \in Nat
          BY <4>1 DEF CountTypes
        <4>3. pushes[m][k] + One(k \in needRefresh[m]) + One(Pending(m, k)) <= answers[m][k[1]]
          BY DEF RefreshBudget
        <4>4. CASE k = HandKey(m)
          <5>1. pushes'[m][k] = pushes[m][k] + 1
            BY <3>1, <4>4 DEF CountTypes
          <5>2. k[1] = handMsg[m].from /\ k[2] = handDh[m]
            BY <4>4 DEF HandKey
          <5>3. Pending(m, k)
            BY <3>1, <5>2 DEF Pending
          <5>4. handDh[m] \notin handTodo[m]
            BY <3>1 DEF RefreshBudget
          <5>5. ~Pending(m, k)'
            BY <3>1, <3>4, <5>2, <5>4 DEF Pending
          <5> QED BY <3>1, <4>2, <4>3, <5>1, <5>3, <5>5 DEF One
        <4>5. CASE k # HandKey(m)
          <5>1. pushes'[m][k] = pushes[m][k]
            BY <3>1, <4>5 DEF CountTypes
          <5>2. Pending(m, k)' => Pending(m, k)
            BY <3>1, <3>4 DEF Pending
          <5> QED BY <3>1, <4>2, <4>3, <5>1, <5>2 DEF One
        <4> QED BY <4>4, <4>5
      <3> QED BY <3>2, <3>3, <3>4, <3>5, NodeStepKeeps
    <2>6. CASE SaveNeedRefreshTask(m)
      <3>1. /\ handPc[m] = "save" /\ UNCHANGED <<answers, pushes, handMsg, handTodo, handDh>>
            /\ needRefresh' = [needRefresh EXCEPT ![m] = @ \cup {HandKey(m)}]
            /\ handPc' = [handPc EXCEPT ![m] = "query"]
        BY <2>6 DEF SaveNeedRefreshTask, HandGoto, historyVars
      <3>2. CountTypes'
        BY <3>1 DEF CountTypes
      <3>3. \A n \in Node \ {m} :
               /\ pushes'[n] = pushes[n] /\ answers'[n] = answers[n]
               /\ needRefresh'[n] = needRefresh[n] /\ handPc'[n] = handPc[n]
               /\ handMsg'[n] = handMsg[n] /\ handTodo'[n] = handTodo[n]
               /\ handDh'[n] = handDh[n]
        BY <3>1 DEF CountTypes
      <3>4. handPc'[m] = "query" /\ needRefresh'[m] = needRefresh[m] \cup {HandKey(m)}
        BY <3>1 DEF CountTypes
      <3>5. ASSUME NEW k \in Key
            PROVE  pushes'[m][k] + One(k \in needRefresh'[m]) + One(Pending(m, k)')
                   <= answers'[m][k[1]]
        <4>1. k[1] \in Node
          BY DEF Key
        <4>2. pushes[m][k] \in Nat /\ answers[m][k[1]] \in Nat
          BY <4>1 DEF CountTypes
        <4>3. pushes[m][k] + One(k \in needRefresh[m]) + One(Pending(m, k)) <= answers[m][k[1]]
          BY DEF RefreshBudget
        <4>4. CASE k = HandKey(m)
          <5>1. k[1] = handMsg[m].from /\ k[2] = handDh[m]
            BY <4>4 DEF HandKey
          <5>2. Pending(m, k)
            BY <3>1, <5>1 DEF Pending
          <5>3. handDh[m] \notin handTodo[m]
            BY <3>1 DEF RefreshBudget
          <5>4. ~Pending(m, k)'
            BY <3>1, <3>4, <5>1, <5>3 DEF Pending
          <5> QED BY <3>1, <4>2, <4>3, <5>2, <5>4 DEF One
        <4>5. CASE k # HandKey(m)
          <5>1. k \in needRefresh'[m] <=> k \in needRefresh[m]
            BY <3>4, <4>5
          <5>2. Pending(m, k)' => Pending(m, k)
            BY <3>1, <3>4 DEF Pending
          <5> QED BY <3>1, <4>2, <4>3, <5>1, <5>2 DEF One
        <4> QED BY <4>4, <4>5
      <3> QED BY <3>2, <3>3, <3>4, <3>5, NodeStepKeeps
    <2> QED BY <1>6, <2>1, <2>2, <2>3, <2>4, <2>5, <2>6 DEF ProcessEvent
  <1>7. ASSUME NEW m \in Node, NEW j \in Key, FetchNeedRefreshTask(m, j) PROVE BudgetInv'
    <2>1. CASE j \notin needRefresh[m]
      BY <1>7, <2>1, UncountedKeeps DEF FetchNeedRefreshTask, countVars, handVars, historyVars
    <2>2. CASE j \in needRefresh[m]
      <3>1. /\ UNCHANGED <<answers, handPc, handMsg, handTodo, handDh>>
            /\ needRefresh' = [needRefresh EXCEPT ![m] = @ \ {j}]
            /\ pushes' = [pushes EXCEPT ![m][j] = @ + 1]
        BY <1>7, <2>2 DEF FetchNeedRefreshTask, PushEnable, handVars, historyVars
      <3>2. CountTypes'
        <4>1. [pushes[m] EXCEPT ![j] = @ + 1] \in [Key -> Nat]
          <5>1. pushes[m] \in [Key -> Nat]
            BY DEF CountTypes
          <5> QED BY <5>1, CountUp
        <4>2. pushes' = [pushes EXCEPT ![m] = [pushes[m] EXCEPT ![j] = @ + 1]]
          BY <3>1
        <4>3. pushes' \in [Node -> [Key -> Nat]]
          BY <4>1, <4>2 DEF CountTypes
        <4> QED BY <3>1, <4>3 DEF CountTypes
      <3>3. \A n \in Node \ {m} :
               /\ pushes'[n] = pushes[n] /\ answers'[n] = answers[n]
               /\ needRefresh'[n] = needRefresh[n] /\ handPc'[n] = handPc[n]
               /\ handMsg'[n] = handMsg[n] /\ handTodo'[n] = handTodo[n]
               /\ handDh'[n] = handDh[n]
        BY <3>1 DEF CountTypes
      <3>4. ASSUME NEW k \in Key
            PROVE  pushes'[m][k] + One(k \in needRefresh'[m]) + One(Pending(m, k)')
                   <= answers'[m][k[1]]
        <4>1. k[1] \in Node
          BY DEF Key
        <4>2. pushes[m][k] \in Nat /\ answers[m][k[1]] \in Nat
          BY <4>1 DEF CountTypes
        <4>3. pushes[m][k] + One(k \in needRefresh[m]) + One(Pending(m, k)) <= answers[m][k[1]]
          BY DEF RefreshBudget
        <4>4. Pending(m, k)' <=> Pending(m, k)
          BY <3>1 DEF Pending
        <4>5. /\ pushes'[m][k] = pushes[m][k] + One(k = j)
              /\ k \in needRefresh'[m] <=> k \in needRefresh[m] /\ k # j
          BY <3>1, <4>2 DEF CountTypes, One
        <4> QED BY <2>2, <3>1, <4>2, <4>3, <4>4, <4>5 DEF One
      <3>5. handPc'[m] \in {"push", "save"} => handDh'[m] \notin handTodo'[m]
        BY <3>1 DEF RefreshBudget
      <3> QED BY <3>2, <3>3, <3>4, <3>5, NodeStepKeeps
    <2> QED BY <2>1, <2>2
  <1>8. CASE UNCHANGED vars
    BY <1>8, UncountedKeeps DEF vars, countVars, handVars, bizVars, historyVars
  <1> QED BY <1>1, <1>2, <1>3, <1>4, <1>5, <1>6, <1>7, <1>8 DEF Next

\* The count with what is owed bounds the count without it.
LEMMA BudgetImplies == BudgetInv => RefreshOnce
  <1> SUFFICES ASSUME BudgetInv, NEW n \in Node, NEW k \in Key
               PROVE  pushes[n][k] + (IF k \in needRefresh[n] THEN 1 ELSE 0) <= answers[n][k[1]]
    BY DEF RefreshOnce
  <1>1. k[1] \in Node
    BY DEF Key
  <1>2. pushes[n][k] \in Nat /\ answers[n][k[1]] \in Nat
    BY <1>1 DEF BudgetInv, CountTypes
  <1>3. pushes[n][k] + One(k \in needRefresh[n]) + One(Pending(n, k)) <= answers[n][k[1]]
    BY DEF BudgetInv, RefreshBudget
  <1> QED BY <1>2, <1>3 DEF One

\* The count of what is pushed, saved and still owed never exceeds the answers.
THEOREM RefreshCounted == Spec => []RefreshBudget
  <1>1. BudgetInv => RefreshBudget
    BY DEF BudgetInv
  <1> QED BY <1>1, InitBudget, NextBudget, PTL DEF Spec

\* ProcessFullCapsRsp and UpdateBusinessState together enable a hardware at most
\* once for each answer that names it.
THEOREM RefreshedOnce == Spec => []RefreshOnce
  <1> QED BY InitBudget, NextBudget, BudgetImplies, PTL DEF Spec

-----------------------------------------------------------------------------
(* A device that asks no one answers whoever asks it *)

\* The types of what the devices and the softbus exchange.
Code == {"REQ", "RSP", "BIND", "SHUTDOWN"}

ExchangeTypes ==
    /\ conn \in [Conn -> [state : {"free", "open", "closed"}, from : Node, to : Node]]
    /\ inbox \in [Conn -> [Node -> Seq(Notice)]]
    /\ remoteDevSocketIds \in [Node -> [Node -> Conn \cup {NoConn}]]
    /\ trigPc \in [Node -> {"idle", "lookup", "bind", "opened", "send", "bytes"}]
    /\ trigPeer \in [Node -> Node]
    /\ trigConn \in [Node -> Conn \cup {NoConn}]
    /\ events \in [Node -> Seq(CommMsg)]
    /\ handPc \in [Node -> {"idle", "bytes", "stop", "shutdown", "erase", "uuid", "query",
                            "push", "save"}]
    /\ handMsg \in [Node -> CommMsg]
    /\ handConn \in [Node -> Conn \cup {NoConn}]
    /\ asked \in [Node -> [Node -> Nat]]
    /\ answers \in [Node -> [Node -> Nat]]
    /\ serving = [n \in Node |-> TRUE]

\* Connection c is, or was, between n and q.
Links(c, n, q) ==
    /\ c \in Conn /\ conn[c].state # "free" /\ n # q
    /\ \/ conn[c].from = n /\ conn[c].to = q
       \/ conn[c].from = q /\ conn[c].to = n

\* A sequence of messages holds one of that kind, from that device.
Carries(s, code, from) == \E i \in 1 .. Len(s) : s[i].code = code /\ s[i].from = from

BindFirst(s) == s # <<>> /\ Head(s).code = "BIND"

\* Sockets and notices belong to a connection of the two devices they name, and
\* only a device that asks is asked for by a request or sent an answer.
SocketsLink ==
    \A n, q \in Node : remoteDevSocketIds[n][q] # NoConn => Links(remoteDevSocketIds[n][q], n, q)

NoticesLink ==
    \A c \in Conn, n, q \in Node, code \in Code : Carries(inbox[c][n], code, q) =>
        /\ Links(c, n, q)
        /\ code = "REQ" => q \in Asker
        /\ code = "RSP" => n \in Asker

EventsAsked ==
    \A n, q \in Node :
        /\ Carries(events[n], "REQ", q) => q \in Asker
        /\ Carries(events[n], "RSP", q) => n \in Asker

AskersLink ==
    \A n \in Node :
        /\ trigPc[n] # "idle" => n \in Asker /\ trigPeer[n] # n
        /\ trigPc[n] = "opened" => Links(trigConn[n], n, trigPeer[n])
        /\ trigPc[n] = "bytes" /\ trigConn[n] # NoConn => Links(trigConn[n], n, trigPeer[n])

\* A handler closes the connection of a peer only after an answer of that peer.
HandlersLink ==
    \A n \in Node :
        /\ handPc[n] = "bytes" =>
              /\ handMsg[n].from \in Asker
              /\ handConn[n] # NoConn => Links(handConn[n], n, handMsg[n].from)
        /\ handPc[n] \notin {"idle", "bytes"} =>
              n \in Asker /\ answers[n][handMsg[n].from] > 0
        /\ handPc[n] = "shutdown" => Links(handConn[n], n, handMsg[n].from)

Wired ==
    ExchangeTypes /\ SocketsLink /\ NoticesLink /\ EventsAsked /\ AskersLink /\ HandlersLink

-----------------------------------------------------------------------------
(* Messages in sequences *)

\* A message more at the end of a sequence.
LEMMA CarriesAppend ==
    ASSUME NEW S, NEW s \in Seq(S), NEW m \in S
    PROVE  /\ Append(s, m) \in Seq(S) /\ Append(s, m) # <<>>
           /\ s # <<>> => Head(Append(s, m)) = Head(s)
           /\ s = <<>> => Head(Append(s, m)) = m
           /\ \A code, from : Carries(Append(s, m), code, from) <=>
                 Carries(s, code, from) \/ (m.code = code /\ m.from = from)
  <1> DEFINE t == Append(s, m)
  <1>1. t \in Seq(S) /\ Len(t) = Len(s) + 1 /\ Len(s) \in Nat
    OBVIOUS
  <1>2. \A i \in 1 .. Len(s) : t[i] = s[i]
    OBVIOUS
  <1>3. t[Len(s) + 1] = m
    OBVIOUS
  <1>4. t # <<>> /\ Head(t) = t[1]
    BY <1>1
  <1>5. s # <<>> => Len(s) # 0 /\ Head(s) = s[1]
    OBVIOUS
  <1> HIDE DEF t
  <1>6. ASSUME NEW code, NEW from
        PROVE  Carries(t, code, from) <=> Carries(s, code, from) \/ (m.code = code /\ m.from = from)
    <2>1. \A i \in 1 .. Len(t) : i \in 1 .. Len(s) \/ i = Len(s) + 1
      BY <1>1
    <2>2. \A i \in 1 .. Len(s) : i \in 1 .. Len(t)
      BY <1>1
    <2>3. Len(s) + 1 \in 1 .. Len(t)
      BY <1>1
    <2> QED BY <1>2, <1>3, <2>1, <2>2, <2>3 DEF Carries
  <1>7. s # <<>> => Head(t) = Head(s)
    <2>1. s # <<>> => 1 \in 1 .. Len(s)
      BY <1>1, <1>5
    <2> QED BY <1>2, <1>4, <1>5, <2>1
  <1>8. s = <<>> => Head(t) = m
    <2>1. s = <<>> => Len(s) = 0
      OBVIOUS
    <2> QED BY <1>3, <1>4, <2>1
  <1> QED BY <1>1, <1>4, <1>6, <1>7, <1>8 DEF t

\* The first message of a sequence, and the others.
LEMMA CarriesTail ==
    ASSUME NEW S, NEW s \in Seq(S), s # <<>>
    PROVE  /\ Tail(s) \in Seq(S) /\ Head(s) \in S
           /\ \A code, from : Carries(s, code, from) <=>
                 Carries(Tail(s), code, from) \/ (Head(s).code = code /\ Head(s).from = from)
  <1> DEFINE t == Tail(s)
  <1>1. t \in Seq(S) /\ Len(t) = Len(s) - 1 /\ Len(s) \in Nat /\ Len(s) # 0
    OBVIOUS
  <1>2. \A i \in 1 .. Len(t) : t[i] = s[i + 1]
    OBVIOUS
  <1>3. Head(s) = s[1] /\ Head(s) \in S
    OBVIOUS
  <1> HIDE DEF t
  <1>4. ASSUME NEW code, NEW from
        PROVE  Carries(s, code, from) <=>
                  Carries(t, code, from) \/ (Head(s).code = code /\ Head(s).from = from)
    <2>1. \A i \in 1 .. Len(s) : i = 1 \/ (i - 1 \in 1 .. Len(t) /\ i = (i - 1) + 1)
      BY <1>1
    <2>2. \A i \in 1 .. Len(t) : i + 1 \in 1 .. Len(s)
      BY <1>1
    <2>3. 1 \in 1 .. Len(s)
      BY <1>1
    <2>4. ASSUME NEW i \in 1 .. Len(s), s[i].code = code /\ s[i].from = from
          PROVE  Carries(t, code, from) \/ (Head(s).code = code /\ Head(s).from = from)
      BY <1>2, <1>3, <2>1, <2>4 DEF Carries
    <2> QED BY <1>2, <1>3, <2>2, <2>3, <2>4 DEF Carries
  <1> QED BY <1>1, <1>3, <1>4 DEF t

\* An empty sequence holds no message.
LEMMA EmptyCarries == \A code, from : ~Carries(<<>>, code, from)
  BY DEF Carries

\* The kinds of messages and of notices.
LEMMA MessageTypes ==
    /\ \A m \in CommMsg : m \in Notice /\ m.code \in {"REQ", "RSP"} /\ m.from \in Node
    /\ \A m \in Notice : m.code \in Code /\ m.from \in Node
    /\ \A m \in Notice : m.code \in {"REQ", "RSP"} => m \in CommMsg
    /\ \A n \in Node : [code |-> "REQ", from |-> n, caps |-> {}] \in CommMsg
    /\ \A n \in Node, h \in SUBSET DhId : [code |-> "RSP", from |-> n, caps |-> h] \in CommMsg
    /\ \A n \in Node : [code |-> "BIND", from |-> n, caps |-> {}] \in Notice
    /\ \A n \in Node : [code |-> "SHUTDOWN", from |-> n, caps |-> {}] \in Notice
  BY DEF CommMsg, Notice, Code

\* The notices for one device on one connection change.
LEMMA InboxSet ==
    ASSUME ExchangeTypes, NEW c \in Conn, NEW n \in Node, NEW s \in Seq(Notice),
           inbox' = [inbox EXCEPT ![c][n] = s]
    PROVE  /\ inbox' \in [Conn -> [Node -> Seq(Notice)]] /\ inbox'[c][n] = s
           /\ \A d \in Conn, k \in Node : d # c \/ k # n => inbox'[d][k] = inbox[d][k]
  BY DEF ExchangeTypes

\* A notice that is sent.
LEMMA TellAdds ==
    ASSUME ExchangeTypes, NEW c \in Conn, NEW n \in Node, NEW m \in Notice, Tell(c, n, m)
    PROVE  /\ inbox' \in [Conn -> [Node -> Seq(Notice)]]
           /\ \A d \in Conn, k \in Node : d # c \/ k # n => inbox'[d][k] = inbox[d][k]
           /\ \A code, from : Carries(inbox'[c][n], code, from) <=>
                 Carries(inbox[c][n], code, from) \/ (m.code = code /\ m.from = from)
           /\ BindFirst(inbox[c][n]) => BindFirst(inbox'[c][n])
           /\ inbox[c][n] = <<>> /\ m.code = "BIND" => BindFirst(inbox'[c][n])
  <1>1. inbox[c][n] \in Seq(Notice)
    BY DEF ExchangeTypes
  <1>2. inbox' = [inbox EXCEPT ![c][n] = Append(inbox[c][n], m)]
    BY DEF Tell
  <1> DEFINE s == Append(inbox[c][n], m)
  <1>3. s \in Seq(Notice)
    BY <1>1, CarriesAppend
  <1>4. inbox' = [inbox EXCEPT ![c][n] = s]
    BY <1>2
  <1> HIDE DEF s
  <1>5. /\ inbox' \in [Conn -> [Node -> Seq(Notice)]] /\ inbox'[c][n] = s
        /\ \A d \in Conn, k \in Node : d # c \/ k # n => inbox'[d][k] = inbox[d][k]
    BY <1>3, <1>4, InboxSet
  <1> QED BY <1>1, <1>5, CarriesAppend DEF s, BindFirst

\* A notice that is received.
LEMMA ReceiveTakes ==
    ASSUME ExchangeTypes, NEW c \in Conn, NEW n \in Node, inbox[c][n] # <<>>,
           inbox' = [inbox EXCEPT ![c][n] = Tail(@)]
    PROVE  /\ inbox' \in [Conn -> [Node -> Seq(Notice)]]
           /\ Head(inbox[c][n]) \in Notice
           /\ \A d \in Conn, k \in Node : d # c \/ k # n => inbox'[d][k] = inbox[d][k]
           /\ \A code, from : Carries(inbox[c][n], code, from) <=>
                 \/ Carries(inbox'[c][n], code, from)
                 \/ Head(inbox[c][n]).code = code /\ Head(inbox[c][n]).from = from
  <1>1. inbox[c][n] \in Seq(Notice)
    BY DEF ExchangeTypes
  <1> DEFINE s == Tail(inbox[c][n])
  <1>2. s \in Seq(Notice) /\ inbox' = [inbox EXCEPT ![c][n] = s]
    BY <1>1, CarriesTail
  <1> HIDE DEF s
  <1>3. /\ inbox' \in [Conn -> [Node -> Seq(Notice)]] /\ inbox'[c][n] = s
        /\ \A d \in Conn, k \in Node : d # c \/ k # n => inbox'[d][k] = inbox[d][k]
    BY <1>2, InboxSet
  <1> QED BY <1>1, <1>3, CarriesTail DEF s

\* The ends of a connection are set once, when it is made.
LEMMA LinksStay ==
    ASSUME UNCHANGED conn
    PROVE  \A c, n, q : Links(c, n, q)' <=> Links(c, n, q)
  BY DEF Links

\* Connection c is closed, its ends stay, and device q is told so by m.
Disconnects(c, q, m) ==
    /\ conn' \in [Conn -> [state : {"free", "open", "closed"}, from : Node, to : Node]]
    /\ inbox' \in [Conn -> [Node -> Seq(Notice)]]
    /\ \A d \in Conn : d # c => conn'[d] = conn[d] /\ inbox'[d] = inbox[d]
    /\ \A d, k, l : Links(d, k, l)' <=> Links(d, k, l)
    /\ \A k \in Node : \A code, from : Carries(inbox'[c][k], code, from) =>
          Carries(inbox[c][k], code, from) \/ (k = q /\ m.code = code /\ m.from = from)

\* A device that shuts a connection down disconnects the other one.
LEMMA ShutdownTells ==
    ASSUME ExchangeTypes, NEW c \in Conn, NEW n \in Node, NEW q \in Node, Links(c, n, q),
           NEW m \in Notice, m = [code |-> "SHUTDOWN", from |-> n, caps |-> {}],
           NEW C, C = {c}, Shutdown(n, C)
    PROVE  Disconnects(c, q, m)
  <1>1. conn' = [d \in Conn |-> IF d = c THEN [conn[d] EXCEPT !.state = "closed"] ELSE conn[d]]
    BY DEF Shutdown
  <1>2. /\ conn' \in [Conn -> [state : {"free", "open", "closed"}, from : Node, to : Node]]
        /\ \A d \in Conn : d # c => conn'[d] = conn[d]
        /\ conn'[c].state = "closed" /\ conn'[c].from = conn[c].from /\ conn'[c].to = conn[c].to
    <2> DEFINE r == [conn[c] EXCEPT !.state = "closed"]
    <2>1. \A d \in Conn : conn[d] \in [state : {"free", "open", "closed"}, from : Node, to : Node]
      BY DEF ExchangeTypes
    <2>2. /\ r \in [state : {"free", "open", "closed"}, from : Node, to : Node]
          /\ r.state = "closed" /\ r.from = conn[c].from /\ r.to = conn[c].to
      BY <2>1
    <2>3. conn' = [d \in Conn |-> IF d = c THEN r ELSE conn[d]]
      BY <1>1
    <2> HIDE DEF r
    <2> QED BY <2>1, <2>2, <2>3
  <1>3. \A d, k, l : Links(d, k, l)' <=> Links(d, k, l)
    BY <1>2 DEF Links
  <1>4. Other(c, n) = q /\ q # n
    BY DEF Links, Other
  <1>6. \A d \in Conn : d # c => inbox'[d] = inbox[d]
    BY DEF Shutdown
  <1>7. \A k \in Node : \/ inbox'[c][k] = <<>> \/ inbox'[c][k] = inbox[c][k]
                        \/ k = q /\ inbox'[c][k] = Append(inbox[c][k], m)
    BY <1>4 DEF Shutdown
  <1>8. \A k \in Node : inbox[c][k] \in Seq(Notice) /\ <<>> \in Seq(Notice)
    BY DEF ExchangeTypes
  <1>9. ASSUME NEW k \in Node PROVE inbox'[c][k] \in Seq(Notice)
    <2>1. Append(inbox[c][k], m) \in Seq(Notice)
      BY <1>8, CarriesAppend
    <2> QED BY <1>7, <1>8, <2>1
  <1>10. inbox' \in [Conn -> [Node -> Seq(Notice)]]
    <2>1. inbox' = [d \in Conn |-> inbox'[d]] /\ inbox'[c] = [k \in Node |-> inbox'[c][k]]
      BY DEF Shutdown
    <2>2. inbox'[c] \in [Node -> Seq(Notice)]
      BY <1>9, <2>1
    <2>3. \A d \in Conn : inbox'[d] \in [Node -> Seq(Notice)]
      BY <1>6, <2>2 DEF ExchangeTypes
    <2> QED BY <2>1, <2>3
  <1>11. ASSUME NEW k \in Node, NEW code, NEW from, Carries(inbox'[c][k], code, from)
         PROVE  \/ Carries(inbox[c][k], code, from)
                \/ k = q /\ m.code = code /\ m.from = from
    <2>1. CASE k = q /\ inbox'[c][k] = Append(inbox[c][k], m)
      <3>1. Carries(inbox[c][k], code, from) \/ (m.code = code /\ m.from = from)
        BY <1>8, <1>11, <2>1, CarriesAppend
      <3> QED BY <2>1, <3>1
    <2> QED BY <1>7, <1>11, <2>1, EmptyCarries
  <1> QED BY <1>2, <1>3, <1>6, <1>10, <1>11 DEF Disconnects

-----------------------------------------------------------------------------
(* Every step keeps the devices wired *)

\* The variables that say how the devices are wired, and the requests counted.
wireVars == <<conn, inbox, remoteDevSocketIds, serving, trigPc, trigPeer, trigConn, events,
              handPc, handMsg, handConn, asked, answers>>

\* A step that is not about the exchange.
LEMMA OtherStepsKeepWired == Wired /\ UNCHANGED wireVars => Wired'
  BY DEF wireVars, Wired, ExchangeTypes, SocketsLink, NoticesLink, EventsAsked, AskersLink,
         HandlersLink, Links, Carries

\* The thread that starts requests, between its calls of the softbus.
AskerMoves(n) ==
    /\ UNCHANGED <<conn, inbox, remoteDevSocketIds, serving, events, handPc, handMsg, handConn,
                   asked, answers>>
    /\ trigPc' \in [Node -> {"idle", "lookup", "bind", "opened", "send", "bytes"}]
    /\ trigPeer' \in [Node -> Node] /\ trigConn' \in [Node -> Conn \cup {NoConn}]
    /\ \A k \in Node \ {n} : /\ trigPc'[k] = trigPc[k] /\ trigPeer'[k] = trigPeer[k]
                             /\ trigConn'[k] = trigConn[k]
    /\ trigPc[n] # "opened" /\ trigPc'[n] # "opened"
    /\ trigPc'[n] # "idle" => n \in Asker /\ trigPeer'[n] # n
    /\ trigPc'[n] = "bytes" => trigConn'[n] = remoteDevSocketIds[n][trigPeer'[n]]
    /\ trigPc'[n] = "bind" => remoteDevSocketIds[n][trigPeer'[n]] = NoConn

\* What the thread that starts requests does outside the softbus.
LEMMA AskerStepMoves ==
    ASSUME ExchangeTypes, AskersLink, NEW n \in Node,
           \/ \E p \in Node : TriggerReqFullDHCaps(n, p)
           \/ IsDeviceSessionOpened(n) \/ BindFail(n) \/ SendReq(n) \/ SendReqFail(n)
    PROVE  AskerMoves(n)
  <1> USE DEF ExchangeTypes, AskersLink, AskerMoves, TrigGoto, connVars, handVars, historyVars
  <1>1. CASE \E p \in Node : TriggerReqFullDHCaps(n, p)
    <2>1. PICK p \in Node : TriggerReqFullDHCaps(n, p)
      BY <1>1
    <2>2. /\ n \in Asker /\ p # n /\ trigPc[n] = "idle" /\ trigPeer' = [trigPeer EXCEPT ![n] = p]
          /\ trigPc' = [trigPc EXCEPT ![n] = "lookup"]
          /\ UNCHANGED <<connVars, serving, trigConn, events, handVars, historyVars>>
      BY <2>1 DEF TriggerReqFullDHCaps
    <2> QED BY <2>2
  <1>2. CASE IsDeviceSessionOpened(n)
    BY <1>2 DEF IsDeviceSessionOpened
  <1>3. CASE BindFail(n)
    BY <1>3 DEF BindFail
  <1>4. CASE SendReq(n)
    BY <1>4 DEF SendReq
  <1>5. CASE SendReqFail(n)
    BY <1>5 DEF SendReqFail
  <1> QED BY <1>1, <1>2, <1>3, <1>4, <1>5

\* That thread looks sockets up in its own map.
LEMMA AskingKeepsWired ==
    ASSUME Wired, NEW n \in Node, AskerMoves(n)
    PROVE  Wired'
  <1> USE DEF Wired, AskerMoves
  <1>1. \A c, k, q : Links(c, k, q)' <=> Links(c, k, q)
    BY LinksStay
  <1>2. SocketsLink' /\ NoticesLink' /\ EventsAsked' /\ HandlersLink'
    BY <1>1 DEF SocketsLink, NoticesLink, EventsAsked, HandlersLink, Carries
  <1>3. ExchangeTypes'
    BY DEF ExchangeTypes
  <1>4. AskersLink'
    <2> SUFFICES ASSUME NEW k \in Node
                 PROVE  /\ trigPc'[k] # "idle" => k \in Asker /\ trigPeer'[k] # k
                        /\ trigPc'[k] = "opened" => Links(trigConn'[k], k, trigPeer'[k])
                        /\ trigPc'[k] = "bytes" /\ trigConn'[k] # NoConn =>
                              Links(trigConn'[k], k, trigPeer'[k])
      BY <1>1 DEF AskersLink
    <2>1. CASE k = n
      <3>1. trigPeer'[n] \in Node
        OBVIOUS
      <3> QED BY <2>1, <3>1 DEF SocketsLink
    <2>2. CASE k # n
      BY <2>2 DEF AskersLink
    <2> QED BY <2>1, <2>2
  <1> QED BY <1>2, <1>3, <1>4

\* The other end of a connection of two devices.
LEMMA OtherEnd ==
    ASSUME NEW c, NEW n, NEW q, Links(c, n, q)
    PROVE  Other(c, n) = q /\ Other(c, q) = n
  BY DEF Links, Other

\* Connection c is made, with the asker n at one end and q at the other, which m
\* will tell it.
Connects(c, n, q, m) ==
    /\ trigPc[n] = "bind" /\ n \in Asker /\ q # n
    /\ Tell(c, q, m)
    /\ trigPc' = [trigPc EXCEPT ![n] = "opened"]
    /\ trigConn' = [trigConn EXCEPT ![n] = c]
    /\ UNCHANGED <<remoteDevSocketIds, serving, trigPeer, events, handPc, handMsg, handConn,
                   asked, answers>>
    /\ conn' \in [Conn -> [state : {"free", "open", "closed"}, from : Node, to : Node]]
    /\ conn'[c].state = "open" /\ \A d \in Conn : d # c => conn'[d] = conn[d]
    /\ \A k, l : ~Links(c, k, l)
    /\ \A d, k, l : Links(d, k, l)' <=>
          \/ Links(d, k, l)
          \/ d = c /\ ((k = n /\ l = q) \/ (k = q /\ l = n))

\* A Bind that succeeds connects the two devices.
LEMMA BindConnects ==
    ASSUME Wired, NEW n \in Node, Bind(n), NEW q \in Node, q = trigPeer[n],
           NEW m, m = [code |-> "BIND", from |-> n, caps |-> {}]
    PROVE  \E c \in Conn : Connects(c, n, q, m)
  <1>1. trigPc[n] = "bind" /\ n \in Asker /\ q # n
    BY DEF Bind, Wired, AskersLink
  <1>2. PICK c \in Conn :
          /\ conn[c].state = "free"
          /\ conn' = [conn EXCEPT ![c] = [state |-> "open", from |-> n, to |-> q]]
          /\ Tell(c, q, m)
          /\ trigConn' = [trigConn EXCEPT ![n] = c]
    BY DEF Bind
  <1>3. /\ conn' \in [Conn -> [state : {"free", "open", "closed"}, from : Node, to : Node]]
        /\ conn'[c] = [state |-> "open", from |-> n, to |-> q]
        /\ \A d \in Conn : d # c => conn'[d] = conn[d]
    BY <1>1, <1>2 DEF Wired, ExchangeTypes
  <1>4. \A k, l : ~Links(c, k, l)
    BY <1>2 DEF Links
  <1>5. \A d, k, l : Links(d, k, l)' <=>
           \/ Links(d, k, l)
           \/ d = c /\ ((k = n /\ l = q) \/ (k = q /\ l = n))
    <2>1. \A d, k, l : d # c => (Links(d, k, l)' <=> Links(d, k, l))
      BY <1>3 DEF Links
    <2>2. \A k, l : Links(c, k, l)' <=> ((k = n /\ l = q) \/ (k = q /\ l = n))
      BY <1>1, <1>3 DEF Links
    <2> QED BY <1>4, <2>1, <2>2
  <1>6. /\ trigPc' = [trigPc EXCEPT ![n] = "opened"]
        /\ UNCHANGED <<remoteDevSocketIds, serving, trigPeer, events, handPc, handMsg, handConn,
                       asked, answers>>
    BY DEF Bind, TrigGoto, handVars, historyVars
  <1>7. Connects(c, n, q, m)
    BY <1>1, <1>2, <1>3, <1>4, <1>5, <1>6 DEF Connects
  <1> QED BY <1>7

\* The notice of a new connection is about that connection.
LEMMA BindKeepsWired ==
    ASSUME Wired, NEW n \in Node, Bind(n)
    PROVE  Wired'
  <1>0. ExchangeTypes /\ SocketsLink /\ NoticesLink /\ EventsAsked /\ AskersLink /\ HandlersLink
    BY DEF Wired
  <1>a. PICK q \in Node, m \in Notice :
           q = trigPeer[n] /\ m = [code |-> "BIND", from |-> n, caps |-> {}]
    BY <1>0, MessageTypes DEF ExchangeTypes
  <1>b. m.code = "BIND" /\ m.from = n
    BY <1>a
  <1>c. PICK c \in Conn : Connects(c, n, q, m)
    BY <1>a, BindConnects
  <1>1. /\ trigPc[n] = "bind" /\ n \in Asker /\ q # n
        /\ trigPc' = [trigPc EXCEPT ![n] = "opened"]
        /\ trigConn' = [trigConn EXCEPT ![n] = c]
        /\ UNCHANGED <<remoteDevSocketIds, serving, trigPeer, events, handPc, handMsg, handConn,
                       asked, answers>>
        /\ conn' \in [Conn -> [state : {"free", "open", "closed"}, from : Node, to : Node]]
    BY <1>c DEF Connects
  <1>2. \A d, k, l : Links(d, k, l)' <=>
           \/ Links(d, k, l)
           \/ d = c /\ ((k = n /\ l = q) \/ (k = q /\ l = n))
    BY <1>c DEF Connects
  <1>3. /\ inbox' \in [Conn -> [Node -> Seq(Notice)]]
        /\ \A d \in Conn, k \in Node : d # c \/ k # q => inbox'[d][k] = inbox[d][k]
        /\ \A code, from : Carries(inbox'[c][q], code, from) <=>
              Carries(inbox[c][q], code, from) \/ (m.code = code /\ m.from = from)
    <2>1. Tell(c, q, m)
      BY <1>c DEF Connects
    <2> QED BY <1>0, <2>1, TellAdds
  <1>4. ExchangeTypes'
    BY <1>0, <1>1, <1>3 DEF ExchangeTypes
  <1>5. NoticesLink'
    <2> SUFFICES ASSUME NEW d \in Conn, NEW k \in Node, NEW l \in Node, NEW code \in Code,
                        Carries(inbox'[d][k], code, l)
                 PROVE  /\ Links(d, k, l)'
                        /\ code = "REQ" => l \in Asker
                        /\ code = "RSP" => k \in Asker
      BY DEF NoticesLink
    <2>1. CASE Carries(inbox[d][k], code, l)
      BY <1>0, <1>2, <2>1 DEF NoticesLink
    <2>2. CASE d = c /\ k = q /\ m.code = code /\ m.from = l
      BY <1>b, <1>2, <2>2
    <2> QED BY <1>3, <2>1, <2>2
  <1>6. SocketsLink' /\ EventsAsked'
    BY <1>0, <1>1, <1>2 DEF SocketsLink, EventsAsked
  <1>7. AskersLink'
    BY <1>0, <1>a, <1>1, <1>2 DEF AskersLink, ExchangeTypes
  <1>8. HandlersLink'
    BY <1>0, <1>1, <1>2 DEF HandlersLink
  <1> QED BY <1>4, <1>5, <1>6, <1>7, <1>8 DEF Wired

\* The asker records the connection it has made.
LEMMA OpenedKeepsWired ==
    ASSUME Wired, NEW n \in Node, OnSocketOpened(n)
    PROVE  Wired'
  <1> USE DEF Wired
  <1>1. /\ trigPc[n] = "opened"
        /\ remoteDevSocketIds' = [remoteDevSocketIds EXCEPT ![n][trigPeer[n]] = trigConn[n]]
        /\ trigPc' = [trigPc EXCEPT ![n] = "send"]
        /\ UNCHANGED <<conn, inbox, serving, trigPeer, trigConn, events, handPc, handMsg, handConn,
                       asked, answers>>
    BY DEF OnSocketOpened, SetSocket, TrigGoto, handVars, historyVars
  <1>2. \A c, k, q : Links(c, k, q)' <=> Links(c, k, q)
    BY <1>1, LinksStay
  <1>3. trigPeer[n] \in Node /\ Links(trigConn[n], n, trigPeer[n]) /\ trigConn[n] \in Conn
    BY <1>1 DEF AskersLink, ExchangeTypes, Links
  <1>4. ExchangeTypes'
    BY <1>1, <1>3 DEF ExchangeTypes
  <1>5. SocketsLink'
    BY <1>1, <1>2, <1>3 DEF SocketsLink, ExchangeTypes
  <1>6. NoticesLink' /\ EventsAsked' /\ HandlersLink'
    BY <1>1, <1>2 DEF NoticesLink, EventsAsked, HandlersLink
  <1>7. AskersLink'
    BY <1>1, <1>2 DEF AskersLink, ExchangeTypes
  <1> QED BY <1>4, <1>5, <1>6, <1>7

\* A message that a device sends on a connection of its own, if that is open.
LEMMA SendingAdds ==
    ASSUME Wired, NEW n \in Node, NEW q \in Node, NEW c \in Conn \cup {NoConn},
           NEW m \in CommMsg, m.from = n, c # NoConn => Links(c, n, q),
           m.code = "REQ" => n \in Asker, m.code = "RSP" => q \in Asker,
           SendBytes(n, c, m), UNCHANGED conn
    PROVE  /\ inbox' \in [Conn -> [Node -> Seq(Notice)]]
           /\ NoticesLink'
           /\ \A d \in Conn, k \in Node :
                 /\ \A code, from : Carries(inbox'[d][k], code, from) <=>
                       \/ Carries(inbox[d][k], code, from)
                       \/ CanSend(c) /\ d = c /\ k = q /\ m.code = code /\ m.from = from
                 /\ BindFirst(inbox[d][k]) => BindFirst(inbox'[d][k])
  <1> USE DEF Wired
  <1>1. CASE CanSend(c)
    <2>1. c \in Conn /\ Links(c, n, q) /\ Tell(c, q, m) /\ m \in Notice
      BY <1>1, OtherEnd, MessageTypes DEF SendBytes, CanSend
    <2>2. /\ inbox' \in [Conn -> [Node -> Seq(Notice)]]
          /\ \A d \in Conn, k \in Node : d # c \/ k # q => inbox'[d][k] = inbox[d][k]
          /\ \A code, from : Carries(inbox'[c][q], code, from) <=>
                Carries(inbox[c][q], code, from) \/ (m.code = code /\ m.from = from)
          /\ BindFirst(inbox[c][q]) => BindFirst(inbox'[c][q])
      BY <2>1, TellAdds
    <2>3. \A d \in Conn, k \in Node :
             /\ \A code, from : Carries(inbox'[d][k], code, from) <=>
                   \/ Carries(inbox[d][k], code, from)
                   \/ CanSend(c) /\ d = c /\ k = q /\ m.code = code /\ m.from = from
             /\ BindFirst(inbox[d][k]) => BindFirst(inbox'[d][k])
      BY <1>1, <2>2
    <2>4. \A d, k, l : Links(d, k, l)' <=> Links(d, k, l)
      BY LinksStay
    <2>5. Links(c, q, n) /\ m.code \in {"REQ", "RSP"}
      BY <2>1, MessageTypes DEF Links
    <2>6. NoticesLink'
      <3> SUFFICES ASSUME NEW d \in Conn, NEW k \in Node, NEW l \in Node, NEW code \in Code,
                          Carries(inbox'[d][k], code, l)
                   PROVE  /\ Links(d, k, l)'
                          /\ code = "REQ" => l \in Asker
                          /\ code = "RSP" => k \in Asker
        BY DEF NoticesLink
      <3>1. CASE Carries(inbox[d][k], code, l)
        BY <2>4, <3>1 DEF NoticesLink
      <3>2. CASE d = c /\ k = q /\ m.code = code /\ m.from = l
        BY <2>4, <2>5, <3>2
      <3> QED BY <2>3, <3>1, <3>2
    <2> QED BY <2>2, <2>3, <2>6
  <1>2. CASE ~CanSend(c)
    <2>1. inbox' = inbox
      BY <1>2 DEF SendBytes
    <2>2. \A d, k, l : Links(d, k, l)' <=> Links(d, k, l)
      BY LinksStay
    <2> QED BY <1>2, <2>1, <2>2 DEF NoticesLink, ExchangeTypes
  <1> QED BY <1>1, <1>2

\* Notice m is taken from what device n has to hear about connection c.
Takes(c, n, m) ==
    /\ Links(c, n, m.from)
    /\ m.code = "REQ" => m.from \in Asker
    /\ m.code = "RSP" => n \in Asker
    /\ \A d \in Conn, k \in Node :
          /\ d # c \/ k # n => inbox'[d][k] = inbox[d][k]
          /\ \A code, from : Carries(inbox[d][k], code, from) <=>
                \/ Carries(inbox'[d][k], code, from)
                \/ d = c /\ k = n /\ m.code = code /\ m.from = from

\* What is left after receiving was there before.
LEMMA TakingKeepsNotices ==
    ASSUME Wired, NEW c \in Conn, NEW n \in Node, inbox[c][n] # <<>>, UNCHANGED conn,
           inbox' = [inbox EXCEPT ![c][n] = Tail(@)]
    PROVE  /\ inbox' \in [Conn -> [Node -> Seq(Notice)]]
           /\ NoticesLink'
           /\ Head(inbox[c][n]) \in Notice
           /\ Takes(c, n, Head(inbox[c][n]))
  <1>0. ExchangeTypes /\ NoticesLink
    BY DEF Wired
  <1>a. /\ inbox' \in [Conn -> [Node -> Seq(Notice)]]
        /\ Head(inbox[c][n]) \in Notice
        /\ \A d \in Conn, k \in Node : d # c \/ k # n => inbox'[d][k] = inbox[d][k]
        /\ \A code, from : Carries(inbox[c][n], code, from) <=>
              \/ Carries(inbox'[c][n], code, from)
              \/ Head(inbox[c][n]).code = code /\ Head(inbox[c][n]).from = from
    BY <1>0, ReceiveTakes
  <1>1. PICK m \in Notice : m = Head(inbox[c][n])
    BY <1>a
  <1>2. /\ inbox' \in [Conn -> [Node -> Seq(Notice)]]
        /\ \A d \in Conn, k \in Node : d # c \/ k # n => inbox'[d][k] = inbox[d][k]
        /\ \A code, from : Carries(inbox[c][n], code, from) <=>
              Carries(inbox'[c][n], code, from) \/ (m.code = code /\ m.from = from)
    BY <1>1, <1>a
  <1>3. m.code \in Code /\ m.from \in Node /\ Carries(inbox[c][n], m.code, m.from)
    BY <1>2, MessageTypes
  <1>4. /\ Links(c, n, m.from)
        /\ m.code = "REQ" => m.from \in Asker
        /\ m.code = "RSP" => n \in Asker
    BY <1>0, <1>3 DEF NoticesLink
  <1>5. \A d \in Conn, k \in Node :
           /\ d # c \/ k # n => inbox'[d][k] = inbox[d][k]
           /\ \A code, from : Carries(inbox[d][k], code, from) <=>
                 \/ Carries(inbox'[d][k], code, from)
                 \/ d = c /\ k = n /\ m.code = code /\ m.from = from
    BY <1>2
  <1>6. \A d, k, l : Links(d, k, l)' <=> Links(d, k, l)
    BY LinksStay
  <1>7. NoticesLink'
    <2> SUFFICES ASSUME NEW d \in Conn, NEW k \in Node, NEW l \in Node, NEW code \in Code,
                        Carries(inbox'[d][k], code, l)
                 PROVE  /\ Links(d, k, l)'
                        /\ code = "REQ" => l \in Asker
                        /\ code = "RSP" => k \in Asker
      BY DEF NoticesLink
    <2>1. Carries(inbox[d][k], code, l)
      BY <1>5
    <2>2. Links(d, k, l) /\ (code = "REQ" => l \in Asker) /\ (code = "RSP" => k \in Asker)
      BY <1>0, <2>1 DEF NoticesLink
    <2> QED BY <1>6, <2>2
  <1>8. Takes(c, n, m)
    BY <1>4, <1>5 DEF Takes
  <1> QED BY <1>1, <1>2, <1>7, <1>8

\* OnBind, OnBytesReceived and OnSocketClosed.
LEMMA ReceivingKeepsWired ==
    ASSUME Wired, NEW c \in Conn, NEW n \in Node, SoftbusCallback(c, n)
    PROVE  Wired'
  <1>0. ExchangeTypes /\ SocketsLink /\ NoticesLink /\ EventsAsked /\ AskersLink /\ HandlersLink
    BY DEF Wired
  <1>1. /\ inbox[c][n] # <<>> /\ inbox' = [inbox EXCEPT ![c][n] = Tail(@)]
        /\ UNCHANGED <<conn, serving, trigPc, trigPeer, trigConn, handPc, handMsg, handConn,
                       asked, answers>>
    BY DEF SoftbusCallback, OnBind, OnBytesReceived, OnSocketClosed, Receive, trigVars, handVars,
           historyVars
  <1>2. PICK m \in Notice : m = Head(inbox[c][n])
    BY <1>1, TakingKeepsNotices
  <1>3. /\ inbox' \in [Conn -> [Node -> Seq(Notice)]] /\ NoticesLink'
        /\ Links(c, n, m.from)
        /\ m.code = "REQ" => m.from \in Asker
        /\ m.code = "RSP" => n \in Asker
    BY <1>1, <1>2, TakingKeepsNotices DEF Takes
  <1>4. \A d, k, l : Links(d, k, l)' <=> Links(d, k, l)
    BY <1>1, LinksStay
  <1>5. AskersLink' /\ HandlersLink'
    BY <1>0, <1>1, <1>4 DEF AskersLink, HandlersLink
  <1>6. CASE OnBind(c, n)
    <2>1. /\ remoteDevSocketIds' = [remoteDevSocketIds EXCEPT ![n][m.from] = c]
          /\ UNCHANGED events
      BY <1>2, <1>6 DEF OnBind, SetSocket
    <2>2. m.from \in Node
      BY MessageTypes
    <2>3. ExchangeTypes'
      BY <1>0, <1>1, <1>3, <2>1, <2>2 DEF ExchangeTypes
    <2>4. SocketsLink'
      BY <1>0, <1>3, <1>4, <2>1, <2>2 DEF SocketsLink, ExchangeTypes
    <2>5. EventsAsked'
      BY <1>0, <2>1 DEF EventsAsked
    <2> QED BY <1>3, <1>5, <2>3, <2>4, <2>5 DEF Wired
  <1>7. CASE OnBytesReceived(c, n)
    <2>1. m.code \in {"REQ", "RSP"} /\ m \in CommMsg
      BY <1>2, <1>7, MessageTypes DEF OnBytesReceived, Receive
    <2>2. /\ UNCHANGED remoteDevSocketIds
          /\ \/ events' = [events EXCEPT ![n] = Append(events[n], m)]
             \/ events' = events
      BY <1>2, <1>7 DEF OnBytesReceived
    <2>3. events[n] \in Seq(CommMsg)
      BY <1>0 DEF ExchangeTypes
    <2>4. /\ Append(events[n], m) \in Seq(CommMsg)
          /\ \A code, from : Carries(Append(events[n], m), code, from) <=>
                Carries(events[n], code, from) \/ (m.code = code /\ m.from = from)
      BY <2>1, <2>3, CarriesAppend
    <2>a. events' \in [Node -> Seq(CommMsg)]
      <3> DEFINE s == Append(events[n], m)
      <3>1. s \in Seq(CommMsg) /\ (events' = [events EXCEPT ![n] = s] \/ events' = events)
        BY <2>2, <2>4
      <3> HIDE DEF s
      <3> QED BY <1>0, <3>1 DEF ExchangeTypes
    <2>5. ExchangeTypes'
      BY <1>0, <1>1, <1>3, <2>2, <2>a DEF ExchangeTypes
    <2>6. SocketsLink'
      BY <1>0, <1>4, <2>2 DEF SocketsLink
    <2>7. EventsAsked'
      <3> SUFFICES ASSUME NEW k \in Node, NEW l \in Node
                   PROVE  /\ Carries(events'[k], "REQ", l) => l \in Asker
                          /\ Carries(events'[k], "RSP", l) => k \in Asker
        BY DEF EventsAsked
      <3>1. CASE events'[k] = events[k]
        BY <1>0, <3>1 DEF EventsAsked
      <3>2. CASE k = n /\ events'[k] = Append(events[n], m)
        BY <1>0, <1>3, <2>4, <3>2 DEF EventsAsked
      <3> QED BY <1>0, <2>2, <3>1, <3>2 DEF ExchangeTypes
    <2> QED BY <1>3, <1>5, <2>5, <2>6, <2>7 DEF Wired
  <1>8. CASE OnSocketClosed(c, n)
    <2>1. /\ remoteDevSocketIds' =
                [remoteDevSocketIds EXCEPT
                    ![n] = [p \in Node |-> IF @[p] = c THEN NoConn ELSE @[p]]]
          /\ UNCHANGED events
      BY <1>8 DEF OnSocketClosed
    <2>2. /\ remoteDevSocketIds' \in [Node -> [Node -> Conn \cup {NoConn}]]
          /\ \A k, l \in Node : remoteDevSocketIds'[k][l] \in {NoConn, remoteDevSocketIds[k][l]}
      BY <1>0, <2>1 DEF ExchangeTypes
    <2>3. ExchangeTypes'
      BY <1>0, <1>1, <1>3, <2>1, <2>2 DEF ExchangeTypes
    <2>4. SocketsLink'
      BY <1>0, <1>4, <2>2 DEF SocketsLink
    <2>5. EventsAsked'
      BY <1>0, <2>1 DEF EventsAsked
    <2> QED BY <1>3, <1>5, <2>3, <2>4, <2>5 DEF Wired
  <1> QED BY <1>6, <1>7, <1>8 DEF SoftbusCallback

\* A request is sent by an asker on a connection to its peer.
LEMMA SendReqKeepsWired ==
    ASSUME Wired, NEW n \in Node, SendReqBytes(n)
    PROVE  Wired'
  <1>0. ExchangeTypes /\ SocketsLink /\ NoticesLink /\ EventsAsked /\ AskersLink /\ HandlersLink
    BY DEF Wired
  <1>1. PICK m \in CommMsg : m = [code |-> "REQ", from |-> n, caps |-> {}]
    BY MessageTypes
  <1>2. PICK c \in Conn \cup {NoConn}, q \in Node : c = trigConn[n] /\ q = trigPeer[n]
    BY <1>0 DEF ExchangeTypes
  <1>3. /\ trigPc[n] = "bytes" /\ SendBytes(n, c, m)
        /\ asked' = IF CanSend(c) THEN [asked EXCEPT ![n][q] = @ + 1] ELSE asked
        /\ trigPc' = [trigPc EXCEPT ![n] = "idle"]
        /\ UNCHANGED <<conn, remoteDevSocketIds, serving, trigPeer, trigConn, events, handPc,
                       handMsg, handConn, answers>>
    BY <1>1, <1>2 DEF SendReqBytes, TrigGoto, handVars
  <1>4. n \in Asker /\ (c # NoConn => Links(c, n, q))
    BY <1>0, <1>2, <1>3 DEF AskersLink
  <1>5. inbox' \in [Conn -> [Node -> Seq(Notice)]] /\ NoticesLink'
    BY <1>1, <1>3, <1>4, SendingAdds
  <1>6. asked' \in [Node -> [Node -> Nat]]
    <2>1. asked \in [Node -> [Node -> Nat]]
      BY <1>0 DEF ExchangeTypes
    <2>2. asked[n][q] + 1 \in Nat
      BY <2>1
    <2> QED BY <1>3, <2>1, <2>2
  <1>7. ExchangeTypes'
    BY <1>0, <1>3, <1>5, <1>6 DEF ExchangeTypes
  <1>8. \A d, k, l : Links(d, k, l)' <=> Links(d, k, l)
    BY <1>3, LinksStay
  <1>9. SocketsLink' /\ EventsAsked' /\ HandlersLink'
    BY <1>0, <1>3, <1>8 DEF SocketsLink, EventsAsked, HandlersLink
  <1>10. AskersLink'
    BY <1>0, <1>3, <1>8 DEF AskersLink, ExchangeTypes
  <1> QED BY <1>5, <1>7, <1>9, <1>10 DEF Wired

\* An answer is sent to an asker on a connection to it.
LEMMA SendRspKeepsWired ==
    ASSUME Wired, NEW n \in Node, SendRspBytes(n)
    PROVE  Wired'
  <1>0. ExchangeTypes /\ SocketsLink /\ NoticesLink /\ EventsAsked /\ AskersLink /\ HandlersLink
    BY DEF Wired
  <1>1. PICK m \in CommMsg : /\ m.from = n /\ m.code = "RSP"
                             /\ SendBytes(n, handConn[n], m)
    BY MessageTypes DEF SendRspBytes
  <1>2. PICK c \in Conn \cup {NoConn}, q \in Node : c = handConn[n] /\ q = handMsg[n].from
    BY <1>0 DEF ExchangeTypes, CommMsg
  <1>3. /\ handPc[n] = "bytes" /\ SendBytes(n, c, m)
        /\ handPc' = [handPc EXCEPT ![n] = "idle"]
        /\ UNCHANGED <<conn, remoteDevSocketIds, serving, trigPc, trigPeer, trigConn, events,
                       handMsg, handConn, asked, answers>>
    BY <1>1, <1>2 DEF SendRspBytes, HandGoto, trigVars, historyVars
  <1>4. q \in Asker /\ (c # NoConn => Links(c, n, q))
    BY <1>0, <1>2, <1>3 DEF HandlersLink
  <1>5. inbox' \in [Conn -> [Node -> Seq(Notice)]] /\ NoticesLink'
    BY <1>1, <1>3, <1>4, SendingAdds
  <1>6. ExchangeTypes'
    BY <1>0, <1>3, <1>5 DEF ExchangeTypes
  <1>7. \A d, k, l : Links(d, k, l)' <=> Links(d, k, l)
    BY <1>3, LinksStay
  <1>8. SocketsLink' /\ EventsAsked' /\ AskersLink'
    BY <1>0, <1>3, <1>7 DEF SocketsLink, EventsAsked, AskersLink
  <1>9. HandlersLink'
    BY <1>0, <1>3, <1>7 DEF HandlersLink, ExchangeTypes
  <1> QED BY <1>5, <1>6, <1>8, <1>9 DEF Wired

\* What the handler does with a message: the asker's socket is looked up, or the
\* answer is counted.
HandlingVars == <<conn, inbox, serving, trigPc, trigPeer, trigConn, asked>>

\* A message that is taken up is from an asker, or an answer to one.
LEMMA GettingKeepsWired ==
    ASSUME Wired, NEW n \in Node, GetAndSendLocalFullCaps(n) \/ ParseAndSaveRemoteDHCaps(n)
    PROVE  Wired'
  <1>0. ExchangeTypes /\ SocketsLink /\ NoticesLink /\ EventsAsked /\ AskersLink /\ HandlersLink
    BY DEF Wired
  <1>1. /\ events[n] # <<>> /\ events' = [events EXCEPT ![n] = Tail(events[n])]
        /\ handMsg' = [handMsg EXCEPT ![n] = Head(events[n])]
        /\ UNCHANGED <<HandlingVars, remoteDevSocketIds>>
    BY DEF GetAndSendLocalFullCaps, ParseAndSaveRemoteDHCaps, NextEvent, HandlingVars, connVars,
           trigVars, historyVars
  <1>2. events[n] \in Seq(CommMsg)
    BY <1>0 DEF ExchangeTypes
  <1>3. /\ Tail(events[n]) \in Seq(CommMsg) /\ Head(events[n]) \in CommMsg
        /\ \A code, from : Carries(events[n], code, from) <=>
              \/ Carries(Tail(events[n]), code, from)
              \/ Head(events[n]).code = code /\ Head(events[n]).from = from
    BY <1>1, <1>2, CarriesTail
  <1>4. PICK m \in CommMsg, s \in Seq(CommMsg) : m = Head(events[n]) /\ s = Tail(events[n])
    BY <1>3
  <1>5. /\ events' = [events EXCEPT ![n] = s] /\ handMsg' = [handMsg EXCEPT ![n] = m]
        /\ \A code, from : Carries(events[n], code, from) <=>
              Carries(s, code, from) \/ (m.code = code /\ m.from = from)
    BY <1>1, <1>3, <1>4
  <1>6. m.from \in Node /\ Carries(events[n], m.code, m.from)
    BY <1>5, MessageTypes
  <1>7. /\ events' \in [Node -> Seq(CommMsg)] /\ handMsg' \in [Node -> CommMsg]
        /\ events'[n] = s /\ handMsg'[n] = m
        /\ \A k \in Node \ {n} : events'[k] = events[k] /\ handMsg'[k] = handMsg[k]
    BY <1>0, <1>5 DEF ExchangeTypes
  <1>8. EventsAsked'
    BY <1>0, <1>5, <1>7 DEF EventsAsked
  <1>9. \A d, k, l : Links(d, k, l)' <=> Links(d, k, l)
    BY <1>1, LinksStay DEF HandlingVars
  <1>10. SocketsLink' /\ NoticesLink' /\ AskersLink'
    BY <1>0, <1>1, <1>9 DEF SocketsLink, NoticesLink, AskersLink, HandlingVars
  <1>11. CASE GetAndSendLocalFullCaps(n)
    <2>1. /\ m.code = "REQ" /\ handPc' = [handPc EXCEPT ![n] = "bytes"]
          /\ handConn' = [handConn EXCEPT ![n] = remoteDevSocketIds[n][m.from]]
          /\ UNCHANGED answers
      BY <1>4, <1>11 DEF GetAndSendLocalFullCaps, NextEvent, HandGoto, historyVars
    <2>2. m.from \in Asker
      BY <1>0, <1>6, <2>1 DEF EventsAsked
    <2>a. /\ handPc' \in [Node -> {"idle", "bytes", "stop", "shutdown", "erase", "uuid", "query",
                                   "push", "save"}]
          /\ handConn' \in [Node -> Conn \cup {NoConn}]
      <3>1. remoteDevSocketIds[n][m.from] \in Conn \cup {NoConn}
        BY <1>0, <1>6 DEF ExchangeTypes
      <3> QED BY <1>0, <2>1, <3>1 DEF ExchangeTypes
    <2>3. ExchangeTypes'
      BY <1>0, <1>1, <1>7, <2>1, <2>a DEF ExchangeTypes, HandlingVars
    <2>4. handPc'[n] = "bytes" /\ handConn'[n] = remoteDevSocketIds[n][m.from]
      BY <1>0, <2>1 DEF ExchangeTypes
    <2>5. \A k \in Node \ {n} : handPc'[k] = handPc[k] /\ handConn'[k] = handConn[k]
      BY <1>0, <2>1 DEF ExchangeTypes
    <2>6. HandlersLink'
      <3> SUFFICES ASSUME NEW k \in Node
                   PROVE  /\ handPc'[k] = "bytes" =>
                                /\ handMsg'[k].from \in Asker
                                /\ handConn'[k] # NoConn => Links(handConn'[k], k, handMsg'[k].from)
                          /\ handPc'[k] \notin {"idle", "bytes"} =>
                                k \in Asker /\ answers'[k][handMsg'[k].from] > 0
                          /\ handPc'[k] = "shutdown" => Links(handConn'[k], k, handMsg'[k].from)
        BY <1>9 DEF HandlersLink
      <3>1. CASE k = n
        BY <1>0, <1>6, <1>7, <1>9, <2>2, <2>4, <3>1 DEF SocketsLink
      <3>2. CASE k # n
        BY <1>0, <1>7, <1>9, <2>1, <2>5, <3>2 DEF HandlersLink
      <3> QED BY <3>1, <3>2
    <2> QED BY <1>8, <1>10, <2>3, <2>6 DEF Wired
  <1>12. CASE ParseAndSaveRemoteDHCaps(n)
    <2>1. /\ m.code = "RSP" /\ handPc' = [handPc EXCEPT ![n] = IF m.caps = {} THEN "idle" ELSE "stop"]
          /\ answers' = [answers EXCEPT ![n][m.from] = @ + 1]
          /\ UNCHANGED handConn
      BY <1>4, <1>12 DEF ParseAndSaveRemoteDHCaps, NextEvent, HandGoto
    <2>2. n \in Asker
      BY <1>0, <1>6, <2>1 DEF EventsAsked
    <2>3. answers \in [Node -> [Node -> Nat]] /\ answers[n][m.from] + 1 \in Nat
      BY <1>0, <1>6 DEF ExchangeTypes
    <2>4. /\ answers' \in [Node -> [Node -> Nat]] /\ answers'[n][m.from] > 0
          /\ \A k \in Node \ {n} : answers'[k] = answers[k]
      BY <1>6, <2>1, <2>3
    <2>5. /\ handPc'[n] \in {"idle", "stop"}
          /\ \A k \in Node \ {n} : handPc'[k] = handPc[k]
          /\ handPc' \in [Node -> {"idle", "bytes", "stop", "shutdown", "erase", "uuid", "query",
                                   "push", "save"}]
      BY <1>0, <2>1 DEF ExchangeTypes
    <2>6. ExchangeTypes'
      BY <1>0, <1>1, <1>7, <2>1, <2>4, <2>5 DEF ExchangeTypes, HandlingVars
    <2>7. HandlersLink'
      <3> SUFFICES ASSUME NEW k \in Node
                   PROVE  /\ handPc'[k] = "bytes" =>
                                /\ handMsg'[k].from \in Asker
                                /\ handConn'[k] # NoConn => Links(handConn'[k], k, handMsg'[k].from)
                          /\ handPc'[k] \notin {"idle", "bytes"} =>
                                k \in Asker /\ answers'[k][handMsg'[k].from] > 0
                          /\ handPc'[k] = "shutdown" => Links(handConn'[k], k, handMsg'[k].from)
        BY <1>9 DEF HandlersLink
      <3>1. CASE k = n
        BY <1>7, <2>2, <2>4, <2>5, <3>1
      <3>2. CASE k # n
        BY <1>0, <1>7, <1>9, <2>1, <2>4, <2>5, <3>2 DEF HandlersLink
      <3> QED BY <3>1, <3>2
    <2> QED BY <1>8, <1>10, <2>6, <2>7 DEF Wired
  <1> QED BY <1>11, <1>12

\* The thread that handles an answer closes the socket of the peer that sent it.
LEMMA StoppingKeepsWired ==
    ASSUME Wired, NEW n \in Node,
           StopSocket(n) \/ ShutdownSocket(n) \/ ClearDeviceSocketOpened(n)
    PROVE  Wired'
  <1>0. ExchangeTypes /\ SocketsLink /\ NoticesLink /\ EventsAsked /\ AskersLink /\ HandlersLink
    BY DEF Wired
  <1>1. /\ handPc[n] \in {"stop", "shutdown", "erase"}
        /\ UNCHANGED <<serving, trigPc, trigPeer, trigConn, events, handMsg, asked, answers>>
    BY DEF StopSocket, ShutdownSocket, ClearDeviceSocketOpened, trigVars, historyVars
  <1>2. PICK q \in Node : q = handMsg[n].from
    BY <1>0 DEF ExchangeTypes, CommMsg
  <1>3. n \in Asker /\ answers[n][q] > 0 /\ (handPc[n] = "shutdown" => Links(handConn[n], n, q))
    BY <1>0, <1>1, <1>2 DEF HandlersLink
  <1>4. CASE StopSocket(n)
    <2>1. /\ handConn' = [handConn EXCEPT ![n] = remoteDevSocketIds[n][q]]
          /\ handPc' = [handPc EXCEPT
                           ![n] = IF remoteDevSocketIds[n][q] = NoConn THEN "uuid" ELSE "shutdown"]
          /\ UNCHANGED <<conn, inbox, remoteDevSocketIds>>
      BY <1>2, <1>4 DEF StopSocket, HandGoto, connVars
    <2>2. \A d, k, l : Links(d, k, l)' <=> Links(d, k, l)
      BY <2>1, LinksStay
    <2>3. /\ handConn' \in [Node -> Conn \cup {NoConn}]
          /\ handPc' \in [Node -> {"idle", "bytes", "stop", "shutdown", "erase", "uuid", "query",
                                   "push", "save"}]
          /\ handPc'[n] \in {"uuid", "shutdown"} /\ handConn'[n] = remoteDevSocketIds[n][q]
          /\ handPc'[n] = "shutdown" => remoteDevSocketIds[n][q] # NoConn
          /\ \A k \in Node \ {n} : handPc'[k] = handPc[k] /\ handConn'[k] = handConn[k]
      BY <1>0, <2>1 DEF ExchangeTypes
    <2>4. ExchangeTypes'
      BY <1>0, <1>1, <2>1, <2>3 DEF ExchangeTypes
    <2>5. SocketsLink' /\ NoticesLink' /\ EventsAsked' /\ AskersLink'
      BY <1>0, <1>1, <2>1, <2>2 DEF SocketsLink, NoticesLink, EventsAsked, AskersLink
    <2>6. HandlersLink'
      <3> SUFFICES ASSUME NEW k \in Node
                   PROVE  /\ handPc'[k] = "bytes" =>
                                /\ handMsg[k].from \in Asker
                                /\ handConn'[k] # NoConn => Links(handConn'[k], k, handMsg[k].from)
                          /\ handPc'[k] \notin {"idle", "bytes"} =>
                                k \in Asker /\ answers[k][handMsg[k].from] > 0
                          /\ handPc'[k] = "shutdown" => Links(handConn'[k], k, handMsg[k].from)
        BY <1>1, <2>2 DEF HandlersLink
      <3>1. CASE k = n
        BY <1>0, <1>2, <1>3, <2>3, <3>1 DEF SocketsLink
      <3>2. CASE k # n
        BY <1>0, <2>3, <3>2 DEF HandlersLink
      <3> QED BY <3>1, <3>2
    <2> QED BY <2>4, <2>5, <2>6 DEF Wired
  <1>5. CASE ShutdownSocket(n)
    <2>1. PICK c \in Conn : c = handConn[n] /\ Links(c, n, q)
      BY <1>3, <1>5 DEF ShutdownSocket, Links
    <2>a. PICK m \in Notice : m = [code |-> "SHUTDOWN", from |-> n, caps |-> {}]
      BY MessageTypes
    <2>b. m.code = "SHUTDOWN" /\ m.from = n
      BY <2>a
    <2>2. /\ handPc[n] = "shutdown" /\ Shutdown(n, {c})
          /\ handPc' = [handPc EXCEPT ![n] = "erase"]
          /\ UNCHANGED <<remoteDevSocketIds, handConn>>
      BY <1>5, <2>1 DEF ShutdownSocket, HandGoto
    <2>c. Disconnects(c, q, m)
      <3>1. PICK C : C = {c}
        OBVIOUS
      <3>2. ExchangeTypes /\ Links(c, n, q) /\ Shutdown(n, C)
        BY <1>0, <2>1, <2>2, <3>1
      <3> QED BY <2>a, <3>1, <3>2, ShutdownTells
    <2>3. /\ conn' \in [Conn -> [state : {"free", "open", "closed"}, from : Node, to : Node]]
          /\ inbox' \in [Conn -> [Node -> Seq(Notice)]]
          /\ \A d \in Conn : d # c => conn'[d] = conn[d] /\ inbox'[d] = inbox[d]
          /\ \A d, k, l : Links(d, k, l)' <=> Links(d, k, l)
          /\ \A k \in Node : \A code, from : Carries(inbox'[c][k], code, from) =>
                Carries(inbox[c][k], code, from) \/ (k = q /\ m.code = code /\ m.from = from)
      BY <2>c DEF Disconnects
    <2>4. /\ handPc' \in [Node -> {"idle", "bytes", "stop", "shutdown", "erase", "uuid", "query",
                                   "push", "save"}]
          /\ handPc'[n] = "erase" /\ \A k \in Node \ {n} : handPc'[k] = handPc[k]
      BY <1>0, <2>2 DEF ExchangeTypes
    <2>5. ExchangeTypes'
      BY <1>0, <1>1, <2>2, <2>3, <2>4 DEF ExchangeTypes
    <2>6. NoticesLink'
      <3> SUFFICES ASSUME NEW d \in Conn, NEW k \in Node, NEW l \in Node, NEW code \in Code,
                          Carries(inbox'[d][k], code, l)
                   PROVE  /\ Links(d, k, l)'
                          /\ code = "REQ" => l \in Asker
                          /\ code = "RSP" => k \in Asker
        BY DEF NoticesLink
      <3>1. CASE Carries(inbox[d][k], code, l)
        BY <1>0, <2>3, <3>1 DEF NoticesLink
      <3>2. CASE d = c /\ k = q /\ m.code = code /\ m.from = l
        <4>1. Links(c, q, n)
          BY <2>1 DEF Links
        <4> QED BY <2>b, <2>3, <3>2, <4>1
      <3>3. \/ Carries(inbox[d][k], code, l)
            \/ d = c /\ k = q /\ m.code = code /\ m.from = l
        <4>1. CASE d = c
          BY <2>3, <4>1
        <4>2. CASE d # c
          BY <2>3, <4>2
        <4> QED BY <4>1, <4>2
      <3> QED BY <3>1, <3>2, <3>3
    <2>7. SocketsLink' /\ EventsAsked' /\ AskersLink'
      BY <1>0, <1>1, <2>2, <2>3 DEF SocketsLink, EventsAsked, AskersLink
    <2>8. HandlersLink'
      BY <1>0, <1>1, <1>2, <1>3, <2>2, <2>3, <2>4 DEF HandlersLink
    <2> QED BY <2>5, <2>6, <2>7, <2>8 DEF Wired
  <1>6. CASE ClearDeviceSocketOpened(n)
    <2>1. /\ remoteDevSocketIds' = [remoteDevSocketIds EXCEPT ![n][q] = NoConn]
          /\ handPc' = [handPc EXCEPT ![n] = "uuid"]
          /\ UNCHANGED <<conn, inbox, handConn>>
      BY <1>2, <1>6 DEF ClearDeviceSocketOpened, SetSocket, HandGoto
    <2>2. \A d, k, l : Links(d, k, l)' <=> Links(d, k, l)
      BY <2>1, LinksStay
    <2>3. /\ handPc' \in [Node -> {"idle", "bytes", "stop", "shutdown", "erase", "uuid", "query",
                                   "push", "save"}]
          /\ handPc'[n] = "uuid" /\ \A k \in Node \ {n} : handPc'[k] = handPc[k]
      BY <1>0, <2>1 DEF ExchangeTypes
    <2>4. /\ remoteDevSocketIds' \in [Node -> [Node -> Conn \cup {NoConn}]]
          /\ \A k, l \in Node : remoteDevSocketIds'[k][l] \in {NoConn, remoteDevSocketIds[k][l]}
      BY <1>0, <2>1 DEF ExchangeTypes
    <2>5. ExchangeTypes'
      BY <1>0, <1>1, <2>1, <2>3, <2>4 DEF ExchangeTypes
    <2>6. SocketsLink' /\ NoticesLink' /\ EventsAsked' /\ AskersLink'
      BY <1>0, <1>1, <2>1, <2>2, <2>4 DEF SocketsLink, NoticesLink, EventsAsked, AskersLink
    <2>7. HandlersLink'
      BY <1>0, <1>1, <1>2, <1>3, <2>1, <2>2, <2>3 DEF HandlersLink
    <2> QED BY <2>5, <2>6, <2>7 DEF Wired
  <1> QED BY <1>4, <1>5, <1>6

\* The rest of the handling of an answer, and an answer given up: no socket is used.
Refreshing(n) ==
    \/ SendRspFail(n)
    \/ GetUUIDByNetworkId(n) \/ RefreshNow(n) \/ SaveNeedRefreshTask(n) \/ FinishRsp(n)
    \/ \E h \in DhId : QueryBusinessState(n, h)

\* Such a step moves the handler only.
LEMMA RefreshingIsQuiet ==
    ASSUME Wired, NEW n \in Node, Refreshing(n)
    PROVE  /\ UNCHANGED <<HandlingVars, remoteDevSocketIds, events, handMsg, handConn, answers>>
           /\ handPc[n] \in {"bytes", "uuid", "query", "push", "save"}
           /\ handPc[n] = "bytes" => n \in unsent' /\ handPc'[n] = "idle"
           /\ handPc' \in [Node -> {"idle", "bytes", "stop", "shutdown", "erase", "uuid", "query",
                                    "push", "save"}]
           /\ handPc'[n] \in {"idle", "query", "push", "save"}
           /\ \A k \in Node \ {n} : handPc'[k] = handPc[k]
  <1>1. /\ UNCHANGED <<HandlingVars, remoteDevSocketIds, events, handMsg, handConn, answers>>
        /\ handPc[n] \in {"bytes", "uuid", "query", "push", "save"}
        /\ \E step \in {"idle", "query", "push", "save"} :
              /\ handPc' = [handPc EXCEPT ![n] = step]
              /\ handPc[n] = "bytes" => n \in unsent' /\ step = "idle"
    BY DEF Refreshing, SendRspFail, GetUUIDByNetworkId, RefreshNow, SaveNeedRefreshTask, FinishRsp,
           QueryBusinessState, HandGoto, HandlingVars, connVars, trigVars, historyVars
  <1> QED BY <1>1 DEF Wired, ExchangeTypes

\* What an answer refreshes does not matter to the sockets.
LEMMA RefreshingKeepsWired ==
    ASSUME Wired, NEW n \in Node, Refreshing(n)
    PROVE  Wired'
  <1>0. ExchangeTypes /\ SocketsLink /\ NoticesLink /\ EventsAsked /\ AskersLink /\ HandlersLink
    BY DEF Wired
  <1>1. /\ UNCHANGED <<HandlingVars, remoteDevSocketIds, events, handMsg, handConn, answers>>
        /\ handPc[n] \in {"bytes", "uuid", "query", "push", "save"}
        /\ handPc[n] = "bytes" => handPc'[n] = "idle"
        /\ handPc' \in [Node -> {"idle", "bytes", "stop", "shutdown", "erase", "uuid", "query",
                                 "push", "save"}]
        /\ handPc'[n] \in {"idle", "query", "push", "save"}
        /\ \A k \in Node \ {n} : handPc'[k] = handPc[k]
    BY RefreshingIsQuiet
  <1>2. ExchangeTypes'
    BY <1>0, <1>1 DEF ExchangeTypes, HandlingVars
  <1>3. \A d, k, l : Links(d, k, l)' <=> Links(d, k, l)
    BY <1>1, LinksStay DEF HandlingVars
  <1>4. SocketsLink' /\ NoticesLink' /\ EventsAsked' /\ AskersLink'
    BY <1>0, <1>1, <1>3 DEF SocketsLink, NoticesLink, EventsAsked, AskersLink, HandlingVars
  <1>5. HandlersLink'
    BY <1>0, <1>1, <1>3 DEF HandlersLink
  <1> QED BY <1>2, <1>4, <1>5 DEF Wired

-----------------------------------------------------------------------------
(* A device and a peer that asks no one, before the first answer *)

\* They have at most one connection, which is open, and which the asker knows or
\* is about to record.
OneSocket(a, p) ==
    \A c \in Conn : Links(c, a, p) =>
        /\ conn[c].state = "open"
        /\ \/ c = remoteDevSocketIds[a][p]
           \/ trigPc[a] = "opened" /\ trigPeer[a] = p /\ c = trigConn[a]

\* Only the asker opens connections, and none is closed.
NothingElse(a, p) ==
    \A c \in Conn : /\ ~Carries(inbox[c][a], "SHUTDOWN", p) /\ ~Carries(inbox[c][p], "SHUTDOWN", a)
                    /\ ~Carries(inbox[c][a], "BIND", p)

\* The peer hears of a connection before it hears a request on it.
PeerKnows(a, p) ==
    \A c \in Conn : Links(c, a, p) => remoteDevSocketIds[p][a] = c \/ BindFirst(inbox[c][p])

AskerKnows(a, p) ==
    /\ trigPc[a] \in {"bind", "opened"} /\ trigPeer[a] = p => remoteDevSocketIds[a][p] = NoConn
    /\ trigPc[a] = "bytes" /\ trigPeer[a] = p => trigConn[a] = remoteDevSocketIds[a][p]

PeerAnswers(a, p) ==
    /\ Carries(events[p], "REQ", a) => remoteDevSocketIds[p][a] # NoConn
    /\ handPc[p] = "bytes" /\ handMsg[p].from = a =>
          remoteDevSocketIds[p][a] # NoConn /\ handConn[p] = remoteDevSocketIds[p][a]

\* A request, or the answer to it, is somewhere.
OnItsWay(a, p) ==
    \/ \E c \in Conn : Carries(inbox[c][p], "REQ", a) \/ Carries(inbox[c][a], "RSP", p)
    \/ Carries(events[p], "REQ", a) \/ Carries(events[a], "RSP", p)
    \/ handPc[p] = "bytes" /\ handMsg[p].from = a

RequestIsThere(a, p) == asked[a][p] > 0 => remoteDevSocketIds[a][p] # NoConn /\ OnItsWay(a, p)

First(a, p) ==
    /\ OneSocket(a, p) /\ NothingElse(a, p) /\ PeerKnows(a, p)
    /\ AskerKnows(a, p) /\ PeerAnswers(a, p) /\ RequestIsThere(a, p)

\* A connection has two ends.
LEMMA LinksPair ==
    ASSUME NEW c, NEW n, NEW q, NEW a, NEW p, Links(c, n, q), Links(c, a, p)
    PROVE  (n = a /\ q = p) \/ (n = p /\ q = a)
  BY DEF Links

\* Before the first answer the two have one connection at most.
LEMMA SoleSocket ==
    ASSUME NEW a, NEW p, First(a, p), NEW c \in Conn, NEW d \in Conn, Links(c, a, p), Links(d, a, p)
    PROVE  c = d
  BY CapsSyncAssumption DEF First, OneSocket, AskerKnows

\* What a step may do that neither opens nor closes a connection of the two.
Undisturbed(a, p) ==
    /\ \A c \in Conn : Links(c, a, p)' <=> Links(c, a, p)
    /\ \A c \in Conn : Links(c, a, p) =>
          /\ conn'[c] = conn[c]
          /\ BindFirst(inbox[c][p]) => BindFirst(inbox'[c][p])
    /\ \A c \in Conn :
          /\ Carries(inbox'[c][a], "SHUTDOWN", p) => Carries(inbox[c][a], "SHUTDOWN", p)
          /\ Carries(inbox'[c][p], "SHUTDOWN", a) => Carries(inbox[c][p], "SHUTDOWN", a)
          /\ Carries(inbox'[c][a], "BIND", p) => Carries(inbox[c][a], "BIND", p)
    /\ remoteDevSocketIds'[a][p] = remoteDevSocketIds[a][p]
    /\ remoteDevSocketIds'[p][a] = remoteDevSocketIds[p][a]
    /\ trigPc[a] = "opened" /\ trigPeer[a] = p =>
          trigPc'[a] = "opened" /\ trigPeer'[a] = p /\ trigConn'[a] = trigConn[a]

\* Such a step keeps what is said of their connection.
LEMMA UndisturbedKeeps ==
    ASSUME NEW a \in Node, NEW p \in Node, First(a, p), Undisturbed(a, p)
    PROVE  OneSocket(a, p)' /\ NothingElse(a, p)' /\ PeerKnows(a, p)'
  <1>1. OneSocket(a, p) /\ NothingElse(a, p) /\ PeerKnows(a, p)
    BY DEF First
  <1>2. OneSocket(a, p)'
    BY <1>1 DEF OneSocket, Undisturbed
  <1>3. NothingElse(a, p)'
    BY <1>1 DEF NothingElse, Undisturbed
  <1>4. PeerKnows(a, p)'
    BY <1>1 DEF PeerKnows, Undisturbed
  <1> QED BY <1>2, <1>3, <1>4

\* The steps of the two that leave connections and messages alone.
LEMMA AskingKeepsFirst ==
    ASSUME Wired, NEW a \in Node, NEW p \in Node \ Asker, a # p, First(a, p),
           NEW n \in Node, AskerMoves(n)
    PROVE  First(a, p)'
  <1>1. Undisturbed(a, p)
    <2>1. \A c, k, l : Links(c, k, l)' <=> Links(c, k, l)
      BY LinksStay DEF AskerMoves
    <2>2. UNCHANGED <<conn, inbox, remoteDevSocketIds>>
      BY DEF AskerMoves
    <2>3. trigPc[a] = "opened" => /\ trigPc'[a] = trigPc[a] /\ trigPeer'[a] = trigPeer[a]
                                  /\ trigConn'[a] = trigConn[a]
      BY DEF AskerMoves
    <2> QED BY <2>1, <2>2, <2>3 DEF Undisturbed
  <1>2. OneSocket(a, p)' /\ NothingElse(a, p)' /\ PeerKnows(a, p)'
    BY <1>1, UndisturbedKeeps
  <1>3. AskerKnows(a, p)'
    <2>1. CASE n = a
      BY <2>1 DEF AskerMoves, AskerKnows
    <2>2. CASE n # a
      BY <2>2 DEF First, AskerMoves, AskerKnows
    <2> QED BY <2>1, <2>2
  <1>4. PeerAnswers(a, p)' /\ RequestIsThere(a, p)'
    BY DEF First, AskerMoves, PeerAnswers, RequestIsThere, OnItsWay
  <1> QED BY <1>2, <1>3, <1>4 DEF First

\* A connection carries nothing before it is made.
LEMMA UnmadeIsEmpty ==
    ASSUME Wired, NEW c \in Conn, NEW n \in Node, \A k, l : ~Links(c, k, l)
    PROVE  inbox[c][n] = <<>>
  <1> SUFFICES ASSUME inbox[c][n] # <<>> PROVE FALSE
    OBVIOUS
  <1>1. inbox[c][n] \in Seq(Notice)
    BY DEF Wired, ExchangeTypes
  <1>2. PICK m \in Notice : m = Head(inbox[c][n])
    BY <1>1, CarriesTail
  <1>3. Carries(inbox[c][n], m.code, m.from)
    BY <1>1, <1>2, CarriesTail
  <1>4. m.code \in Code /\ m.from \in Node
    BY MessageTypes
  <1> QED BY <1>3, <1>4 DEF Wired, NoticesLink

\* Bind: the asker makes a connection only if it has none in its map.
LEMMA BindKeepsFirst ==
    ASSUME Wired, NEW a \in Node, NEW p \in Node \ Asker, a # p, First(a, p),
           NEW n \in Node, Bind(n)
    PROVE  First(a, p)'
  <1>a. PICK q \in Node, m \in Notice :
           q = trigPeer[n] /\ m = [code |-> "BIND", from |-> n, caps |-> {}]
    BY MessageTypes DEF Wired, ExchangeTypes
  <1>c. PICK c \in Conn : Connects(c, n, q, m)
    BY <1>a, BindConnects
  <1>1. /\ trigPc[n] = "bind" /\ n \in Asker /\ q # n
        /\ trigPc' = [trigPc EXCEPT ![n] = "opened"]
        /\ trigConn' = [trigConn EXCEPT ![n] = c]
        /\ UNCHANGED <<remoteDevSocketIds, serving, trigPeer, events, handPc, handMsg, handConn,
                       asked, answers>>
        /\ conn'[c].state = "open" /\ \A d \in Conn : d # c => conn'[d] = conn[d]
        /\ \A k, l : ~Links(c, k, l)
        /\ \A d, k, l : Links(d, k, l)' <=>
              \/ Links(d, k, l)
              \/ d = c /\ ((k = n /\ l = q) \/ (k = q /\ l = n))
    BY <1>c DEF Connects
  <1>b. m.code = "BIND" /\ m.from = n
    BY <1>a
  <1>2. /\ inbox' \in [Conn -> [Node -> Seq(Notice)]]
        /\ \A d \in Conn, k \in Node : d # c \/ k # q => inbox'[d][k] = inbox[d][k]
        /\ \A code, from : Carries(inbox'[c][q], code, from) <=>
              Carries(inbox[c][q], code, from) \/ (m.code = code /\ m.from = from)
        /\ BindFirst(inbox[c][q]) => BindFirst(inbox'[c][q])
        /\ inbox[c][q] = <<>> /\ m.code = "BIND" => BindFirst(inbox'[c][q])
    <2>1. Tell(c, q, m) /\ ExchangeTypes
      BY <1>c DEF Wired, Connects
    <2> QED BY <2>1, TellAdds
  <1>3. inbox[c][q] = <<>> /\ inbox[c][a] = <<>> /\ inbox[c][p] = <<>>
    BY <1>1, UnmadeIsEmpty
  <1>4. /\ trigPc \in [Node -> {"idle", "lookup", "bind", "opened", "send", "bytes"}]
        /\ trigConn \in [Node -> Conn \cup {NoConn}]
    BY DEF Wired, ExchangeTypes
  <1>5. n # p
    BY <1>1
  <1>6. NothingElse(a, p)'
    <2>1. /\ ~Carries(inbox'[c][q], "SHUTDOWN", n)
          /\ \A l \in Node \ {n} : /\ ~Carries(inbox'[c][q], "SHUTDOWN", l)
                                   /\ ~Carries(inbox'[c][q], "BIND", l)
      BY <1>b, <1>2, <1>3, EmptyCarries
    <2>2. NothingElse(a, p)
      BY DEF First
    <2> SUFFICES ASSUME NEW d \in Conn
                 PROVE  /\ ~Carries(inbox'[d][a], "SHUTDOWN", p)
                        /\ ~Carries(inbox'[d][p], "SHUTDOWN", a)
                        /\ ~Carries(inbox'[d][a], "BIND", p)
      BY DEF NothingElse
    <2>3. inbox'[d][a] = inbox[d][a] \/ (d = c /\ a = q)
      BY <1>2
    <2>4. inbox'[d][p] = inbox[d][p] \/ (d = c /\ p = q)
      BY <1>2
    <2> QED BY <1>5, <2>1, <2>2, <2>3, <2>4 DEF NothingElse
  <1>7. PeerAnswers(a, p)'
    BY <1>1 DEF First, PeerAnswers
  <1>8. CASE n = a /\ q = p
    <2>1. remoteDevSocketIds[a][p] = NoConn /\ trigPeer[a] = p
      BY <1>a, <1>1, <1>8 DEF First, AskerKnows
    <2>2. \A d \in Conn : ~Links(d, a, p)
      BY <1>1, <1>8, <2>1, CapsSyncAssumption DEF First, OneSocket
    <2>3. trigPc'[a] = "opened" /\ trigPeer'[a] = p /\ trigConn'[a] = c
      BY <1>1, <1>4, <1>8, <2>1
    <2>4. \A d \in Conn : Links(d, a, p)' => d = c
      BY <1>1, <2>2
    <2>5. OneSocket(a, p)'
      BY <1>1, <2>3, <2>4 DEF OneSocket
    <2>6. PeerKnows(a, p)'
      BY <1>b, <1>2, <1>3, <1>8, <2>4 DEF PeerKnows
    <2>7. AskerKnows(a, p)'
      BY <1>1, <2>1, <2>3 DEF AskerKnows
    <2>8. RequestIsThere(a, p)'
      BY <1>1, <2>1 DEF First, RequestIsThere
    <2> QED BY <1>6, <1>7, <2>5, <2>6, <2>7, <2>8 DEF First
  <1>9. CASE ~(n = a /\ q = p)
    <2>1. \A d \in Conn : Links(d, a, p)' <=> Links(d, a, p)
      BY <1>1, <1>5, <1>9
    <2>2. \A d \in Conn : Links(d, a, p) => d # c
      BY <1>1
    <2>3. trigPc[a] = "opened" => /\ n # a /\ trigPc'[a] = trigPc[a] /\ trigConn'[a] = trigConn[a]
      BY <1>1, <1>4
    <2>4. OneSocket(a, p)'
      BY <1>1, <2>1, <2>2, <2>3 DEF First, OneSocket
    <2>5. PeerKnows(a, p)'
      BY <1>1, <1>2, <2>1, <2>2 DEF First, PeerKnows
    <2>6. AskerKnows(a, p)'
      <3>1. CASE n = a
        BY <1>a, <1>1, <1>4, <1>9, <3>1 DEF AskerKnows
      <3>2. CASE n # a
        BY <1>1, <1>4, <3>2 DEF First, AskerKnows
      <3> QED BY <3>1, <3>2
    <2>7. RequestIsThere(a, p)'
      <3>1. \A d \in Conn : /\ Carries(inbox[d][p], "REQ", a) => Carries(inbox'[d][p], "REQ", a)
                            /\ Carries(inbox[d][a], "RSP", p) => Carries(inbox'[d][a], "RSP", p)
        BY <1>2, <1>3, EmptyCarries
      <3>2. OnItsWay(a, p) => OnItsWay(a, p)'
        BY <1>1, <3>1 DEF OnItsWay
      <3> QED BY <1>1, <3>2 DEF First, RequestIsThere
    <2> QED BY <1>6, <1>7, <2>4, <2>5, <2>6, <2>7 DEF First
  <1> QED BY <1>8, <1>9

\* OnSocketOpened: the connection that was made is the one recorded.
LEMMA OpenedKeepsFirst ==
    ASSUME Wired, NEW a \in Node, NEW p \in Node \ Asker, a # p, First(a, p),
           NEW n \in Node, OnSocketOpened(n)
    PROVE  First(a, p)'
  <1>0. PICK q \in Node, c \in Conn : q = trigPeer[n] /\ c = trigConn[n]
    BY DEF OnSocketOpened, Wired, ExchangeTypes, AskersLink, Links
  <1>1. /\ trigPc[n] = "opened" /\ n \in Asker
        /\ remoteDevSocketIds' = [remoteDevSocketIds EXCEPT ![n][q] = c]
        /\ trigPc' = [trigPc EXCEPT ![n] = "send"]
        /\ UNCHANGED <<conn, inbox, serving, trigPeer, trigConn, events, handPc, handMsg, handConn,
                       asked, answers>>
    BY <1>0 DEF OnSocketOpened, SetSocket, TrigGoto, handVars, historyVars, Wired, AskersLink
  <1>2. /\ trigPc \in [Node -> {"idle", "lookup", "bind", "opened", "send", "bytes"}]
        /\ remoteDevSocketIds \in [Node -> [Node -> Conn \cup {NoConn}]]
    BY DEF Wired, ExchangeTypes
  <1>3. \A d, k, l : Links(d, k, l)' <=> Links(d, k, l)
    BY <1>1, LinksStay
  <1>4. /\ remoteDevSocketIds'[p][a] = remoteDevSocketIds[p][a]
        /\ remoteDevSocketIds'[a][p] = IF n = a /\ q = p THEN c ELSE remoteDevSocketIds[a][p]
        /\ trigPc'[a] = IF n = a THEN "send" ELSE trigPc[a]
    BY <1>1, <1>2
  <1>5. NothingElse(a, p)' /\ PeerKnows(a, p)' /\ PeerAnswers(a, p)'
    BY <1>1, <1>3, <1>4 DEF First, NothingElse, PeerKnows, PeerAnswers
  <1>6. AskerKnows(a, p)'
    BY <1>0, <1>1, <1>4 DEF First, AskerKnows
  <1>7. OneSocket(a, p)'
    <2>1. CASE n = a /\ q = p
      BY <1>0, <1>1, <1>3, <1>4, <2>1, CapsSyncAssumption DEF First, OneSocket, AskerKnows
    <2>2. CASE ~(n = a /\ q = p)
      BY <1>0, <1>1, <1>3, <1>4, <2>2 DEF First, OneSocket
    <2> QED BY <2>1, <2>2
  <1>8. RequestIsThere(a, p)'
    <2>1. OnItsWay(a, p)' <=> OnItsWay(a, p)
      BY <1>1 DEF OnItsWay
    <2> QED BY <1>1, <1>4, <2>1, CapsSyncAssumption DEF First, RequestIsThere
  <1> QED BY <1>5, <1>6, <1>7, <1>8 DEF First

\* A message sent leaves sockets alone, and what is on its way stays there.
LEMMA SendingKeepsPair ==
    ASSUME Wired, NEW a \in Node, NEW p \in Node, a # p, First(a, p),
           NEW n \in Node, NEW q \in Node, NEW c \in Conn \cup {NoConn},
           NEW m \in CommMsg, m.from = n, c # NoConn => Links(c, n, q),
           m.code = "REQ" => n \in Asker, m.code = "RSP" => q \in Asker,
           SendBytes(n, c, m), UNCHANGED <<conn, remoteDevSocketIds, trigPeer, trigConn>>,
           trigPc[a] = "opened" => trigPc'[a] = "opened"
    PROVE  /\ OneSocket(a, p)' /\ NothingElse(a, p)' /\ PeerKnows(a, p)'
           /\ \A d \in Conn, k \in Node :
                 \A code, from : Carries(inbox[d][k], code, from) => Carries(inbox'[d][k], code, from)
           /\ CanSend(c) => c \in Conn /\ Carries(inbox'[c][q], m.code, n)
  <1>1. \A d \in Conn, k \in Node :
           /\ \A code, from : Carries(inbox'[d][k], code, from) <=>
                 \/ Carries(inbox[d][k], code, from)
                 \/ CanSend(c) /\ d = c /\ k = q /\ m.code = code /\ m.from = from
           /\ BindFirst(inbox[d][k]) => BindFirst(inbox'[d][k])
    BY SendingAdds
  <1>2. \A d, k, l : Links(d, k, l)' <=> Links(d, k, l)
    BY LinksStay
  <1>3. m.code # "SHUTDOWN" /\ m.code # "BIND"
    BY MessageTypes
  <1>4. \A d \in Conn, k, l \in Node :
           /\ Carries(inbox'[d][k], "SHUTDOWN", l) => Carries(inbox[d][k], "SHUTDOWN", l)
           /\ Carries(inbox'[d][k], "BIND", l) => Carries(inbox[d][k], "BIND", l)
    BY <1>1, <1>3
  <1>5. Undisturbed(a, p)
    BY <1>1, <1>2, <1>4 DEF Undisturbed
  <1>6. OneSocket(a, p)' /\ NothingElse(a, p)' /\ PeerKnows(a, p)'
    BY <1>5, UndisturbedKeeps
  <1>7. CanSend(c) => c \in Conn /\ Carries(inbox'[c][q], m.code, n)
    BY <1>1 DEF CanSend
  <1>8. \A d \in Conn, k \in Node :
           \A code, from : Carries(inbox[d][k], code, from) => Carries(inbox'[d][k], code, from)
    BY <1>1
  <1> QED BY <1>6, <1>7, <1>8

\* A request is counted when it has been sent on an open connection.
LEMMA SendReqKeepsFirst ==
    ASSUME Wired, NEW a \in Node, NEW p \in Node \ Asker, a # p, First(a, p),
           NEW n \in Node, SendReqBytes(n)
    PROVE  First(a, p)'
  <1>0. ExchangeTypes /\ AskersLink
    BY DEF Wired
  <1>1. PICK m \in CommMsg : m = [code |-> "REQ", from |-> n, caps |-> {}]
    BY MessageTypes
  <1>2. PICK c \in Conn \cup {NoConn}, q \in Node : c = trigConn[n] /\ q = trigPeer[n]
    BY <1>0 DEF ExchangeTypes
  <1>3. /\ trigPc[n] = "bytes" /\ SendBytes(n, c, m)
        /\ asked' = IF CanSend(c) THEN [asked EXCEPT ![n][q] = @ + 1] ELSE asked
        /\ trigPc' = [trigPc EXCEPT ![n] = "idle"]
        /\ UNCHANGED <<conn, remoteDevSocketIds, serving, trigPeer, trigConn, events, handPc,
                       handMsg, handConn, answers>>
    BY <1>1, <1>2 DEF SendReqBytes, TrigGoto, handVars
  <1>4. n \in Asker /\ (c # NoConn => Links(c, n, q)) /\ m.from = n /\ m.code = "REQ"
    BY <1>0, <1>1, <1>2, <1>3 DEF AskersLink
  <1>5. trigPc'[a] = IF n = a THEN "idle" ELSE trigPc[a]
    BY <1>0, <1>3 DEF ExchangeTypes
  <1>6. /\ OneSocket(a, p)' /\ NothingElse(a, p)' /\ PeerKnows(a, p)'
        /\ \A d \in Conn, k \in Node :
              \A code, from : Carries(inbox[d][k], code, from) => Carries(inbox'[d][k], code, from)
        /\ CanSend(c) => c \in Conn /\ Carries(inbox'[c][q], m.code, n)
    <2>1. trigPc[a] = "opened" => trigPc'[a] = "opened"
      BY <1>3, <1>5
    <2>2. UNCHANGED <<conn, remoteDevSocketIds, trigPeer, trigConn>> /\ SendBytes(n, c, m)
      BY <1>3
    <2> QED BY <1>4, <2>1, <2>2, SendingKeepsPair
  <1>7. AskerKnows(a, p)' /\ PeerAnswers(a, p)'
    BY <1>3, <1>5 DEF First, AskerKnows, PeerAnswers
  <1>8. RequestIsThere(a, p)'
    <2>1. OnItsWay(a, p) => OnItsWay(a, p)'
      BY <1>3, <1>6 DEF OnItsWay
    <2>2. CASE n = a /\ q = p /\ CanSend(c)
      <3>1. c = remoteDevSocketIds[a][p] /\ c # NoConn
        BY <1>2, <1>3, <2>2 DEF First, AskerKnows, CanSend
      <3>2. c \in Conn /\ Carries(inbox'[c][p], "REQ", a)
        BY <1>4, <1>6, <2>2
      <3> QED BY <1>3, <3>1, <3>2 DEF RequestIsThere, OnItsWay
    <2>3. CASE ~(n = a /\ q = p /\ CanSend(c))
      <3>1. asked'[a][p] = asked[a][p]
        BY <1>0, <1>3, <2>3 DEF ExchangeTypes
      <3> QED BY <1>3, <2>1, <3>1 DEF First, RequestIsThere
    <2> QED BY <2>2, <2>3
  <1> QED BY <1>6, <1>7, <1>8 DEF First

\* The connection is open when the peer sends its answer.
LEMMA SendRspKeepsFirst ==
    ASSUME Wired, NEW a \in Node, NEW p \in Node \ Asker, a # p, First(a, p),
           NEW n \in Node, SendRspBytes(n)
    PROVE  First(a, p)'
  <1>0. ExchangeTypes /\ HandlersLink /\ SocketsLink
    BY DEF Wired
  <1>1. PICK m \in CommMsg : /\ m.from = n /\ m.code = "RSP"
                             /\ SendBytes(n, handConn[n], m)
    BY MessageTypes DEF SendRspBytes
  <1>2. PICK c \in Conn \cup {NoConn}, q \in Node : c = handConn[n] /\ q = handMsg[n].from
    BY <1>0 DEF ExchangeTypes, CommMsg
  <1>3. /\ handPc[n] = "bytes" /\ SendBytes(n, c, m)
        /\ handPc' = [handPc EXCEPT ![n] = "idle"]
        /\ UNCHANGED <<conn, remoteDevSocketIds, serving, trigPc, trigPeer, trigConn, events,
                       handMsg, handConn, asked, answers>>
    BY <1>1, <1>2 DEF SendRspBytes, HandGoto, trigVars, historyVars
  <1>4. q \in Asker /\ (c # NoConn => Links(c, n, q)) /\ m.from = n /\ m.code = "RSP"
    BY <1>0, <1>1, <1>2, <1>3 DEF HandlersLink
  <1>5. handPc'[p] = IF n = p THEN "idle" ELSE handPc[p]
    BY <1>0, <1>3 DEF ExchangeTypes
  <1>6. /\ OneSocket(a, p)' /\ NothingElse(a, p)' /\ PeerKnows(a, p)'
        /\ \A d \in Conn, k \in Node :
              \A code, from : Carries(inbox[d][k], code, from) => Carries(inbox'[d][k], code, from)
        /\ CanSend(c) => c \in Conn /\ Carries(inbox'[c][q], m.code, n)
    <2>1. trigPc[a] = "opened" => trigPc'[a] = "opened"
      BY <1>3
    <2>2. UNCHANGED <<conn, remoteDevSocketIds, trigPeer, trigConn>> /\ SendBytes(n, c, m)
      BY <1>3
    <2> QED BY <1>4, <2>1, <2>2, SendingKeepsPair
  <1>7. AskerKnows(a, p)' /\ PeerAnswers(a, p)'
    BY <1>3, <1>5 DEF First, AskerKnows, PeerAnswers
  <1>8. RequestIsThere(a, p)'
    <2>1. CASE n = p /\ q = a
      <3>1. c = remoteDevSocketIds[p][a] /\ c # NoConn
        BY <1>2, <1>3, <2>1 DEF First, PeerAnswers
      <3>2. c \in Conn /\ Links(c, a, p)
        BY <1>4, <2>1, <3>1 DEF Links
      <3>3. CanSend(c)
        BY <3>1, <3>2 DEF First, OneSocket, CanSend
      <3>4. Carries(inbox'[c][a], "RSP", p)
        BY <1>4, <1>6, <2>1, <3>3
      <3> QED BY <1>3, <3>2, <3>4 DEF First, RequestIsThere, OnItsWay
    <2>2. CASE ~(n = p /\ q = a)
      <3>1. OnItsWay(a, p) => OnItsWay(a, p)'
        BY <1>2, <1>3, <1>5, <1>6, <2>2 DEF OnItsWay
      <3> QED BY <1>3, <3>1 DEF First, RequestIsThere
    <2> QED BY <2>1, <2>2
  <1> QED BY <1>6, <1>7, <1>8 DEF First

\* What any callback of the softbus leaves alone, and what is left to hear.
LEMMA ReceivingTakes ==
    ASSUME Wired, NEW c \in Conn, NEW n \in Node, SoftbusCallback(c, n)
    PROVE  \E m \in Notice :
              /\ m = Head(inbox[c][n]) /\ m.from \in Node /\ Carries(inbox[c][n], m.code, m.from)
              /\ Takes(c, n, m)
              /\ UNCHANGED <<conn, trigPc, trigPeer, trigConn, handPc, handMsg, handConn,
                             asked, answers>>
              /\ \A d, k, l : Links(d, k, l)' <=> Links(d, k, l)
  <1>1. /\ inbox[c][n] # <<>> /\ inbox' = [inbox EXCEPT ![c][n] = Tail(@)]
        /\ UNCHANGED <<conn, serving, trigPc, trigPeer, trigConn, handPc, handMsg, handConn,
                       asked, answers>>
    BY DEF SoftbusCallback, OnBind, OnBytesReceived, OnSocketClosed, Receive, trigVars, handVars,
           historyVars
  <1>a. UNCHANGED conn
    BY <1>1
  <1>2. PICK m \in Notice : m = Head(inbox[c][n])
    BY <1>1, TakingKeepsNotices
  <1>3. Takes(c, n, m)
    BY <1>1, <1>2, TakingKeepsNotices
  <1>4. Carries(inbox[c][n], m.code, m.from) /\ m.from \in Node
    BY <1>3, MessageTypes DEF Takes
  <1>5. \A d, k, l : Links(d, k, l)' <=> Links(d, k, l)
    BY <1>a, LinksStay
  <1> QED BY <1>1, <1>2, <1>3, <1>4, <1>5

\* OnBind: only the peer hears of a new connection, and it is the only one.
LEMMA OnBindKeepsFirst ==
    ASSUME Wired, NEW a \in Node, NEW p \in Node \ Asker, a # p, First(a, p),
           NEW c \in Conn, NEW n \in Node, OnBind(c, n)
    PROVE  First(a, p)'
  <1>a. PICK m \in Notice :
           /\ m = Head(inbox[c][n]) /\ m.from \in Node /\ Carries(inbox[c][n], m.code, m.from)
           /\ Takes(c, n, m)
           /\ UNCHANGED <<conn, trigPc, trigPeer, trigConn, handPc, handMsg, handConn,
                          asked, answers>>
           /\ \A d, k, l : Links(d, k, l)' <=> Links(d, k, l)
    BY ReceivingTakes DEF SoftbusCallback
  <1>0. /\ m = Head(inbox[c][n]) /\ m.from \in Node /\ Carries(inbox[c][n], m.code, m.from)
        /\ Links(c, n, m.from)
        /\ m.code = "REQ" => m.from \in Asker
        /\ m.code = "RSP" => n \in Asker
        /\ \A d \in Conn, k \in Node :
              /\ d # c \/ k # n => inbox'[d][k] = inbox[d][k]
              /\ \A code, from : Carries(inbox[d][k], code, from) <=>
                    \/ Carries(inbox'[d][k], code, from)
                    \/ d = c /\ k = n /\ m.code = code /\ m.from = from
        /\ UNCHANGED <<conn, trigPc, trigPeer, trigConn, handPc, handMsg, handConn,
                       asked, answers>>
        /\ \A d, k, l : Links(d, k, l)' <=> Links(d, k, l)
    BY <1>a DEF Takes
  <1>1. /\ m.code = "BIND" /\ remoteDevSocketIds' = [remoteDevSocketIds EXCEPT ![n][m.from] = c]
        /\ UNCHANGED events
    BY <1>0 DEF OnBind, Receive, SetSocket
  <1>2. ~(n = a /\ m.from = p)
    BY <1>0, <1>1 DEF First, NothingElse
  <1>3. /\ remoteDevSocketIds'[a][p] = remoteDevSocketIds[a][p]
        /\ remoteDevSocketIds'[p][a] = IF n = p /\ m.from = a THEN c ELSE remoteDevSocketIds[p][a]
    BY <1>0, <1>1, <1>2 DEF Wired, ExchangeTypes
  <1>4. OneSocket(a, p)'
    BY <1>0, <1>3 DEF First, OneSocket
  <1>5. NothingElse(a, p)'
    BY <1>0 DEF First, NothingElse
  <1>6. AskerKnows(a, p)'
    BY <1>0, <1>3 DEF First, AskerKnows
  <1>7. OnItsWay(a, p) => OnItsWay(a, p)'
    <2>1. \A d \in Conn : /\ Carries(inbox[d][p], "REQ", a) => Carries(inbox'[d][p], "REQ", a)
                          /\ Carries(inbox[d][a], "RSP", p) => Carries(inbox'[d][a], "RSP", p)
      BY <1>0, <1>1
    <2> QED BY <1>0, <1>1, <2>1 DEF OnItsWay
  <1>8. RequestIsThere(a, p)'
    BY <1>0, <1>3, <1>7 DEF First, RequestIsThere
  <1>9. CASE n = p /\ m.from = a
    <2>1. Links(c, a, p)
      BY <1>0, <1>9 DEF Links
    <2>2. \A d \in Conn : Links(d, a, p) => d = c
      BY <2>1, SoleSocket
    <2>3. PeerKnows(a, p)'
      BY <1>0, <1>3, <1>9, <2>2 DEF PeerKnows
    <2>4. remoteDevSocketIds[p][a] # NoConn => remoteDevSocketIds[p][a] = c
      <3>1. remoteDevSocketIds[p][a] # NoConn => /\ remoteDevSocketIds[p][a] \in Conn
                                                 /\ Links(remoteDevSocketIds[p][a], a, p)
        BY DEF Wired, SocketsLink, Links
      <3> QED BY <2>2, <3>1
    <2>5. PeerAnswers(a, p)'
      BY <1>0, <1>1, <1>3, <1>9, <2>4, CapsSyncAssumption DEF First, PeerAnswers
    <2> QED BY <1>4, <1>5, <1>6, <1>8, <2>3, <2>5 DEF First
  <1>10. CASE ~(n = p /\ m.from = a)
    <2>1. PeerAnswers(a, p)'
      BY <1>0, <1>1, <1>3, <1>10 DEF First, PeerAnswers
    <2>2. PeerKnows(a, p)'
      <3>1. \A d \in Conn : Links(d, a, p) => inbox'[d][p] = inbox[d][p]
        BY <1>0, <1>2, <1>10, LinksPair
      <3> QED BY <1>0, <1>3, <1>10, <3>1 DEF First, PeerKnows
    <2> QED BY <1>4, <1>5, <1>6, <1>8, <2>1, <2>2 DEF First
  <1> QED BY <1>9, <1>10

\* OnBytesReceived: the peer hears a request on the socket it has in its map, and
\* so does the asker with the answer, if it has a socket at all.
LEMMA OnBytesKeepsFirst ==
    ASSUME Wired, NEW a \in Node, NEW p \in Node \ Asker, a # p, First(a, p),
           NEW c \in Conn, NEW n \in Node, OnBytesReceived(c, n)
    PROVE  First(a, p)'
  <1>a. PICK m \in Notice :
           /\ m = Head(inbox[c][n]) /\ m.from \in Node /\ Carries(inbox[c][n], m.code, m.from)
           /\ Takes(c, n, m)
           /\ UNCHANGED <<conn, trigPc, trigPeer, trigConn, handPc, handMsg, handConn,
                          asked, answers>>
           /\ \A d, k, l : Links(d, k, l)' <=> Links(d, k, l)
    BY ReceivingTakes DEF SoftbusCallback
  <1>0. /\ m = Head(inbox[c][n]) /\ m.from \in Node /\ Carries(inbox[c][n], m.code, m.from)
        /\ Links(c, n, m.from)
        /\ m.code = "REQ" => m.from \in Asker
        /\ m.code = "RSP" => n \in Asker
        /\ \A d \in Conn, k \in Node :
              /\ d # c \/ k # n => inbox'[d][k] = inbox[d][k]
              /\ \A code, from : Carries(inbox[d][k], code, from) <=>
                    \/ Carries(inbox'[d][k], code, from)
                    \/ d = c /\ k = n /\ m.code = code /\ m.from = from
        /\ UNCHANGED <<conn, trigPc, trigPeer, trigConn, handPc, handMsg, handConn,
                       asked, answers>>
        /\ \A d, k, l : Links(d, k, l)' <=> Links(d, k, l)
    BY <1>a DEF Takes
  <1>1. /\ m.code \in {"REQ", "RSP"} /\ m \in CommMsg
        /\ UNCHANGED remoteDevSocketIds
        /\ events' = IF \E q \in Node : remoteDevSocketIds[n][q] = c
                     THEN [events EXCEPT ![n] = Append(@, m)] ELSE events
    BY <1>0, MessageTypes DEF OnBytesReceived, Receive
  <1>2. /\ events[n] \in Seq(CommMsg)
        /\ \A k \in Node \ {n} : events'[k] = events[k]
        /\ events'[n] = IF \E q \in Node : remoteDevSocketIds[n][q] = c
                        THEN Append(events[n], m) ELSE events[n]
    BY <1>1 DEF Wired, ExchangeTypes
  <1>3. \A code, from : Carries(Append(events[n], m), code, from) <=>
           Carries(events[n], code, from) \/ (m.code = code /\ m.from = from)
    BY <1>1, <1>2, CarriesAppend
  <1>4. \A code, from :
           /\ Carries(events[n], code, from) => Carries(events'[n], code, from)
           /\ Carries(events'[n], code, from) =>
                 \/ Carries(events[n], code, from)
                 \/ m.code = code /\ m.from = from /\ \E q \in Node : remoteDevSocketIds[n][q] = c
           /\ (\E q \in Node : remoteDevSocketIds[n][q] = c) => Carries(events'[n], m.code, m.from)
    BY <1>2, <1>3
  <1>5. OneSocket(a, p)' /\ AskerKnows(a, p)'
    BY <1>0, <1>1 DEF First, OneSocket, AskerKnows
  <1>6. NothingElse(a, p)'
    BY <1>0 DEF First, NothingElse
  <1>7. PeerKnows(a, p)'
    <2> SUFFICES ASSUME NEW d \in Conn, Links(d, a, p)
                 PROVE  remoteDevSocketIds[p][a] = d \/ BindFirst(inbox'[d][p])
      BY <1>0, <1>1 DEF PeerKnows
    <2>1. CASE d = c /\ n = p
      BY <1>0, <1>1, <2>1 DEF First, PeerKnows, BindFirst
    <2>2. CASE ~(d = c /\ n = p)
      BY <1>0, <2>2 DEF First, PeerKnows
    <2> QED BY <2>1, <2>2
  <1>8. n = p /\ m.from = a => remoteDevSocketIds[p][a] = c
    <2>1. n = p /\ m.from = a => Links(c, a, p) /\ ~BindFirst(inbox[c][p])
      BY <1>0, <1>1 DEF Links, BindFirst
    <2> QED BY <2>1 DEF First, PeerKnows
  <1>9. PeerAnswers(a, p)'
    <2>1. Carries(events'[p], "REQ", a) => remoteDevSocketIds[p][a] # NoConn
      <3>1. CASE n = p /\ m.from = a
        BY <1>8, <3>1, CapsSyncAssumption
      <3>2. CASE ~(n = p /\ m.from = a)
        BY <1>2, <1>4, <3>2 DEF First, PeerAnswers
      <3> QED BY <3>1, <3>2
    <2> QED BY <1>0, <1>1, <2>1 DEF First, PeerAnswers
  <1>10. RequestIsThere(a, p)'
    <2> SUFFICES ASSUME asked[a][p] > 0
                 PROVE  remoteDevSocketIds[a][p] # NoConn /\ OnItsWay(a, p)'
      BY <1>0, <1>1 DEF RequestIsThere
    <2>1. remoteDevSocketIds[a][p] # NoConn /\ OnItsWay(a, p)
      BY DEF First, RequestIsThere
    <2>2. CASE n = p /\ m.from = a
      <3>1. m.code = "REQ"
        BY <1>0, <1>1, <2>2
      <3>2. Carries(events'[p], "REQ", a)
        BY <1>4, <1>8, <2>2, <3>1
      <3> QED BY <2>1, <3>2 DEF OnItsWay
    <2>3. CASE n = a /\ m.from = p
      <3>1. m.code = "RSP"
        BY <1>0, <1>1, <2>3
      <3>2. c = remoteDevSocketIds[a][p]
        BY <1>0, <2>1, <2>3 DEF First, OneSocket, AskerKnows
      <3>3. Carries(events'[a], "RSP", p)
        BY <1>4, <2>3, <3>1, <3>2
      <3> QED BY <2>1, <3>3 DEF OnItsWay
    <2>4. CASE ~(n = p /\ m.from = a) /\ ~(n = a /\ m.from = p)
      <3>1. \A d \in Conn : /\ Carries(inbox[d][p], "REQ", a) => Carries(inbox'[d][p], "REQ", a)
                            /\ Carries(inbox[d][a], "RSP", p) => Carries(inbox'[d][a], "RSP", p)
        BY <1>0, <2>4
      <3>2. /\ Carries(events[p], "REQ", a) => Carries(events'[p], "REQ", a)
            /\ Carries(events[a], "RSP", p) => Carries(events'[a], "RSP", p)
        BY <1>2, <1>4
      <3> QED BY <1>0, <2>1, <3>1, <3>2 DEF OnItsWay
    <2> QED BY <2>2, <2>3, <2>4
  <1> QED BY <1>5, <1>6, <1>7, <1>9, <1>10 DEF First

\* OnSocketClosed: neither of the two hears of an end of their connection.
LEMMA OnClosedKeepsFirst ==
    ASSUME Wired, NEW a \in Node, NEW p \in Node \ Asker, a # p, First(a, p),
           NEW c \in Conn, NEW n \in Node, OnSocketClosed(c, n)
    PROVE  First(a, p)'
  <1>a. PICK m \in Notice :
           /\ m = Head(inbox[c][n]) /\ m.from \in Node /\ Carries(inbox[c][n], m.code, m.from)
           /\ Takes(c, n, m)
           /\ UNCHANGED <<conn, trigPc, trigPeer, trigConn, handPc, handMsg, handConn,
                          asked, answers>>
           /\ \A d, k, l : Links(d, k, l)' <=> Links(d, k, l)
    BY ReceivingTakes DEF SoftbusCallback
  <1>0. /\ m = Head(inbox[c][n]) /\ m.from \in Node /\ Carries(inbox[c][n], m.code, m.from)
        /\ Links(c, n, m.from)
        /\ m.code = "REQ" => m.from \in Asker
        /\ m.code = "RSP" => n \in Asker
        /\ \A d \in Conn, k \in Node :
              /\ d # c \/ k # n => inbox'[d][k] = inbox[d][k]
              /\ \A code, from : Carries(inbox[d][k], code, from) <=>
                    \/ Carries(inbox'[d][k], code, from)
                    \/ d = c /\ k = n /\ m.code = code /\ m.from = from
        /\ UNCHANGED <<conn, trigPc, trigPeer, trigConn, handPc, handMsg, handConn,
                       asked, answers>>
        /\ \A d, k, l : Links(d, k, l)' <=> Links(d, k, l)
    BY <1>a DEF Takes
  <1>1. /\ m.code = "SHUTDOWN"
        /\ remoteDevSocketIds' =
              [remoteDevSocketIds EXCEPT
                  ![n] = [q \in Node |-> IF @[q] = c THEN NoConn ELSE @[q]]]
        /\ UNCHANGED events
    BY <1>0 DEF OnSocketClosed, Receive
  <1>2. ~(n = a /\ m.from = p) /\ ~(n = p /\ m.from = a)
    BY <1>0, <1>1 DEF First, NothingElse
  <1>3. ~Links(c, a, p) /\ ~Links(c, p, a)
    BY <1>0, <1>2 DEF Links
  <1>4. remoteDevSocketIds[a][p] # c /\ remoteDevSocketIds[p][a] # c
    BY <1>3, CapsSyncAssumption DEF Wired, SocketsLink
  <1>5. /\ remoteDevSocketIds'[a][p] = remoteDevSocketIds[a][p]
        /\ remoteDevSocketIds'[p][a] = remoteDevSocketIds[p][a]
    BY <1>1, <1>4 DEF Wired, ExchangeTypes
  <1>6. \A d \in Conn : Links(d, a, p) => inbox'[d][p] = inbox[d][p]
    BY <1>0, <1>3
  <1>7. Undisturbed(a, p)
    BY <1>0, <1>5, <1>6 DEF Undisturbed
  <1>8. OneSocket(a, p)' /\ NothingElse(a, p)' /\ PeerKnows(a, p)'
    BY <1>7, UndisturbedKeeps
  <1>9. AskerKnows(a, p)' /\ PeerAnswers(a, p)'
    BY <1>0, <1>1, <1>5 DEF First, AskerKnows, PeerAnswers
  <1>10. \A d \in Conn : /\ Carries(inbox[d][p], "REQ", a) => Carries(inbox'[d][p], "REQ", a)
                         /\ Carries(inbox[d][a], "RSP", p) => Carries(inbox'[d][a], "RSP", p)
    BY <1>0, <1>1
  <1>11. RequestIsThere(a, p)'
    BY <1>0, <1>1, <1>5, <1>10 DEF First, RequestIsThere, OnItsWay
  <1> QED BY <1>8, <1>9, <1>11 DEF First

\* Steps of a handler that close no connection of the two: sockets and notices of
\* the two stay, and so does what the asker's thread knows.
LEMMA HandlerKeepsSockets ==
    ASSUME NEW a \in Node, NEW p \in Node, First(a, p),
           UNCHANGED <<conn, inbox, remoteDevSocketIds, trigPc, trigPeer, trigConn>>
    PROVE  /\ OneSocket(a, p)' /\ NothingElse(a, p)' /\ PeerKnows(a, p)' /\ AskerKnows(a, p)'
  <1>1. \A d, k, l : Links(d, k, l)' <=> Links(d, k, l)
    BY LinksStay
  <1> QED BY <1>1 DEF First, OneSocket, NothingElse, PeerKnows, AskerKnows

\* A request taken up finds the asker's socket in the map of the peer.
LEMMA GettingKeepsFirst ==
    ASSUME Wired, NEW a \in Node, NEW p \in Node \ Asker, a # p, First(a, p),
           NEW n \in Node, GetAndSendLocalFullCaps(n) \/ ParseAndSaveRemoteDHCaps(n),
           answers'[a][p] = 0
    PROVE  First(a, p)'
  <1>0. ExchangeTypes /\ EventsAsked
    BY DEF Wired
  <1>1. /\ handPc[n] = "idle" /\ events[n] # <<>>
        /\ events' = [events EXCEPT ![n] = Tail(events[n])]
        /\ handMsg' = [handMsg EXCEPT ![n] = Head(events[n])]
        /\ UNCHANGED <<conn, inbox, remoteDevSocketIds, trigPc, trigPeer, trigConn, asked>>
    BY DEF GetAndSendLocalFullCaps, ParseAndSaveRemoteDHCaps, NextEvent, connVars, trigVars,
           historyVars
  <1>2. events[n] \in Seq(CommMsg)
    BY <1>0 DEF ExchangeTypes
  <1>3. PICK m \in CommMsg : m = Head(events[n])
    BY <1>1, <1>2, CarriesTail
  <1>4. /\ \A k \in Node \ {n} : events'[k] = events[k] /\ handMsg'[k] = handMsg[k]
        /\ events'[n] = Tail(events[n]) /\ handMsg'[n] = m
    BY <1>0, <1>1, <1>3 DEF ExchangeTypes
  <1>5. \A code, from : Carries(events[n], code, from) <=>
           Carries(events'[n], code, from) \/ (m.code = code /\ m.from = from)
    BY <1>1, <1>2, <1>3, <1>4, CarriesTail
  <1>6. m.from \in Node /\ Carries(events[n], m.code, m.from)
    BY <1>5, MessageTypes
  <1>7. \A k \in Node : \A code, from : Carries(events'[k], code, from) => Carries(events[k], code, from)
    BY <1>4, <1>5
  <1>8. OneSocket(a, p)' /\ NothingElse(a, p)' /\ PeerKnows(a, p)' /\ AskerKnows(a, p)'
    BY <1>1, HandlerKeepsSockets
  <1>9. CASE GetAndSendLocalFullCaps(n)
    <2>1. /\ m.code = "REQ"
          /\ handPc' = [handPc EXCEPT ![n] = "bytes"]
          /\ handConn' = [handConn EXCEPT ![n] = remoteDevSocketIds[n][m.from]]
      BY <1>3, <1>9 DEF GetAndSendLocalFullCaps, NextEvent, HandGoto
    <2>2. /\ handPc'[n] = "bytes" /\ handConn'[n] = remoteDevSocketIds[n][m.from]
          /\ \A k \in Node \ {n} : handPc'[k] = handPc[k] /\ handConn'[k] = handConn[k]
      BY <1>0, <2>1 DEF ExchangeTypes
    <2>3. n = p /\ m.from = a => remoteDevSocketIds[p][a] # NoConn
      BY <1>6, <2>1 DEF First, PeerAnswers
    <2>4. PeerAnswers(a, p)'
      BY <1>1, <1>4, <1>7, <2>2, <2>3 DEF First, PeerAnswers
    <2>5. OnItsWay(a, p) => OnItsWay(a, p)'
      <3>1. CASE n = p /\ m.from = a
        BY <1>4, <2>2, <3>1 DEF OnItsWay
      <3>2. CASE ~(n = p /\ m.from = a)
        <4>1. /\ Carries(events[p], "REQ", a) => Carries(events'[p], "REQ", a)
              /\ Carries(events[a], "RSP", p) => Carries(events'[a], "RSP", p)
          BY <1>4, <1>5, <2>1, <3>2
        <4>2. handPc[p] = "bytes" /\ handMsg[p].from = a =>
                 handPc'[p] = "bytes" /\ handMsg'[p].from = a
          BY <1>1, <1>4, <2>2
        <4> QED BY <1>1, <4>1, <4>2 DEF OnItsWay
      <3> QED BY <3>1, <3>2
    <2> QED BY <1>1, <1>8, <2>4, <2>5 DEF First, RequestIsThere
  <1>10. CASE ParseAndSaveRemoteDHCaps(n)
    <2>1. /\ m.code = "RSP"
          /\ handPc' = [handPc EXCEPT ![n] = IF m.caps = {} THEN "idle" ELSE "stop"]
          /\ answers' = [answers EXCEPT ![n][m.from] = @ + 1]
          /\ UNCHANGED handConn
      BY <1>3, <1>10 DEF ParseAndSaveRemoteDHCaps, NextEvent, HandGoto
    <2>2. n # p
      BY <1>0, <1>6, <2>1 DEF EventsAsked
    <2>3. ~(n = a /\ m.from = p)
      <3>1. answers \in [Node -> [Node -> Nat]]
        BY <1>0 DEF ExchangeTypes
      <3>2. n = a /\ m.from = p => answers'[a][p] = answers[a][p] + 1 /\ answers[a][p] \in Nat
        BY <2>1, <3>1
      <3> QED BY <3>2
    <2>4. handPc'[p] = handPc[p] /\ events'[p] = events[p] /\ handMsg'[p] = handMsg[p]
      BY <1>0, <1>4, <2>1, <2>2 DEF ExchangeTypes
    <2>5. PeerAnswers(a, p)'
      BY <1>1, <2>1, <2>4 DEF First, PeerAnswers
    <2>6. OnItsWay(a, p) => OnItsWay(a, p)'
      <3>1. Carries(events[a], "RSP", p) => Carries(events'[a], "RSP", p)
        BY <1>4, <1>5, <2>3
      <3> QED BY <1>1, <2>4, <3>1 DEF OnItsWay
    <2> QED BY <1>1, <1>8, <2>5, <2>6 DEF First, RequestIsThere
  <1> QED BY <1>9, <1>10

\* An answer in hand is another's: its connection is not one of the two.
LEMMA StoppingKeepsFirst ==
    ASSUME Wired, NEW a \in Node, NEW p \in Node \ Asker, a # p, First(a, p), answers[a][p] = 0,
           NEW n \in Node,
           StopSocket(n) \/ ShutdownSocket(n) \/ ClearDeviceSocketOpened(n)
    PROVE  First(a, p)'
  <1>0. ExchangeTypes /\ HandlersLink
    BY DEF Wired
  <1>1. /\ handPc[n] \in {"stop", "shutdown", "erase"}
        /\ UNCHANGED <<serving, trigPc, trigPeer, trigConn, events, handMsg, asked, answers>>
    BY DEF StopSocket, ShutdownSocket, ClearDeviceSocketOpened, trigVars, historyVars
  <1>2. PICK q \in Node : q = handMsg[n].from
    BY <1>0 DEF ExchangeTypes, CommMsg
  <1>3. n \in Asker /\ answers[n][q] > 0 /\ (handPc[n] = "shutdown" => Links(handConn[n], n, q))
    BY <1>0, <1>1, <1>2 DEF HandlersLink
  <1>4. n # p /\ ~(n = a /\ q = p)
    BY <1>3
  <1>5. CASE StopSocket(n)
    <2>1. /\ \E x : handConn' = [handConn EXCEPT ![n] = x]
          /\ \E x : handPc' = [handPc EXCEPT ![n] = x]
          /\ UNCHANGED <<conn, inbox, remoteDevSocketIds>>
      BY <1>5 DEF StopSocket, HandGoto, connVars
    <2>2. handPc'[p] = handPc[p] /\ handConn'[p] = handConn[p]
      BY <1>0, <1>4, <2>1 DEF ExchangeTypes
    <2>3. OneSocket(a, p)' /\ NothingElse(a, p)' /\ PeerKnows(a, p)' /\ AskerKnows(a, p)'
      BY <1>1, <2>1, HandlerKeepsSockets
    <2>4. PeerAnswers(a, p)' /\ RequestIsThere(a, p)'
      BY <1>1, <2>1, <2>2 DEF First, PeerAnswers, RequestIsThere, OnItsWay
    <2> QED BY <2>3, <2>4 DEF First
  <1>6. CASE ShutdownSocket(n)
    <2>1. PICK c \in Conn : c = handConn[n] /\ Links(c, n, q)
      BY <1>3, <1>6 DEF ShutdownSocket, Links
    <2>a. PICK m \in Notice : m = [code |-> "SHUTDOWN", from |-> n, caps |-> {}]
      BY MessageTypes
    <2>b. m.code = "SHUTDOWN" /\ m.from = n
      BY <2>a
    <2>2. /\ Shutdown(n, {c})
          /\ handPc' = [handPc EXCEPT ![n] = "erase"]
          /\ UNCHANGED <<remoteDevSocketIds, handConn>>
      BY <1>6, <2>1 DEF ShutdownSocket, HandGoto
    <2>c. Disconnects(c, q, m)
      <3>1. PICK C : C = {c}
        OBVIOUS
      <3>2. ExchangeTypes /\ Links(c, n, q) /\ Shutdown(n, C)
        BY <1>0, <2>1, <2>2, <3>1
      <3> QED BY <2>a, <3>1, <3>2, ShutdownTells
    <2>3. /\ \A d \in Conn : d # c => conn'[d] = conn[d] /\ inbox'[d] = inbox[d]
          /\ \A d, k, l : Links(d, k, l)' <=> Links(d, k, l)
          /\ \A k \in Node : \A code, from : Carries(inbox'[c][k], code, from) =>
                Carries(inbox[c][k], code, from) \/ (k = q /\ m.code = code /\ m.from = from)
      BY <2>c DEF Disconnects
    <2>4. ~Links(c, a, p) /\ ~Links(c, p, a)
      BY <1>4, <2>1 DEF Links
    <2>5. \A d \in Conn : Links(d, a, p) => conn'[d] = conn[d] /\ inbox'[d] = inbox[d]
      BY <2>3, <2>4
    <2>6. \A code \in Code : ~Carries(inbox[c][a], code, p) /\ ~Carries(inbox[c][p], code, a)
      BY <2>4 DEF Wired, NoticesLink
    <2>7. \A d \in Conn :
             /\ Carries(inbox'[d][a], "SHUTDOWN", p) => Carries(inbox[d][a], "SHUTDOWN", p)
             /\ Carries(inbox'[d][p], "SHUTDOWN", a) => Carries(inbox[d][p], "SHUTDOWN", a)
             /\ Carries(inbox'[d][a], "BIND", p) => Carries(inbox[d][a], "BIND", p)
      <3> SUFFICES ASSUME NEW d \in Conn
                   PROVE  /\ Carries(inbox'[d][a], "SHUTDOWN", p) => Carries(inbox[d][a], "SHUTDOWN", p)
                          /\ Carries(inbox'[d][p], "SHUTDOWN", a) => Carries(inbox[d][p], "SHUTDOWN", a)
                          /\ Carries(inbox'[d][a], "BIND", p) => Carries(inbox[d][a], "BIND", p)
        OBVIOUS
      <3>1. CASE d = c
        BY <1>4, <2>b, <2>3, <2>1, <3>1 DEF Links
      <3>2. CASE d # c
        BY <2>3, <3>2
      <3> QED BY <3>1, <3>2
    <2>8. Undisturbed(a, p)
      BY <1>1, <2>2, <2>3, <2>5, <2>7 DEF Undisturbed
    <2>9. OneSocket(a, p)' /\ NothingElse(a, p)' /\ PeerKnows(a, p)'
      BY <2>8, UndisturbedKeeps
    <2>10. handPc'[p] = handPc[p]
      BY <1>0, <1>4, <2>2 DEF ExchangeTypes
    <2>11. AskerKnows(a, p)' /\ PeerAnswers(a, p)'
      BY <1>1, <2>2, <2>10 DEF First, AskerKnows, PeerAnswers
    <2>12. \A d \in Conn : /\ Carries(inbox[d][p], "REQ", a) => Carries(inbox'[d][p], "REQ", a)
                           /\ Carries(inbox[d][a], "RSP", p) => Carries(inbox'[d][a], "RSP", p)
      BY <2>3, <2>6 DEF Code
    <2>13. RequestIsThere(a, p)'
      BY <1>1, <2>2, <2>10, <2>12 DEF First, RequestIsThere, OnItsWay
    <2> QED BY <2>9, <2>11, <2>13 DEF First
  <1>7. CASE ClearDeviceSocketOpened(n)
    <2>1. /\ remoteDevSocketIds' = [remoteDevSocketIds EXCEPT ![n][q] = NoConn]
          /\ handPc' = [handPc EXCEPT ![n] = "uuid"]
          /\ UNCHANGED <<conn, inbox, handConn>>
      BY <1>2, <1>7 DEF ClearDeviceSocketOpened, SetSocket, HandGoto
    <2>2. /\ remoteDevSocketIds'[a][p] = remoteDevSocketIds[a][p]
          /\ remoteDevSocketIds'[p][a] = remoteDevSocketIds[p][a]
          /\ handPc'[p] = handPc[p]
      BY <1>0, <1>4, <2>1 DEF ExchangeTypes
    <2>3. \A d, k, l : Links(d, k, l)' <=> Links(d, k, l)
      BY <2>1, LinksStay
    <2>4. Undisturbed(a, p)
      BY <1>1, <2>1, <2>2, <2>3 DEF Undisturbed
    <2>5. OneSocket(a, p)' /\ NothingElse(a, p)' /\ PeerKnows(a, p)'
      BY <2>4, UndisturbedKeeps
    <2>6. AskerKnows(a, p)' /\ PeerAnswers(a, p)' /\ RequestIsThere(a, p)'
      BY <1>1, <2>1, <2>2 DEF First, AskerKnows, PeerAnswers, RequestIsThere, OnItsWay
    <2> QED BY <2>5, <2>6 DEF First
  <1> QED BY <1>5, <1>6, <1>7

\* The peer handles no answer, and gives up none of its own.
LEMMA RefreshingKeepsFirst ==
    ASSUME Wired, NEW a \in Node, NEW p \in Node \ Asker, First(a, p), NEW n \in Node,
           Refreshing(n), p \notin unsent'
    PROVE  First(a, p)'
  <1>1. /\ UNCHANGED <<conn, inbox, trigPc, trigPeer, trigConn, asked, remoteDevSocketIds, events,
                       handMsg, handConn, answers>>
        /\ handPc[n] \in {"bytes", "uuid", "query", "push", "save"}
        /\ handPc[n] = "bytes" => n \in unsent'
        /\ \A k \in Node \ {n} : handPc'[k] = handPc[k]
    BY RefreshingIsQuiet DEF HandlingVars
  <1>2. n # p
    BY <1>1 DEF Wired, HandlersLink
  <1>3. OneSocket(a, p)' /\ NothingElse(a, p)' /\ PeerKnows(a, p)' /\ AskerKnows(a, p)'
    BY <1>1, HandlerKeepsSockets
  <1>4. PeerAnswers(a, p)' /\ RequestIsThere(a, p)'
    BY <1>1, <1>2 DEF First, PeerAnswers, RequestIsThere, OnItsWay
  <1> QED BY <1>3, <1>4 DEF First

\* A step that is not about the exchange.
LEMMA OtherStepsKeepFirst ==
    ASSUME NEW a \in Node, NEW p \in Node, First(a, p), UNCHANGED wireVars
    PROVE  First(a, p)'
  <1>1. OneSocket(a, p)' /\ NothingElse(a, p)' /\ PeerKnows(a, p)' /\ AskerKnows(a, p)'
    BY HandlerKeepsSockets DEF wireVars
  <1>2. PeerAnswers(a, p)' /\ RequestIsThere(a, p)'
    BY DEF wireVars, First, PeerAnswers, RequestIsThere, OnItsWay
  <1> QED BY <1>1, <1>2 DEF First

-----------------------------------------------------------------------------
(* The invariant *)

\* A request is counted for the thread that sent it, which had another for a peer.
AskedByAskers == \A n, p \in Node : asked[n][p] > 0 => n \in Asker /\ p # n

AnsweredInv ==
    /\ restarts \in Nat
    /\ restarts = 0 =>
          /\ Wired /\ AskedByAskers
          /\ \A a \in Node, p \in Node \ (Asker \cup unsent) :
                a # p /\ answers[a][p] = 0 => First(a, p)

\* A step that matters to sockets and messages, while no device releases its
\* transport.
WireStep ==
    \/ \E n \in Node : AskerMoves(n)
    \/ \E n \in Node : Bind(n) \/ OnSocketOpened(n) \/ SendReqBytes(n)
    \/ \E c \in Conn, n \in Node : SoftbusCallback(c, n)
    \/ \E n \in Node : GetAndSendLocalFullCaps(n) \/ ParseAndSaveRemoteDHCaps(n)
    \/ \E n \in Node : SendRspBytes(n)
    \/ \E n \in Node : StopSocket(n) \/ ShutdownSocket(n) \/ ClearDeviceSocketOpened(n)
    \/ \E n \in Node : Refreshing(n)
    \/ UNCHANGED wireVars

\* A release is ruled out, and with it the initialisation after it.
LEMMA NextIsWireStep ==
    ASSUME Wired, restarts \in Nat, restarts' = 0, [Next]_vars
    PROVE  WireStep
  <1>1. ASSUME NEW n \in Node, StartRequest(n) PROVE WireStep
    <2>1. CASE IsDeviceSessionOpened(n) \/ BindFail(n) \/ SendReq(n) \/ SendReqFail(n)
      BY <2>1, AskerStepMoves DEF Wired, WireStep
    <2>2. CASE Bind(n) \/ OnSocketOpened(n) \/ SendReqBytes(n)
      BY <2>2 DEF WireStep
    <2> QED BY <1>1, <2>1, <2>2 DEF StartRequest
  <1>2. ASSUME NEW n \in Node, ProcessEvent(n) PROVE WireStep
    BY <1>2 DEF ProcessEvent, WireStep, Refreshing
  <1>3. ASSUME NEW n \in Node, UnInit(n) PROVE WireStep
    BY <1>3 DEF UnInit
  <1>4. ASSUME NEW n \in Node, Init_(n) PROVE WireStep
    BY <1>4 DEF Init_, Wired, ExchangeTypes
  <1>5. ASSUME NEW n \in Node, NEW p \in Node, TriggerReqFullDHCaps(n, p) PROVE WireStep
    BY <1>5, AskerStepMoves DEF Wired, WireStep
  <1>6. ASSUME NEW c \in Conn, NEW n \in Node, SoftbusCallback(c, n) PROVE WireStep
    BY <1>6 DEF WireStep
  <1>7. ASSUME NEW n \in Node, NEW k \in Key,
               \/ \E state \in BusinessState \ {"UNKNOWN"} : UpdateBusinessState(n, k, state)
               \/ FetchNeedRefreshTask(n, k)
        PROVE WireStep
    <2>1. UNCHANGED wireVars
      BY <1>7 DEF UpdateBusinessState, FetchNeedRefreshTask, wireVars, connVars, trigVars, handVars,
                  historyVars
    <2> QED BY <2>1 DEF WireStep
  <1>8. CASE UNCHANGED vars
    BY <1>8 DEF WireStep, vars, wireVars, connVars, trigVars, handVars, historyVars
  <1> QED BY <1>1, <1>2, <1>3, <1>4, <1>5, <1>6, <1>7, <1>8 DEF Next

\* Every step keeps the devices wired.
LEMMA StepKeepsWired == Wired /\ WireStep => Wired'
  BY AskingKeepsWired, BindKeepsWired, OpenedKeepsWired, SendReqKeepsWired, ReceivingKeepsWired,
     GettingKeepsWired, SendRspKeepsWired, StoppingKeepsWired, RefreshingKeepsWired,
     OtherStepsKeepWired
     DEF WireStep

\* Answers are only added, and requests are counted for askers.
LEMMA StepCounts ==
    ASSUME Wired, AskedByAskers, WireStep
    PROVE  /\ \A a, p \in Node : answers'[a][p] = 0 => answers[a][p] = 0
           /\ AskedByAskers'
  <1>0. answers \in [Node -> [Node -> Nat]] /\ asked \in [Node -> [Node -> Nat]]
    BY DEF Wired, ExchangeTypes
  <1>1. \/ UNCHANGED <<answers, asked>>
        \/ \E n \in Node : ParseAndSaveRemoteDHCaps(n)
        \/ \E n \in Node : SendReqBytes(n)
    BY RefreshingIsQuiet
       DEF WireStep, AskerMoves, Bind, OnSocketOpened, SoftbusCallback, OnBind, OnBytesReceived,
           OnSocketClosed, Receive, GetAndSendLocalFullCaps, SendRspBytes, StopSocket,
           ShutdownSocket, ClearDeviceSocketOpened, HandlingVars, wireVars, historyVars
  <1>2. CASE UNCHANGED <<answers, asked>>
    BY <1>2 DEF AskedByAskers
  <1>3. ASSUME NEW n \in Node, ParseAndSaveRemoteDHCaps(n)
        PROVE  /\ \A a, p \in Node : answers'[a][p] = 0 => answers[a][p] = 0
               /\ AskedByAskers'
    <2>1. PICK q : answers' = [answers EXCEPT ![n][q] = @ + 1]
      BY <1>3 DEF ParseAndSaveRemoteDHCaps
    <2>2. \A a, p \in Node : answers'[a][p] \in {answers[a][p], answers[a][p] + 1}
      BY <1>0, <2>1
    <2>3. \A a, p \in Node : answers[a][p] \in Nat
      BY <1>0
    <2> QED BY <1>3, <2>2, <2>3 DEF ParseAndSaveRemoteDHCaps, AskedByAskers
  <1>4. ASSUME NEW n \in Node, SendReqBytes(n)
        PROVE  /\ \A a, p \in Node : answers'[a][p] = 0 => answers[a][p] = 0
               /\ AskedByAskers'
    <2>1. PICK q \in Node : q = trigPeer[n]
      BY DEF Wired, ExchangeTypes
    <2>2. n \in Asker /\ q # n
      BY <1>4, <2>1 DEF SendReqBytes, Wired, AskersLink
    <2>3. asked' = asked \/ asked' = [asked EXCEPT ![n][q] = @ + 1]
      BY <1>4, <2>1 DEF SendReqBytes
    <2>4. \A a, p \in Node : asked'[a][p] = asked[a][p] \/ (a = n /\ p = q)
      BY <1>0, <2>3
    <2> QED BY <1>4, <2>2, <2>4 DEF SendReqBytes, AskedByAskers
  <1> QED BY <1>1, <1>2, <1>3, <1>4

\* Every step but the first answer itself keeps what holds before it.
LEMMA StepKeepsFirst ==
    ASSUME Wired, NEW a \in Node, NEW p \in Node \ Asker, a # p, First(a, p), WireStep,
           answers[a][p] = 0, answers'[a][p] = 0, p \notin unsent'
    PROVE  First(a, p)'
  BY AskingKeepsFirst, BindKeepsFirst, OpenedKeepsFirst, SendReqKeepsFirst, OnBindKeepsFirst,
     OnBytesKeepsFirst, OnClosedKeepsFirst, GettingKeepsFirst, SendRspKeepsFirst,
     StoppingKeepsFirst, RefreshingKeepsFirst, OtherStepsKeepFirst
     DEF WireStep, SoftbusCallback

\* The invariant is inductive.
LEMMA NextKeepsAnswered == AnsweredInv /\ [Next]_vars => AnsweredInv'
  <1> SUFFICES ASSUME AnsweredInv, [Next]_vars PROVE AnsweredInv'
    OBVIOUS
  <1>1. restarts' \in Nat /\ (restarts' = 0 => restarts = 0) /\ unsent \subseteq unsent'
    <2>0. restarts \in Nat
      BY DEF AnsweredInv
    <2>1. /\ UNCHANGED restarts \/ restarts' = restarts + 1
          /\ UNCHANGED unsent \/ \E n \in Node : unsent' = unsent \cup {n}
      BY DEF Next, vars, boundVars, historyVars, StartRequest, IsDeviceSessionOpened, Bind,
             BindFail, OnSocketOpened, SendReq, SendReqBytes, SendReqFail, ProcessEvent,
             GetAndSendLocalFullCaps, SendRspBytes, SendRspFail, ParseAndSaveRemoteDHCaps,
             StopSocket, ShutdownSocket, ClearDeviceSocketOpened, GetUUIDByNetworkId,
             QueryBusinessState, RefreshNow, SaveNeedRefreshTask, FinishRsp, UnInit, Init_,
             TriggerReqFullDHCaps, SoftbusCallback, OnBind, OnBytesReceived, OnSocketClosed,
             Receive, UpdateBusinessState, FetchNeedRefreshTask
    <2> QED BY <2>0, <2>1
  <1>2. ASSUME restarts' = 0
        PROVE  /\ Wired' /\ AskedByAskers'
               /\ \A a \in Node, p \in Node \ (Asker \cup unsent') :
                     a # p /\ answers'[a][p] = 0 => First(a, p)'
    <2>1. /\ Wired /\ AskedByAskers /\ restarts \in Nat
          /\ \A a \in Node, p \in Node \ (Asker \cup unsent) :
                a # p /\ answers[a][p] = 0 => First(a, p)
      BY <1>1, <1>2 DEF AnsweredInv
    <2>2. WireStep
      BY <1>2, <2>1, NextIsWireStep
    <2>3. Wired' /\ AskedByAskers' /\ \A a, p \in Node : answers'[a][p] = 0 => answers[a][p] = 0
      BY <2>1, <2>2, StepKeepsWired, StepCounts
    <2> QED BY <1>1, <2>1, <2>2, <2>3, StepKeepsFirst
  <1> QED BY <1>1, <1>2 DEF AnsweredInv

\* Nothing is connected, asked or sent at first.
LEMMA AnsweredStarts == Init => AnsweredInv
  <1> SUFFICES ASSUME Init PROVE AnsweredInv
    OBVIOUS
  <1>0. PICK some \in Node :
           /\ conn = [c \in Conn |-> [state |-> "free", from |-> some, to |-> some]]
           /\ handMsg = [n \in Node |-> [code |-> "REQ", from |-> some, caps |-> {}]]
    BY DEF Init
  <1>1. ExchangeTypes
    BY <1>0, MessageTypes DEF Init, ExchangeTypes
  <1>2. \A c, n, q : ~Links(c, n, q)
    BY <1>0 DEF Links
  <1>3. /\ \A c \in Conn, n \in Node : inbox[c][n] = <<>>
        /\ \A n \in Node : trigPc[n] = "idle" /\ handPc[n] = "idle" /\ events[n] = <<>>
        /\ \A n, q \in Node : remoteDevSocketIds[n][q] = NoConn /\ asked[n][q] = 0
    BY DEF Init
  <1>4. Wired
    BY <1>1, <1>3, EmptyCarries
       DEF Wired, SocketsLink, NoticesLink, EventsAsked, AskersLink, HandlersLink
  <1>5. ASSUME NEW a \in Node, NEW p \in Node PROVE First(a, p)
    BY <1>2, <1>3, EmptyCarries
       DEF First, OneSocket, NothingElse, PeerKnows, AskerKnows, PeerAnswers, RequestIsThere
  <1>6. restarts \in Nat /\ AskedByAskers
    BY <1>3 DEF Init, AskedByAskers
  <1> QED BY <1>4, <1>5, <1>6 DEF AnsweredInv

\* A device that asks no one itself and could send its answers has answered: whoever
\* asked it has its answer when everything has come to rest, for any number of
\* devices, connections and requests, whatever requests, lookups and saves fail and
\* in whatever order the softbus calls back.
THEOREM QuietPeersAnswer ==
    Spec => [](Quiet /\ restarts = 0 =>
                  \A n \in Node, p \in Node \ (Asker \cup unsent) :
                      asked[n][p] > 0 => answers[n][p] > 0)
  <1>1. AnsweredInv => (Quiet /\ restarts = 0 =>
            \A n \in Node, p \in Node \ (Asker \cup unsent) :
                asked[n][p] > 0 => answers[n][p] > 0)
    <2> SUFFICES ASSUME AnsweredInv, Quiet, restarts = 0,
                        NEW n \in Node, NEW p \in Node \ (Asker \cup unsent),
                        asked[n][p] > 0, ~(answers[n][p] > 0)
                 PROVE  FALSE
      OBVIOUS
    <2>1. answers[n][p] = 0 /\ n # p
      <3>1. answers[n][p] \in Nat
        BY DEF AnsweredInv, Wired, ExchangeTypes
      <3> QED BY <3>1 DEF AnsweredInv, AskedByAskers
    <2>2. OnItsWay(n, p)
      BY <2>1 DEF AnsweredInv, First, RequestIsThere
    <2> QED BY <2>2, EmptyCarries DEF Quiet, OnItsWay
  <1> QED BY <1>1, AnsweredStarts, NextKeepsAnswered, PTL DEF Spec
=============================================================================
