------------------------------ MODULE CapsSync ------------------------------
(***************************************************************************)
(* The full capability exchange: DHTransport's sockets, DHCommTool's two   *)
(* messages, and the refresh of hardware by its business state in          *)
(* ComponentManager.                                                       *)
(*                                                                         *)
(* A device asks a peer for all its capabilities. It opens a socket unless *)
(* one is open, sends REQ_FULL_CAPS, and closes the socket when the answer *)
(* arrives. The hardware listed in the answer is enabled again, at once if *)
(* it is not in use and otherwise when it becomes idle.                    *)
(*                                                                         *)
(* Each node has a thread that starts requests (the event handler of       *)
(* ComponentManager), a thread that handles messages (the event handler of *)
(* DHCommTool), the callbacks of the softbus and those of the components.  *)
(* Every call of a function with its own mutex is one step.                *)
(***************************************************************************)
EXTENDS Naturals, Sequences, FiniteSets

CONSTANTS Node,          \* devices
          DhId,          \* ids of distributed hardware
          Conn,          \* connections the softbus can make (a bound of the model)
          NoConn,        \* no socket
          Asker,         \* the nodes whose components trigger a request
          MayFail,       \* the softbus, the store and the lookups of the peer may fail
          MaxTriggers,   \* bound: requests started
          MaxOutside     \* bound: business states reported, and UnInit of DHCommTool

ASSUME CapsSyncAssumption ==
    /\ Node # {} /\ DhId # {} /\ NoConn \notin Conn
    /\ Asker \subseteq Node
    /\ MayFail \in BOOLEAN
    /\ MaxTriggers \in Nat /\ MaxOutside \in Nat

VARIABLES conn,                \* the softbus: state and ends of each connection
          inbox,               \* what the softbus will tell a node about a connection
          remoteDevSocketIds,  \* DHTransport::remoteDevSocketIds_ of each node
          serving,             \* DHTransport::isSocketSvrCreateFlag_
          trigPc, trigPeer, trigConn,  \* the thread that starts a request
          events,              \* messages posted to DHCommToolEventHandler
          handPc, handMsg, handConn, handDh, handTodo,  \* the thread that handles them
          localCaps,           \* LocalCapabilityInfoManager::globalCapInfoMap_
          dhBizStates,         \* ComponentManager::dhBizStates_
          needRefresh,         \* keys of ComponentManager::needRefreshTaskParams_
          fetching,            \* UpdateBusinessState(IDLE) between its two locks
          pushes,              \* ENABLE tasks pushed for a hardware of a peer
          asked, answers,      \* requests sent, and answers that arrived
          unsent,              \* the nodes that failed to send an answer
          triggers, states, restarts   \* uses of the bounds

connVars == <<conn, inbox, remoteDevSocketIds>>
trigVars == <<trigPc, trigPeer, trigConn>>
handVars == <<handPc, handMsg, handConn, handDh, handTodo>>
bizVars == <<dhBizStates, needRefresh, fetching, pushes>>
historyVars == <<asked, answers, unsent>>
boundVars == <<triggers, states, restarts>>
vars == <<connVars, serving, trigVars, events, handVars, localCaps, bizVars, historyVars,
          boundVars>>

-----------------------------------------------------------------------------
(* Types *)

\* A hardware of a peer, as a node knows it.
Key == Node \X DhId

BusinessState == {"UNKNOWN", "IDLE", "RUNNING", "PAUSING"}

\* A request names who asks, an answer who answers and what it has.
CommMsg == [code : {"REQ", "RSP"}, from : Node, caps : SUBSET DhId]

\* What the softbus reports: a connection, a message, the end of a connection.
Notice == CommMsg \cup [code : {"BIND", "SHUTDOWN"}, from : Node, caps : {{}}]

TypeOK ==
    /\ conn \in [Conn -> [state : {"free", "open", "closed"}, from : Node, to : Node]]
    /\ inbox \in [Conn -> [Node -> Seq(Notice)]]
    /\ remoteDevSocketIds \in [Node -> [Node -> Conn \cup {NoConn}]]
    /\ serving \in [Node -> BOOLEAN]
    /\ trigPc \in [Node -> {"idle", "lookup", "bind", "opened", "send", "bytes"}]
    /\ trigPeer \in [Node -> Node]
    /\ trigConn \in [Node -> Conn \cup {NoConn}]
    /\ events \in [Node -> Seq(CommMsg)]
    /\ handPc \in [Node -> {"idle", "bytes", "stop", "shutdown", "erase", "uuid", "query",
                            "push", "save"}]
    /\ handMsg \in [Node -> CommMsg]
    /\ handConn \in [Node -> Conn \cup {NoConn}]
    /\ handDh \in [Node -> DhId]
    /\ handTodo \in [Node -> SUBSET DhId]
    /\ localCaps \in [Node -> SUBSET Key]
    /\ dhBizStates \in [Node -> [Key -> BusinessState]]
    /\ needRefresh \in [Node -> SUBSET Key]
    /\ fetching \in [Node -> SUBSET Key]
    /\ pushes \in [Node -> [Key -> Nat]]
    /\ asked \in [Node -> [Node -> Nat]]
    /\ answers \in [Node -> [Node -> Nat]]
    /\ unsent \in SUBSET Node
    /\ triggers \in 0 .. MaxTriggers
    /\ states \in 0 .. MaxOutside
    /\ restarts \in 0 .. MaxOutside

-----------------------------------------------------------------------------
(* The softbus (external) *)

Other(c, n) == IF conn[c].from = n THEN conn[c].to ELSE conn[c].from

Tell(c, n, notice) == inbox' = [inbox EXCEPT ![c][n] = Append(@, notice)]

\* Shutdown of a socket: the peer is told, this node hears nothing any more.
Shutdown(n, cs) ==
    /\ conn' = [c \in Conn |-> IF c \in cs THEN [conn[c] EXCEPT !.state = "closed"]
                               ELSE conn[c]]
    /\ inbox' = [c \in Conn |->
                    IF c \notin cs THEN inbox[c]
                    ELSE [m \in Node |->
                            IF m = n THEN <<>>
                            ELSE IF m = Other(c, n) /\ conn[c].state = "open"
                            THEN Append(inbox[c][m],
                                        [code |-> "SHUTDOWN", from |-> n, caps |-> {}])
                            ELSE inbox[c][m]]]

\* SendBytes, at the end of DHTransport::Send, on the socket that Send found in
\* the map. A socket that was shut down refuses it.
CanSend(c) == c # NoConn /\ conn[c].state = "open"

SendBytes(n, c, msg) ==
    IF CanSend(c) THEN Tell(c, Other(c, n), msg) ELSE UNCHANGED inbox

SetSocket(n, p, c) == remoteDevSocketIds' = [remoteDevSocketIds EXCEPT ![n][p] = c]

-----------------------------------------------------------------------------
(* The thread that starts requests *)

TrigGoto(n, step) == trigPc' = [trigPc EXCEPT ![n] = step]

\* DHCommTool::TriggerReqFullDHCaps, called for EVENT_DATA_SYNC_MANUAL.
TriggerReqFullDHCaps(n, p) ==
    /\ n \in Asker /\ p # n
    /\ trigPc[n] = "idle"
    /\ triggers < MaxTriggers
    /\ triggers' = triggers + 1
    /\ trigPeer' = [trigPeer EXCEPT ![n] = p]
    /\ TrigGoto(n, "lookup")
    /\ UNCHANGED <<connVars, serving, trigConn, events, handVars, localCaps, bizVars,
                   historyVars, states, restarts>>

\* StartSocket: a socket to the peer that is open is used again.
IsDeviceSessionOpened(n) ==
    /\ trigPc[n] = "lookup"
    /\ TrigGoto(n, IF remoteDevSocketIds[n][trigPeer[n]] = NoConn THEN "bind" ELSE "send")
    /\ UNCHANGED <<connVars, serving, trigPeer, trigConn, events, handVars, localCaps,
                   bizVars, historyVars, boundVars>>

\* CreateClientSocket and Bind: the peer's OnBind will be called.
Bind(n) ==
    /\ trigPc[n] = "bind"
    /\ serving[trigPeer[n]]
    /\ \E c \in Conn :
          /\ conn[c].state = "free"
          /\ conn' = [conn EXCEPT ![c] = [state |-> "open", from |-> n, to |-> trigPeer[n]]]
          /\ Tell(c, trigPeer[n], [code |-> "BIND", from |-> n, caps |-> {}])
          /\ trigConn' = [trigConn EXCEPT ![n] = c]
    /\ TrigGoto(n, "opened")
    /\ UNCHANGED <<remoteDevSocketIds, serving, trigPeer, events, handVars, localCaps,
                   bizVars, historyVars, boundVars>>

\* Bind failed: the socket is shut down and the request given up.
BindFail(n) ==
    /\ trigPc[n] = "bind"
    /\ MayFail \/ ~serving[trigPeer[n]]
    /\ TrigGoto(n, "idle")
    /\ UNCHANGED <<connVars, serving, trigPeer, trigConn, events, handVars, localCaps,
                   bizVars, historyVars, boundVars>>

\* The OnSocketOpened at the end of StartSocket.
OnSocketOpened(n) ==
    /\ trigPc[n] = "opened"
    /\ SetSocket(n, trigPeer[n], trigConn[n])
    /\ TrigGoto(n, "send")
    /\ UNCHANGED <<conn, inbox, serving, trigPeer, trigConn, events, handVars, localCaps,
                   bizVars, historyVars, boundVars>>

\* The Send of TriggerReqFullDHCaps: the lookup, then SendBytes.
SendReq(n) ==
    /\ trigPc[n] = "send"
    /\ trigConn' = [trigConn EXCEPT ![n] = remoteDevSocketIds[n][trigPeer[n]]]
    /\ TrigGoto(n, "bytes")
    /\ UNCHANGED <<connVars, serving, trigPeer, events, handVars, localCaps, bizVars,
                   historyVars, boundVars>>

SendReqBytes(n) ==
    /\ trigPc[n] = "bytes"
    /\ SendBytes(n, trigConn[n], [code |-> "REQ", from |-> n, caps |-> {}])
    /\ asked' = IF CanSend(trigConn[n]) THEN [asked EXCEPT ![n][trigPeer[n]] = @ + 1] ELSE asked
    /\ TrigGoto(n, "idle")
    /\ UNCHANGED <<conn, remoteDevSocketIds, serving, trigPeer, trigConn, events, handVars,
                   localCaps, bizVars, answers, unsent, boundVars>>

\* Send failed on an open socket, which stays open: TriggerReqFullDHCaps only logs it.
SendReqFail(n) ==
    /\ trigPc[n] = "bytes"
    /\ MayFail
    /\ TrigGoto(n, "idle")
    /\ UNCHANGED <<connVars, serving, trigPeer, trigConn, events, handVars, localCaps,
                   bizVars, historyVars, boundVars>>

StartRequest(n) ==
    \/ IsDeviceSessionOpened(n) \/ Bind(n) \/ BindFail(n) \/ OnSocketOpened(n)
    \/ SendReq(n) \/ SendReqBytes(n) \/ SendReqFail(n)

-----------------------------------------------------------------------------
(* The callbacks of the softbus *)

Receive(c, n, code) ==
    /\ inbox[c][n] # <<>>
    /\ Head(inbox[c][n]).code = code
    /\ inbox' = [inbox EXCEPT ![c][n] = Tail(@)]
    /\ UNCHANGED <<conn, serving, trigVars, handVars, localCaps, bizVars, historyVars,
                   boundVars>>

\* OnBind: the new socket replaces the one the peer had in the map.
OnBind(c, n) ==
    /\ Receive(c, n, "BIND")
    /\ SetSocket(n, Head(inbox[c][n]).from, c)
    /\ UNCHANGED events

\* OnBytesReceived: a message on a socket that is not in the map is dropped.
OnBytesReceived(c, n) ==
    /\ \E code \in {"REQ", "RSP"} : Receive(c, n, code)
    /\ events' = IF \E p \in Node : remoteDevSocketIds[n][p] = c
                 THEN [events EXCEPT ![n] = Append(@, Head(inbox[c][n]))]
                 ELSE events
    /\ UNCHANGED remoteDevSocketIds

OnSocketClosed(c, n) ==
    /\ Receive(c, n, "SHUTDOWN")
    /\ remoteDevSocketIds' =
          [remoteDevSocketIds EXCEPT ![n] = [p \in Node |-> IF @[p] = c THEN NoConn ELSE @[p]]]
    /\ UNCHANGED events

SoftbusCallback(c, n) == OnBind(c, n) \/ OnBytesReceived(c, n) \/ OnSocketClosed(c, n)

-----------------------------------------------------------------------------
(* The thread that handles messages: DHCommToolEventHandler::ProcessEvent *)

HandGoto(n, step) == handPc' = [handPc EXCEPT ![n] = step]

\* Seeded fault: the message handled stays in the queue.
NextEventKept(n, code) ==
    /\ handPc[n] = "idle"
    /\ events[n] # <<>>
    /\ Head(events[n]).code = code
    /\ UNCHANGED events

NextEvent(n, code) ==
    /\ handPc[n] = "idle"
    /\ events[n] # <<>>
    /\ Head(events[n]).code = code
    /\ events' = [events EXCEPT ![n] = Tail(@)]

\* GetAndSendLocalFullCaps: the lookup of the asker's socket, then SendBytes.
GetAndSendLocalFullCaps(n) ==
    /\ NextEvent(n, "REQ")
    /\ handMsg' = [handMsg EXCEPT ![n] = Head(events[n])]
    /\ handConn' = [handConn EXCEPT ![n] = remoteDevSocketIds[n][Head(events[n]).from]]
    /\ HandGoto(n, "bytes")
    /\ UNCHANGED <<connVars, serving, trigVars, handDh, handTodo, localCaps, bizVars,
                   historyVars, boundVars>>

\* The answer names what the device has at that moment, possibly nothing.
SendRspBytes(n) ==
    /\ handPc[n] = "bytes"
    /\ \E caps \in SUBSET DhId :
          SendBytes(n, handConn[n], [code |-> "RSP", from |-> n, caps |-> caps])
    /\ HandGoto(n, "idle")
    /\ UNCHANGED <<conn, remoteDevSocketIds, serving, trigVars, events, handMsg, handConn,
                   handDh, handTodo, localCaps, bizVars, historyVars, boundVars>>

\* The answer could not be put together, or Send failed on an open socket: it is
\* given up, and nobody sends it again.
SendRspFail(n) ==
    /\ handPc[n] = "bytes"
    /\ MayFail
    /\ unsent' = unsent \cup {n}
    /\ HandGoto(n, "idle")
    /\ UNCHANGED <<connVars, serving, trigVars, events, handMsg, handConn, handDh, handTodo,
                   localCaps, bizVars, asked, answers, boundVars>>

\* ParseAndSaveRemoteDHCaps, and the first check of ProcessFullCapsRsp: an
\* answer without capabilities ends here. One that AddCapability refuses to save
\* is processed all the same.
ParseAndSaveRemoteDHCaps(n) ==
    LET msg == Head(events[n]) IN
    /\ NextEvent(n, "RSP")
    /\ \/ localCaps' = [localCaps EXCEPT ![n] = @ \cup ({msg.from} \X msg.caps)]
       \/ MayFail /\ UNCHANGED localCaps
    /\ answers' = [answers EXCEPT ![n][msg.from] = @ + 1]
    /\ handMsg' = [handMsg EXCEPT ![n] = msg]
    /\ HandGoto(n, IF msg.caps = {} THEN "idle" ELSE "stop")
    /\ UNCHANGED <<connVars, serving, trigVars, handConn, handDh, handTodo, bizVars, asked,
                   unsent, boundVars>>

\* StopSocket finds the socket of the peer, shuts it down, erases the peer.
StopSocket(n) ==
    LET c == remoteDevSocketIds[n][handMsg[n].from] IN
    /\ handPc[n] = "stop"
    /\ handConn' = [handConn EXCEPT ![n] = c]
    /\ HandGoto(n, IF c = NoConn THEN "uuid" ELSE "shutdown")
    /\ UNCHANGED <<connVars, serving, trigVars, events, handMsg, handDh, handTodo,
                   localCaps, bizVars, historyVars, boundVars>>

ShutdownSocket(n) ==
    /\ handPc[n] = "shutdown"
    /\ Shutdown(n, {handConn[n]})
    /\ HandGoto(n, "erase")
    /\ UNCHANGED <<remoteDevSocketIds, serving, trigVars, events, handMsg, handConn, handDh,
                   handTodo, localCaps, bizVars, historyVars, boundVars>>

ClearDeviceSocketOpened(n) ==
    /\ handPc[n] = "erase"
    /\ SetSocket(n, handMsg[n].from, NoConn)
    /\ HandGoto(n, "uuid")
    /\ UNCHANGED <<conn, inbox, serving, trigVars, events, handMsg, handConn, handDh,
                   handTodo, localCaps, bizVars, historyVars, boundVars>>

\* The uuid of the peer, which is unknown once the peer is offline.
GetUUIDByNetworkId(n) ==
    /\ handPc[n] = "uuid"
    /\ \/ handTodo' = [handTodo EXCEPT ![n] = handMsg[n].caps] /\ HandGoto(n, "query")
       \/ MayFail /\ HandGoto(n, "idle") /\ UNCHANGED handTodo
    /\ UNCHANGED <<connVars, serving, trigVars, events, handMsg, handConn, handDh,
                   localCaps, bizVars, historyVars, boundVars>>

Busy(state) == state \in {"RUNNING", "PAUSING"}

\* The loop of ProcessFullCapsRsp: QueryBusinessState of one hardware.
QueryBusinessState(n, h) ==
    /\ handPc[n] = "query"
    /\ h \in handTodo[n]
    /\ handTodo' = [handTodo EXCEPT ![n] = @ \ {h}]
    /\ handDh' = [handDh EXCEPT ![n] = h]
    /\ HandGoto(n, IF Busy(dhBizStates[n][<<handMsg[n].from, h>>]) THEN "save" ELSE "push")
    /\ UNCHANGED <<connVars, serving, trigVars, events, handMsg, handConn, localCaps,
                   bizVars, historyVars, boundVars>>

HandKey(n) == <<handMsg[n].from, handDh[n]>>

PushEnable(n, k) == pushes' = [pushes EXCEPT ![n][k] = @ + 1]

\* A hardware that is not in use is enabled again at once.
RefreshNow(n) ==
    /\ handPc[n] = "push"
    /\ PushEnable(n, HandKey(n))
    /\ HandGoto(n, "query")
    /\ UNCHANGED <<connVars, serving, trigVars, events, handMsg, handConn, handDh, handTodo,
                   localCaps, dhBizStates, needRefresh, fetching, historyVars, boundVars>>

SaveNeedRefreshTask(n) ==
    /\ handPc[n] = "save"
    /\ needRefresh' = [needRefresh EXCEPT ![n] = @ \cup {HandKey(n)}]
    /\ HandGoto(n, "query")
    /\ UNCHANGED <<connVars, serving, trigVars, events, handMsg, handConn, handDh, handTodo,
                   localCaps, dhBizStates, fetching, pushes, historyVars, boundVars>>

FinishRsp(n) ==
    /\ handPc[n] = "query"
    /\ handTodo[n] = {}
    /\ HandGoto(n, "idle")
    /\ UNCHANGED <<connVars, serving, trigVars, events, handMsg, handConn, handDh, handTodo,
                   localCaps, bizVars, historyVars, boundVars>>

ProcessEvent(n) ==
    \/ GetAndSendLocalFullCaps(n)
    \/ SendRspBytes(n)
    \/ SendRspFail(n)
    \/ ParseAndSaveRemoteDHCaps(n)
    \/ StopSocket(n)
    \/ ShutdownSocket(n)
    \/ ClearDeviceSocketOpened(n)
    \/ GetUUIDByNetworkId(n)
    \/ \E h \in DhId : QueryBusinessState(n, h)
    \/ RefreshNow(n)
    \/ SaveNeedRefreshTask(n)
    \/ FinishRsp(n)

-----------------------------------------------------------------------------
(* The callbacks of the components *)

\* UpdateBusinessState: the state is stored; IDLE goes on to look for a refresh.
UpdateBusinessState(n, k, state) ==
    /\ k[1] # n
    /\ k \notin fetching[n]
    /\ states + restarts < MaxOutside
    /\ states' = states + 1
    /\ dhBizStates' = [dhBizStates EXCEPT ![n][k] = state]
    /\ fetching' = IF state = "IDLE" THEN [fetching EXCEPT ![n] = @ \cup {k}] ELSE fetching
    /\ UNCHANGED <<connVars, serving, trigVars, events, handVars, localCaps, needRefresh,
                   pushes, historyVars, triggers, restarts>>

\* Seeded fault: the saved refresh is not erased when it is used.
FetchNeedRefreshTaskKept(n, k) ==
    /\ k \in fetching[n]
    /\ fetching' = [fetching EXCEPT ![n] = @ \ {k}]
    /\ IF k \in needRefresh[n] THEN PushEnable(n, k) ELSE UNCHANGED pushes
    /\ UNCHANGED <<connVars, serving, trigVars, events, handVars, localCaps, dhBizStates,
                   needRefresh, historyVars, boundVars>>

\* FetchNeedRefreshTask: a refresh saved for the hardware is used and erased.
FetchNeedRefreshTask(n, k) ==
    /\ k \in fetching[n]
    /\ fetching' = [fetching EXCEPT ![n] = @ \ {k}]
    /\ IF k \in needRefresh[n]
       THEN /\ needRefresh' = [needRefresh EXCEPT ![n] = @ \ {k}]
            /\ PushEnable(n, k)
       ELSE UNCHANGED <<needRefresh, pushes>>
    /\ UNCHANGED <<connVars, serving, trigVars, events, handVars, localCaps, dhBizStates,
                   historyVars, boundVars>>

-----------------------------------------------------------------------------
(* DHCommTool::UnInit and Init, when the framework is released and loaded *)

\* Every socket of the map is shut down, then the server socket.
UnInit(n) ==
    /\ serving[n]
    /\ states + restarts < MaxOutside
    /\ restarts' = restarts + 1
    /\ Shutdown(n, {remoteDevSocketIds[n][p] : p \in Node} \ {NoConn})
    /\ remoteDevSocketIds' = [remoteDevSocketIds EXCEPT ![n] = [p \in Node |-> NoConn]]
    /\ serving' = [serving EXCEPT ![n] = FALSE]
    /\ UNCHANGED <<trigVars, events, handVars, localCaps, bizVars, historyVars, triggers,
                   states>>

\* A new DHTransport with an empty map, and a new event handler. Both threads are
\* between two calls: a DHTransport replaced under a caller is destroyed under it.
Init_(n) ==
    /\ ~serving[n]
    /\ trigPc[n] = "idle" /\ handPc[n] = "idle"
    /\ serving' = [serving EXCEPT ![n] = TRUE]
    /\ remoteDevSocketIds' = [remoteDevSocketIds EXCEPT ![n] = [p \in Node |-> NoConn]]
    /\ events' = [events EXCEPT ![n] = <<>>]
    /\ UNCHANGED <<conn, inbox, trigVars, handVars, localCaps, bizVars, historyVars,
                   boundVars>>

-----------------------------------------------------------------------------
(* Specification *)

Init ==
    /\ \E some \in Node :
          /\ conn = [c \in Conn |-> [state |-> "free", from |-> some, to |-> some]]
          /\ handMsg = [n \in Node |-> [code |-> "REQ", from |-> some, caps |-> {}]]
    /\ inbox = [c \in Conn |-> [n \in Node |-> <<>>]]
    /\ remoteDevSocketIds = [n \in Node |-> [p \in Node |-> NoConn]]
    /\ serving = [n \in Node |-> TRUE]
    /\ trigPc = [n \in Node |-> "idle"]
    /\ trigPeer = [n \in Node |-> n]
    /\ trigConn = [n \in Node |-> NoConn]
    /\ events = [n \in Node |-> <<>>]
    /\ handPc = [n \in Node |-> "idle"]
    /\ handConn = [n \in Node |-> NoConn]
    /\ \E some \in DhId : handDh = [n \in Node |-> some]
    /\ handTodo = [n \in Node |-> {}]
    /\ localCaps = [n \in Node |-> {}]
    /\ dhBizStates = [n \in Node |-> [k \in Key |-> "UNKNOWN"]]
    /\ needRefresh = [n \in Node |-> {}]
    /\ fetching = [n \in Node |-> {}]
    /\ pushes = [n \in Node |-> [k \in Key |-> 0]]
    /\ asked = [n \in Node |-> [p \in Node |-> 0]]
    /\ answers = [n \in Node |-> [p \in Node |-> 0]]
    /\ unsent = {}
    /\ triggers = 0
    /\ states = 0
    /\ restarts = 0

Next ==
    \/ \E n \in Node : StartRequest(n) \/ ProcessEvent(n) \/ UnInit(n) \/ Init_(n)
    \/ \E n, p \in Node : TriggerReqFullDHCaps(n, p)
    \/ \E c \in Conn, n \in Node : SoftbusCallback(c, n)
    \/ \E n \in Node, k \in Key :
          \/ \E state \in BusinessState \ {"UNKNOWN"} : UpdateBusinessState(n, k, state)
          \/ FetchNeedRefreshTask(n, k)

Spec == Init /\ [][Next]_vars

-----------------------------------------------------------------------------
(* Properties *)

\* Nothing is under way on any node or in the softbus.
Quiet ==
    /\ \A c \in Conn, n \in Node : inbox[c][n] = <<>>
    /\ \A n \in Node : /\ trigPc[n] = "idle" /\ handPc[n] = "idle"
                       /\ events[n] = <<>> /\ fetching[n] = {}

\* An answer enables each hardware at most once: what ProcessFullCapsRsp
\* pushes or saves, and what UpdateBusinessState pushes later for it, together
\* never exceed the answers received.
RefreshOnce ==
    \A n \in Node, k \in Key :
        pushes[n][k] + (IF k \in needRefresh[n] THEN 1 ELSE 0) <= answers[n][k[1]]

\* The hardware the handler thread still has to push or save for the answer in
\* hand: all that the answer names until the loop starts, then what the loop has
\* not reached and the one between its query and its push or save.
Pending(n, k) ==
    /\ handMsg[n].from = k[1]
    /\ \/ handPc[n] \in {"stop", "shutdown", "erase", "uuid"} /\ k[2] \in handMsg[n].caps
       \/ handPc[n] \in {"query", "push", "save"} /\ k[2] \in handTodo[n]
       \/ handPc[n] \in {"push", "save"} /\ k[2] = handDh[n]

One(b) == IF b THEN 1 ELSE 0

\* The inductive form of RefreshOnce: what an answer still owes is counted too.
RefreshBudget ==
    /\ \A n \in Node, k \in Key :
          pushes[n][k] + One(k \in needRefresh[n]) + One(Pending(n, k)) <= answers[n][k[1]]
    /\ \A n \in Node :
          handPc[n] \in {"push", "save"} => handDh[n] \notin handTodo[n]

\* A device receives the capabilities of a peer at most once for each request it
\* has sent to that peer, whichever sockets the two have opened and forgotten and
\* whatever was still on its way when one of them restarted.
AnsweredOnRequest == \A n, p \in Node : answers[n][p] <= asked[n][p]

\* A hardware is refreshed, or kept to be refreshed, only after the capability
\* it is enabled with has been saved.
RefreshedIsSaved ==
    \A n \in Node, k \in Key :
        pushes[n][k] > 0 \/ k \in needRefresh[n] => k \in localCaps[n]

\* No node has released its transport, which drops sockets and messages, and none
\* has failed to send an answer.
NothingLost == unsent = {} /\ restarts = 0

\* Whoever asked a peer has been answered when everything has come to rest
\* ("request remote dh send back full dh capabilities", dh_comm_tool.h): neither
\* the request nor the answer is sent on a socket that one side has forgotten.
RequestAnswered ==
    Quiet /\ NothingLost => \A n, p \in Node : asked[n][p] > 0 => answers[n][p] > 0

\* When everything has come to rest no connection is left open and no closed
\* socket is left in a map ("after receive rsp, close dsoftbus channel",
\* DHCommTool::ProcessFullCapsRsp).
ChannelClosed ==
    Quiet /\ NothingLost =>
        /\ \A c \in Conn : conn[c].state # "open"
        /\ \A n, p \in Node : remoteDevSocketIds[n][p] = NoConn

\* A saved refresh waits only for hardware that is in use ("The dh busy, save
\* and refresh after idle", DHCommTool::ProcessFullCapsRsp).
RefreshAfterIdle ==
    Quiet => \A n \in Node : \A k \in needRefresh[n] : Busy(dhBizStates[n][k])
=============================================================================
