------------------------------- MODULE PubSub -------------------------------
(***************************************************************************)
(* Publish and subscribe, for one topic, TOPIC_LOW_LATENCY: a client       *)
(* process with DistributedHardwareFwkKit and DHFWKSAManager, the service  *)
(* with Publisher, and the listener the framework itself has on the topic, *)
(* which switches low network latency on and off.                          *)
(*                                                                         *)
(* The service process may die and start again; the client hears of both   *)
(* from the service manager, late and in order, on one thread, and then    *)
(* restores the listeners it has cached. A request is a synchronous IPC    *)
(* call: it fails when the process its proxy stands for is gone. Every     *)
(* registration makes a new proxy of the client's listener in the service, *)
(* so that the service counts registrations. The calls about one listener  *)
(* come from one thread; so do those of each publisher.                    *)
(***************************************************************************)
EXTENDS Naturals, Sequences, FiniteSets

CONSTANTS Listener,           \* of the client
          Publisher,          \* threads of the client that publish
          Low,                \* lowLatencyListener_ of ComponentManager
          NoOne,
          DHType,
          MAX_LISTENER_SIZE,
          MaxCalls,           \* bound on the calls of the kit
          MaxStarts,          \* bound on the service processes
          MaxComps            \* bound on ComponentManager::Init

ASSUME PubSubAssumption ==
    /\ Low \notin Listener /\ NoOne \notin Publisher /\ Listener \cap Publisher = {}
    /\ MAX_LISTENER_SIZE \in Nat /\ MaxCalls \in Nat /\ MaxStarts \in Nat /\ MaxComps \in Nat

VARIABLES pc, arg,        \* where each caller is in its call, and what it publishes
          dhfwkProxy,     \* the service process it stands for, 0 for nullptr
          subscribed,     \* isSubscribeDHFWKSAChangeListener_: "no", "yes"; "late" when the
                          \* process of the proxy had died before, unheard of
          notices,        \* what the service manager has to tell the client
          cache,          \* publisherListenersCache_
          restoring,      \* what RestoreListener has still to register
          late,           \* listeners that were about to be cached when it began
          fault,          \* a null proxy was called
          up,             \* the service process, 0 for none
          items,          \* listeners_ of the PublisherItem, by how many proxies of each
          lock,           \* who holds its mutex_ in PublishMessage
          todo,           \* whom that call has still to tell
          comp,           \* ComponentManager: "off", "on", "close"
          switchSet,      \* lowLatencySwitchSet_
          handler,        \* eventHandler_ of the timer, with its thread
          tasks,          \* Execute tasks posted to it
          exec,           \* its thread is in Execute
          joining,        \* ReleaseTimer holds timerMutex_ and joins that thread
          latency,        \* what ResSchedClient was told last
          closed,         \* CloseLowLatency has run in this process
          calls, starts, comps

client == <<dhfwkProxy, subscribed, notices, cache, restoring, late, fault>>
pub == <<lock, todo>>
low == <<switchSet, handler, tasks, exec, joining, latency, closed>>
bounds == <<calls, starts, comps>>
vars == <<pc, arg, client, up, items, pub, comp, low, bounds>>

Caller == Listener \cup Publisher
Target == Listener \cup {Low}
Message == [type : DHType, enable : BOOLEAN]

TypeOK ==
    /\ pc \in [Caller -> {"idle", "register", "unregister", "publish", "send", "unsend", "cache",
                          "uncache", "enter"}]
    /\ arg \in [Publisher -> Message]
    /\ dhfwkProxy \in 0 .. MaxStarts /\ up \in 0 .. MaxStarts
    /\ subscribed \in {"no", "yes", "late"} /\ fault \in BOOLEAN
    /\ notices \in Seq({"add", "remove"})
    /\ {cache, restoring, late} \subseteq SUBSET Listener
    /\ items \in [Target -> Nat] /\ todo \in [Target -> Nat]
    /\ lock \in Publisher \cup {NoOne}
    /\ comp \in {"off", "on", "close"}
    /\ switchSet \subseteq DHType /\ tasks \in Nat
    /\ {handler, exec, joining, closed} \subseteq BOOLEAN
    /\ latency \in {"normal", "low"}

Hears == subscribed # "no"

Nobody == [t \in Target |-> 0]

\* The kit's constructor has subscribed, or failed to.
Init ==
    /\ pc = [c \in Caller |-> "idle"]
    /\ arg = [p \in Publisher |-> CHOOSE m \in Message : TRUE]
    /\ dhfwkProxy = 0 /\ cache = {} /\ restoring = {} /\ late = {} /\ fault = FALSE
    /\ up \in {0, 1} /\ starts = up
    /\ subscribed \in {"no", "yes"}
    /\ notices = IF Hears /\ up = 1 THEN <<"add">> ELSE <<>>
    /\ items = Nobody /\ lock = NoOne /\ todo = Nobody /\ comp = "off"
    /\ switchSet = {} /\ handler = FALSE /\ tasks = 0 /\ exec = FALSE /\ joining = FALSE
    /\ latency = "normal" /\ closed = FALSE
    /\ calls = 0 /\ comps = 0

Goto(c, where) == pc' = [pc EXCEPT ![c] = where]

-----------------------------------------------------------------------------
(* The kit and the SA manager of the client *)

\* RegisterAbilityListener, tried again by every GetDHFWKProxy until it works.
RegisterAbilityListener ==
    \/ UNCHANGED <<subscribed, notices>>
    \/ /\ subscribed = "no"
       /\ subscribed' = IF dhfwkProxy \in {0, up} THEN "yes" ELSE "late"
       /\ notices' = IF up # 0 THEN Append(notices, "add") ELSE notices

\* GetDHFWKProxy: what it returns and keeps.
Proxy == IF dhfwkProxy # 0 THEN dhfwkProxy ELSE up
GetDHFWKProxy == dhfwkProxy' = Proxy /\ RegisterAbilityListener

\* A call of the kit begins.
Call(c, op) ==
    /\ ~fault /\ pc[c] = "idle" /\ calls < MaxCalls /\ calls' = calls + 1
    /\ Goto(c, op)
    /\ UNCHANGED <<client, up, items, pub, comp, low, starts, comps>>

\* RegisterPublisherListener of the kit: without a proxy the listener is only cached.
RegisterPublisherListener(l) ==
    /\ ~fault /\ pc[l] = "register" /\ GetDHFWKProxy
    /\ Goto(l, IF Proxy # 0 THEN "send" ELSE "cache")
    /\ UNCHANGED <<arg, cache, restoring, late, fault, up, items, pub, comp, low, bounds>>

\* UnregisterPublisherListener of the kit: without a proxy it is only forgotten.
UnregisterPublisherListener(l) ==
    /\ ~fault /\ pc[l] = "unregister" /\ GetDHFWKProxy
    /\ Goto(l, IF Proxy # 0 THEN "unsend" ELSE "uncache")
    /\ UNCHANGED <<arg, cache, restoring, late, fault, up, items, pub, comp, low, bounds>>

\* The second GetDHFWKProxy of the same call, whose result is not tested: nullptr
\* ends the client process.
NullProxy(c) ==
    /\ ~fault /\ pc[c] \in {"send", "unsend", "enter"} /\ Proxy = 0
    /\ fault' = TRUE
    /\ UNCHANGED <<pc, arg, dhfwkProxy, subscribed, notices, cache, restoring, late, up, items, pub,
                   comp, low, bounds>>

\* The request reaches a process that runs, or fails.
Reached == Proxy = up

\* PublisherItem::AddListener and RemoveListener, which wait for its mutex_.
AddListener(l) == lock = NoOne /\ items' = [items EXCEPT ![l] = @ + 1]
RemoveListener(l) == lock = NoOne /\ items' = [items EXCEPT ![l] = IF @ > 0 THEN @ - 1 ELSE 0]

\* The proxy's and the stub's RegisterPublisherListener: a failed request leaves
\* nothing in the cache.
SendRegister(l) ==
    /\ ~fault /\ pc[l] = "send" /\ Proxy # 0 /\ GetDHFWKProxy
    /\ \/ Reached /\ AddListener(l) /\ Goto(l, "cache")
       \/ ~Reached /\ Goto(l, "idle") /\ UNCHANGED items
    /\ UNCHANGED <<arg, cache, restoring, late, fault, up, pub, comp, low, bounds>>

SendUnregister(l) ==
    /\ ~fault /\ pc[l] = "unsend" /\ Proxy # 0 /\ GetDHFWKProxy
    /\ \/ Reached /\ RemoveListener(l)
       \/ ~Reached /\ UNCHANGED items
    /\ Goto(l, "uncache")
    /\ UNCHANGED <<arg, cache, restoring, late, fault, up, pub, comp, low, bounds>>

\* publisherListenersMutex_ is free: RestoreListener holds it.
CacheUnlocked == restoring = {}

AddPublisherListenerToCache(l) ==
    /\ ~fault /\ pc[l] = "cache" /\ CacheUnlocked
    /\ cache' = IF Cardinality(cache) >= MAX_LISTENER_SIZE THEN cache ELSE cache \cup {l}
    /\ Goto(l, "idle")
    /\ UNCHANGED <<arg, dhfwkProxy, subscribed, notices, restoring, late, fault, up, items, pub, comp,
                   low, bounds>>

RemovePublisherListenerFromCache(l) ==
    /\ ~fault /\ pc[l] = "uncache" /\ CacheUnlocked
    /\ cache' = cache \ {l} /\ late' = late \ {l}
    /\ Goto(l, "idle")
    /\ UNCHANGED <<arg, dhfwkProxy, subscribed, notices, restoring, fault, up, items, pub, comp, low,
                   bounds>>

\* Seeded fault: the proxy of the process that is gone is kept.
OnRemoveSystemAbilityKept ==
    /\ ~fault /\ restoring = {} /\ notices # <<>> /\ Head(notices) = "remove"
    /\ notices' = Tail(notices)
    /\ UNCHANGED <<pc, arg, dhfwkProxy, subscribed, cache, restoring, late, fault, up, items, pub, comp,
                   low, bounds>>

OnRemoveSystemAbility ==
    /\ ~fault /\ restoring = {} /\ notices # <<>> /\ Head(notices) = "remove"
    /\ notices' = Tail(notices) /\ dhfwkProxy' = 0 /\ subscribed' = "yes"
    /\ UNCHANGED <<pc, arg, cache, restoring, late, fault, up, items, pub, comp, low, bounds>>

\* OnAddSystemAbility, up to the loop of RestoreListener, which takes the mutex of
\* the cache. A listener on its way to the cache is missed.
OnAddSystemAbility ==
    /\ ~fault /\ restoring = {} /\ notices # <<>> /\ Head(notices) = "add"
    /\ notices' = Tail(notices) /\ dhfwkProxy' = Proxy
    /\ restoring' = IF Proxy = 0 THEN {} ELSE cache
    /\ late' = {l \in Listener : pc[l] = "cache"} \cup (IF Proxy = 0 THEN late ELSE {})
    /\ UNCHANGED <<pc, arg, subscribed, cache, fault, up, items, pub, comp, low, bounds>>

RestoreListener(l) ==
    /\ ~fault /\ l \in restoring
    /\ \/ Proxy = 0 /\ fault' = TRUE /\ UNCHANGED <<dhfwkProxy, restoring, items>>
       \/ /\ Proxy # 0 /\ dhfwkProxy' = Proxy /\ UNCHANGED fault
          /\ restoring' = restoring \ {l}
          /\ IF Reached THEN AddListener(l) ELSE UNCHANGED items
    /\ UNCHANGED <<pc, arg, subscribed, notices, cache, late, up, pub, comp, low, bounds>>

-----------------------------------------------------------------------------
(* LowLatency and its timer, in the service *)

\* StartTimer: InitTimer starts the thread if there is none, and the first Execute
\* is posted.
StartTimer == handler' = TRUE /\ tasks' = tasks + 1

EnableLowLatency(t) ==
    /\ IF switchSet = {} THEN StartTimer ELSE UNCHANGED <<handler, tasks>>
    /\ switchSet' = switchSet \cup {t}
    /\ UNCHANGED <<exec, joining, latency, closed>>

\* StopTimer, up to the join of the timer's thread by ReleaseTimer, and
\* HandleStopTimer. Without a thread there is nothing to join.
StopTimer ==
    /\ tasks' = 0 /\ joining' = handler
    /\ latency' = IF handler THEN latency ELSE "normal"

DisableLowLatency(t) ==
    /\ switchSet' = switchSet \ {t}
    /\ IF switchSet' = {} THEN StopTimer ELSE UNCHANGED <<tasks, joining, latency>>
    /\ UNCHANGED <<handler, exec, closed>>

\* Seeded fault: the timer's thread is not waited for.
JoinTimerDetached ==
    /\ joining /\ joining' = FALSE /\ handler' = FALSE /\ latency' = "normal"
    /\ UNCHANGED <<pc, arg, client, up, items, pub, comp, switchSet, tasks, exec, closed, bounds>>

\* The thread has left its runner. It never does while it waits in Execute for
\* timerMutex_, which is held here.
JoinTimer ==
    /\ joining /\ ~exec
    /\ joining' = FALSE /\ handler' = FALSE /\ latency' = "normal"
    /\ UNCHANGED <<pc, arg, client, up, items, pub, comp, switchSet, tasks, exec, closed, bounds>>

\* The delay of a posted Execute is over.
TimerFires ==
    /\ tasks > 0 /\ ~exec /\ tasks' = tasks - 1 /\ exec' = TRUE
    /\ UNCHANGED <<pc, arg, client, up, items, pub, comp, switchSet, handler, joining, latency, closed,
                   bounds>>

\* Execute and ExecuteInner, under timerMutex_; the next one is posted.
Execute ==
    /\ exec /\ ~joining /\ exec' = FALSE
    /\ latency' = "low" /\ tasks' = tasks + 1
    /\ UNCHANGED <<pc, arg, client, up, items, pub, comp, switchSet, handler, joining, closed, bounds>>

\* lowLatencyMutex_ is free.
LatencyUnlocked == ~joining

\* LowLatencyListener::OnMessage.
OnMessage(m) ==
    /\ LatencyUnlocked
    /\ IF m.enable THEN EnableLowLatency(m.type) ELSE DisableLowLatency(m.type)

-----------------------------------------------------------------------------
(* Publisher and ComponentManager, in the service *)

\* PublishMessage of the kit: without a proxy it fails.
PublishMessage(p) ==
    /\ ~fault /\ pc[p] = "publish" /\ GetDHFWKProxy
    /\ Goto(p, IF Proxy # 0 THEN "enter" ELSE "idle")
    /\ UNCHANGED <<arg, cache, restoring, late, fault, up, items, pub, comp, low, bounds>>

\* PublisherItem::PublishMessage takes the mutex_ and goes through the listeners.
PublishBegin(p) ==
    /\ ~fault /\ pc[p] = "enter" /\ Proxy # 0 /\ lock # p /\ GetDHFWKProxy
    /\ \/ Reached /\ lock = NoOne /\ lock' = p /\ todo' = items /\ UNCHANGED pc
       \/ ~Reached /\ Goto(p, "idle") /\ UNCHANGED pub
    /\ UNCHANGED <<arg, cache, restoring, late, fault, up, items, comp, low, bounds>>

\* OnMessage of one of them: an IPC call to the client, or the framework's own.
PublishOne(t) ==
    /\ lock # NoOne /\ todo[t] > 0 /\ todo' = [todo EXCEPT ![t] = @ - 1]
    /\ IF t = Low THEN OnMessage(arg[lock]) ELSE LatencyUnlocked /\ UNCHANGED low
    /\ UNCHANGED <<pc, arg, client, up, items, lock, comp, bounds>>

PublishEnd ==
    /\ lock # NoOne /\ todo = Nobody /\ LatencyUnlocked
    /\ lock' = NoOne /\ Goto(lock, "idle")
    /\ UNCHANGED <<arg, client, up, items, todo, comp, low, bounds>>

\* The end of ComponentManager::Init ...
ComponentInit ==
    /\ up # 0 /\ comp = "off" /\ comps < MaxComps /\ comps' = comps + 1
    /\ comp' = "on" /\ AddListener(Low)
    /\ UNCHANGED <<pc, arg, client, up, pub, low, calls, starts>>

\* ... and of UnInit, which waits for a message that is being published.
ComponentUnInit ==
    /\ up # 0 /\ comp = "on" /\ comp' = "close" /\ RemoveListener(Low)
    /\ UNCHANGED <<pc, arg, client, up, pub, low, bounds>>

\* CloseLowLatency leaves the timer as it is.
CloseLowLatency ==
    /\ comp = "close" /\ LatencyUnlocked /\ comp' = "off"
    /\ switchSet' = {} /\ latency' = "normal" /\ closed' = TRUE
    /\ UNCHANGED <<pc, arg, client, up, items, pub, handler, tasks, exec, joining, bounds>>

-----------------------------------------------------------------------------
(* The service process (external) *)

\* It dies, with all it knew: a publisher in it gets an error.
Die ==
    /\ up # 0 /\ up' = 0
    /\ items' = Nobody /\ lock' = NoOne /\ todo' = Nobody /\ comp' = "off"
    /\ switchSet' = {} /\ handler' = FALSE /\ tasks' = 0 /\ exec' = FALSE /\ joining' = FALSE
    /\ latency' = "normal" /\ closed' = FALSE
    /\ pc' = IF lock = NoOne THEN pc ELSE [pc EXCEPT ![lock] = "idle"]
    /\ notices' = IF Hears THEN Append(notices, "remove") ELSE notices
    /\ UNCHANGED <<arg, dhfwkProxy, subscribed, cache, restoring, late, fault, bounds>>

Start ==
    /\ up = 0 /\ starts < MaxStarts
    /\ up' = starts + 1 /\ starts' = starts + 1
    /\ notices' = IF Hears THEN Append(notices, "add") ELSE notices
    /\ UNCHANGED <<pc, arg, dhfwkProxy, subscribed, cache, restoring, late, fault, items, pub, comp, low,
                   calls, comps>>

-----------------------------------------------------------------------------

KitCall ==
    \/ \E l \in Listener, op \in {"register", "unregister"} : Call(l, op) /\ UNCHANGED arg
    \/ \E p \in Publisher, m \in Message : Call(p, "publish") /\ arg' = [arg EXCEPT ![p] = m]

KitStep(c) ==
    \/ c \in Listener /\ \/ RegisterPublisherListener(c) \/ UnregisterPublisherListener(c)
                         \/ SendRegister(c) \/ SendUnregister(c)
                         \/ AddPublisherListenerToCache(c) \/ RemovePublisherListenerFromCache(c)
    \/ c \in Publisher /\ (PublishMessage(c) \/ PublishBegin(c))
    \/ NullProxy(c)

Next ==
    \/ KitCall \/ \E c \in Caller : KitStep(c)
    \/ OnAddSystemAbility \/ OnRemoveSystemAbility \/ \E l \in Listener : RestoreListener(l)
    \/ \E t \in Target : PublishOne(t)
    \/ PublishEnd
    \/ ComponentInit \/ ComponentUnInit \/ CloseLowLatency
    \/ TimerFires \/ Execute \/ JoinTimer
    \/ Die \/ Start

Spec == Init /\ [][Next]_vars

-----------------------------------------------------------------------------
(* Properties *)

\* The client has nothing under way and has heard all the news.
AtRest ==
    /\ ~fault /\ notices = <<>> /\ restoring = {}
    /\ \A c \in Caller : pc[c] = "idle"

\* A listener the client has cached is known to the service that runs, however
\* often the service died and whichever call was under way then ("Restore the
\* failed listeners due to sa crash", RestoreListener), unless it was between its
\* registration and the cache when the listeners were restored, or the client had
\* the proxy of a process that died before it could subscribe.
ListenersRestored ==
    AtRest /\ subscribed = "yes" /\ up # 0 => \A l \in cache \ late : items[l] > 0

\* Low latency is asked for by exactly one periodic task while a component wants
\* it, and after the last one has switched it off nobody asks again, although
\* the timer's thread may have been about to. After CloseLowLatency it is not
\* so: the timer goes on.
LatencyFollowsSwitch ==
    lock = NoOne /\ ~closed =>
        /\ handler <=> switchSet # {}
        /\ handler => tasks + (IF exec THEN 1 ELSE 0) = 1
        /\ ~handler => latency = "normal" /\ tasks = 0 /\ ~exec

\* "To restore normal latency mode" (CloseLowLatency): the framework that is
\* released does not ask for low latency. The timer does, until it is stopped.
NormalAfterClose == closed /\ switchSet = {} => latency = "normal"
=============================================================================
