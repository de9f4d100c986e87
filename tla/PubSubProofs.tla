---------------------------- MODULE PubSubProofs ----------------------------
(***************************************************************************)
(* Two results, for any number of clients, publishers, types and service   *)
(* processes.                                                              *)
(*                                                                         *)
(* The timer which asks for low latency follows the set of components that *)
(* want it. The one delicate moment is the join of the timer's thread: it  *)
(* happens inside a published message, with nothing posted and nobody      *)
(* wanting low latency, and a thread that already runs Execute waits for   *)
(* the mutex the join holds.                                               *)
(*                                                                         *)
(* The listeners of a client are registered with the service again after   *)
(* it came back. The last of the news the client has not heard yet tells   *)
(* whether a service process runs, and a proxy of a process that is gone   *)
(* means that its end has still to be heard. Once all is heard every       *)
(* listener the client keeps is registered, about to be restored or about  *)
(* to be removed.                                                          *)
(***************************************************************************)
EXTENDS PubSub, TLAPS

LatencyTypes ==
    /\ tasks \in Nat /\ handler \in BOOLEAN /\ exec \in BOOLEAN
    /\ joining \in BOOLEAN /\ closed \in BOOLEAN

\* The join is part of a message that is being published.
JoinInMessage == joining => lock # NoOne

\* While the thread is joined, and at all other times.
TimerState ==
    ~closed =>
        /\ joining => handler /\ switchSet = {} /\ tasks = 0
        /\ ~joining => handler <=> switchSet # {}
        /\ ~joining /\ handler => (exec /\ tasks = 0) \/ (~exec /\ tasks = 1)
        /\ ~handler => latency = "normal" /\ tasks = 0 /\ ~exec

LatencyInv == LatencyTypes /\ JoinInMessage /\ TimerState

\* The framework starts with normal latency and without the timer.
LEMMA LatencyInit == Init => LatencyInv
  <1> SUFFICES ASSUME Init PROVE LatencyInv
    OBVIOUS
  <1>1. tasks \in Nat
    BY DEF Init
  <1>2. handler \in BOOLEAN /\ exec \in BOOLEAN /\ joining \in BOOLEAN /\ closed \in BOOLEAN
    BY Zenon DEF Init
  <1>3. JoinInMessage /\ TimerState
    BY Zenon DEF Init, JoinInMessage, TimerState
  <1> QED
    BY <1>1, <1>2, <1>3, Zenon DEF LatencyInv, LatencyTypes

\* One message switches low latency on or off.
LEMMA MessageStep ==
    ASSUME LatencyInv, lock # NoOne, UNCHANGED lock, NEW m, OnMessage(m)
    PROVE  LatencyInv'
  <1>0. ~joining /\ LatencyTypes /\ TimerState /\ UNCHANGED <<exec, closed>>
    BY DEF LatencyInv, OnMessage, LatencyUnlocked, EnableLowLatency, DisableLowLatency
  <1>1. CASE m.enable
    <2>1. EnableLowLatency(m.type)
      BY <1>1 DEF OnMessage
    <2>2. UNCHANGED <<joining, latency>> /\ switchSet' # {}
      BY <2>1 DEF EnableLowLatency
    <2>3. CASE switchSet = {}
      BY <1>0, <2>1, <2>2, <2>3 DEF EnableLowLatency, StartTimer, LatencyInv, LatencyTypes, JoinInMessage,
                                    TimerState
    <2>4. CASE switchSet # {}
      BY <1>0, <2>1, <2>2, <2>4 DEF EnableLowLatency, LatencyInv, LatencyTypes, JoinInMessage, TimerState
    <2> QED
      BY <2>3, <2>4
  <1>2. CASE ~m.enable
    <2>1. DisableLowLatency(m.type) /\ UNCHANGED handler
      BY <1>2 DEF OnMessage, DisableLowLatency
    <2>2. CASE switchSet' = {}
      <3>1. tasks' = 0 /\ joining' = handler /\ (~handler => latency' = "normal")
        BY <2>1, <2>2 DEF DisableLowLatency, StopTimer
      <3> QED
        BY <1>0, <2>1, <2>2, <3>1 DEF LatencyInv, LatencyTypes, JoinInMessage, TimerState
    <2>3. CASE switchSet' # {}
      <3>1. UNCHANGED <<tasks, joining, latency>> /\ switchSet # {}
        BY <2>1, <2>3 DEF DisableLowLatency
      <3> QED
        BY <1>0, <2>1, <2>3, <3>1 DEF LatencyInv, LatencyTypes, JoinInMessage, TimerState
    <2> QED
      BY <2>2, <2>3
  <1> QED
    BY <1>1, <1>2

\* Every step keeps the invariant.
LEMMA LatencyStep == LatencyInv /\ [Next]_vars => LatencyInv'
  <1> SUFFICES ASSUME LatencyInv, [Next]_vars PROVE LatencyInv'
    OBVIOUS
  <1> USE DEF LatencyInv, LatencyTypes, JoinInMessage, TimerState
  <1>1. CASE UNCHANGED low /\ (UNCHANGED lock \/ lock = NoOne \/ ~joining)
    BY <1>1 DEF low
  <1>2. ASSUME NEW t \in Target, PublishOne(t) PROVE LatencyInv'
    <2>1. CASE t = Low
      BY <1>2, <2>1, MessageStep DEF PublishOne
    <2>2. CASE t # Low
      BY <1>1, <1>2, <2>2 DEF PublishOne
    <2> QED
      BY <2>1, <2>2
  <1>3. CASE CloseLowLatency
    BY <1>3 DEF CloseLowLatency, pub, LatencyUnlocked
  <1>4. CASE TimerFires
    BY <1>4 DEF TimerFires, pub
  <1>5. CASE Execute
    <2>1. /\ exec /\ ~joining /\ ~exec' /\ tasks' = tasks + 1 /\ latency' = "low"
          /\ UNCHANGED <<switchSet, handler, joining, closed, lock>>
      BY <1>5 DEF Execute, pub
    <2>2. exec' \in BOOLEAN
      BY <1>5, Zenon DEF Execute
    <2>3. tasks' \in Nat
      BY <2>1
    <2>4. ASSUME ~closed PROVE handler /\ tasks' = 1
      BY <2>1, <2>4
    <2> QED
      BY <2>1, <2>2, <2>3, <2>4
  <1>6. CASE JoinTimer
    BY <1>6 DEF JoinTimer, pub
  <1>7. CASE Die
    BY <1>7 DEF Die
  <1>8. CASE KitCall \/ OnAddSystemAbility \/ OnRemoveSystemAbility \/ (\E l \in Listener : RestoreListener(l))
             \/ ComponentInit \/ ComponentUnInit \/ Start \/ UNCHANGED vars
    BY <1>1, <1>8 DEF KitCall, Call, OnAddSystemAbility, OnRemoveSystemAbility, RestoreListener, ComponentInit,
              ComponentUnInit, Start, vars, pub
  <1>9. CASE PublishEnd
    BY <1>1, <1>9 DEF PublishEnd, LatencyUnlocked
  <1>10. CASE \E c \in Caller : KitStep(c)
    BY <1>1, <1>10 DEF KitStep, RegisterPublisherListener, UnregisterPublisherListener, SendRegister,
              SendUnregister, AddPublisherListenerToCache, RemovePublisherListenerFromCache,
              PublishMessage, PublishBegin, NullProxy, pub
  <1> QED
    BY <1>2, <1>3, <1>4, <1>5, <1>6, <1>7, <1>8, <1>9, <1>10 DEF Next

-----------------------------------------------------------------------------

\* Low latency is asked for by exactly one periodic task while a component wants
\* it, and by none once the last one has switched it off, although the timer's
\* thread may have been about to ask (DHTimer::ReleaseTimer and Execute).
THEOREM LatencyIsRight == Spec => []LatencyFollowsSwitch
  <1>1. LatencyInv => LatencyFollowsSwitch
    BY DEF LatencyInv, LatencyTypes, JoinInMessage, TimerState, LatencyFollowsSwitch
  <1> QED
    BY <1>1, LatencyInit, LatencyStep, PTL DEF Spec

-----------------------------------------------------------------------------
(* The listeners *)

Where == {"idle", "register", "unregister", "publish", "send", "unsend", "cache", "uncache", "enter"}

ClientTypes ==
    /\ pc \in [Caller -> Where] /\ items \in [Target -> Nat]
    /\ up \in Nat /\ starts \in Nat /\ dhfwkProxy \in Nat
    /\ notices \in Seq({"add", "remove"})
    /\ cache \subseteq Listener /\ restoring \subseteq Listener /\ late \subseteq Listener
    /\ lock \in Publisher \cup {NoOne} /\ subscribed \in {"no", "yes", "late"}

\* The last of the news is about the process that runs or about its end, and a
\* client with the proxy of a process that is gone is still to hear of that.
News ==
    /\ subscribed = "no" => notices = <<>>
    /\ notices # <<>> => notices[Len(notices)] = IF up # 0 THEN "add" ELSE "remove"
    /\ subscribed = "yes" /\ dhfwkProxy \notin {0, up} =>
          \E i \in 1 .. Len(notices) : notices[i] = "remove"

\* Once the client has heard all, a listener is registered, or is being restored
\* or removed.
Registered ==
    ~fault /\ subscribed = "yes" /\ up # 0 /\ notices = <<>> =>
        \A l \in Listener :
            /\ l \in cache \ late => items[l] > 0 \/ l \in restoring \/ pc[l] = "uncache"
            /\ pc[l] = "cache" => items[l] > 0 \/ l \in late

RestoreInv == ClientTypes /\ News /\ Registered

\* What the service manager says last.
LEMMA AppendNews ==
    ASSUME NEW n \in Seq({"add", "remove"}), NEW x \in {"add", "remove"}, NEW m, m = Append(n, x)
    PROVE  /\ m \in Seq({"add", "remove"}) /\ m # <<>> /\ m[Len(m)] = x
           /\ x = "remove" \/ (\E i \in 1 .. Len(n) : n[i] = "remove") => \E i \in 1 .. Len(m) : m[i] = "remove"
  <1>1. Len(n) \in Nat /\ m \in Seq({"add", "remove"}) /\ m # <<>> /\ Len(m) = Len(n) + 1 /\ m[Len(m)] = x
    OBVIOUS
  <1>2. \A i \in 1 .. Len(n) : i \in 1 .. Len(m) /\ m[i] = n[i]
    OBVIOUS
  <1>3. Len(m) \in 1 .. Len(m)
    BY <1>1
  <1> QED
    BY <1>1, <1>2, <1>3

\* What the client has still to hear after the first of the news.
LEMMA TailNews ==
    ASSUME NEW n \in Seq({"add", "remove"}), n # <<>>, NEW m, m = Tail(n)
    PROVE  /\ m \in Seq({"add", "remove"})
           /\ IF m = <<>> THEN n[Len(n)] = Head(n) ELSE m[Len(m)] = n[Len(n)]
           /\ Head(n) # "remove" /\ (\E i \in 1 .. Len(n) : n[i] = "remove") =>
                 \E i \in 1 .. Len(m) : m[i] = "remove"
  <1>1. /\ Len(n) \in Nat /\ Len(n) > 0 /\ m \in Seq({"add", "remove"}) /\ Len(m) = Len(n) - 1 /\ Head(n) = n[1]
    OBVIOUS
  <1>2. \A i \in 1 .. Len(m) : m[i] = n[i + 1]
    OBVIOUS
  <1>3. CASE m = <<>>
    <2>1. Len(n) = 1 /\ \A i \in 1 .. Len(n) : i = 1
      BY <1>1, <1>3
    <2> QED
      BY <1>1, <1>3, <2>1
  <1>4. CASE m # <<>>
    <2>1. Len(m) \in 1 .. Len(m) /\ Len(m) + 1 = Len(n)
      BY <1>1, <1>4
    <2>2. m[Len(m)] = n[Len(n)]
      BY <1>2, <2>1
    <2>3. ASSUME Head(n) # "remove", NEW i \in 1 .. Len(n), n[i] = "remove"
          PROVE  \E j \in 1 .. Len(m) : m[j] = "remove"
      <3>1. i # 1
        BY <1>1, <2>3
      <3>2. i - 1 \in 1 .. Len(m) /\ (i - 1) + 1 = i
        BY <1>1, <3>1
      <3>3. m[i - 1] = "remove"
        BY <1>2, <2>3, <3>2
      <3> QED
        BY <3>2, <3>3
    <2> QED
      BY <1>1, <1>4, <2>2, <2>3
  <1> QED
    BY <1>3, <1>4

\* GetDHFWKProxy, which may subscribe at last.
LEMMA ProxyStep ==
    ASSUME ClientTypes, News, GetDHFWKProxy, UNCHANGED up
    PROVE  /\ News' /\ dhfwkProxy' \in Nat /\ notices' \in Seq({"add", "remove"})
           /\ subscribed' \in {"no", "yes", "late"}
           /\ subscribed' = "yes" /\ up # 0 /\ notices' = <<>> => subscribed = "yes" /\ notices = <<>>
  <1> USE DEF ClientTypes, News
  <1>1. dhfwkProxy' = Proxy /\ Proxy \in Nat /\ (dhfwkProxy \in {0, up} => Proxy = up)
        /\ (dhfwkProxy # 0 => Proxy = dhfwkProxy)
    BY DEF GetDHFWKProxy, Proxy
  <1>2. CASE UNCHANGED <<subscribed, notices>>
    BY <1>1, <1>2
  <1>3. CASE subscribed = "no" /\ up = 0 /\ notices' = notices /\ subscribed' \in {"yes", "late"}
             /\ (subscribed' = "yes" => dhfwkProxy \in {0, up})
    BY <1>1, <1>3
  <1>4. CASE subscribed = "no" /\ up # 0 /\ notices' = Append(notices, "add") /\ subscribed' \in {"yes", "late"}
             /\ (subscribed' = "yes" => dhfwkProxy \in {0, up})
    <2>1. notices' \in Seq({"add", "remove"}) /\ notices' # <<>> /\ notices'[Len(notices')] = "add"
      BY <1>4, AppendNews
    <2> QED
      BY <1>1, <1>4, <2>1
  <1> QED
    BY <1>2, <1>3, <1>4 DEF GetDHFWKProxy, RegisterAbilityListener

\* A client that has heard all has the proxy of the process that runs or none.
LEMMA ProxyIsRight ==
    ASSUME ClientTypes, News, subscribed = "yes", notices = <<>>
    PROVE  Proxy = up
  <1>1. \A i \in 1 .. Len(<<>>) : FALSE
    OBVIOUS
  <1> QED
    BY <1>1 DEF News, Proxy

\* The client starts without listeners.
LEMMA RestoreInit == Init => RestoreInv
  <1> SUFFICES ASSUME Init PROVE RestoreInv
    OBVIOUS
  <1>1. ClientTypes
    <2>1. items \in [Target -> Nat] /\ up \in Nat /\ starts \in Nat /\ dhfwkProxy \in Nat
      BY DEF Init, Nobody
    <2>2. notices \in Seq({"add", "remove"})
      <3>1. <<>> \in Seq({"add", "remove"}) /\ <<"add">> \in Seq({"add", "remove"})
        OBVIOUS
      <3>2. notices = <<>> \/ notices = <<"add">>
        BY DEF Init
      <3> QED
        BY <3>1, <3>2
    <2>3. pc \in [Caller -> Where]
      BY DEF Init, Where
    <2> QED
      BY <2>1, <2>2, <2>3 DEF ClientTypes, Init
  <1>2. News
    <2>1. CASE notices = <<>>
      BY <2>1 DEF Init, News
    <2>2. CASE notices # <<>>
      <3>1. notices = <<"add">> /\ up = 1 /\ subscribed # "no"
        BY <2>2 DEF Init, Hears
      <3>2. notices[Len(notices)] = "add"
        BY <3>1
      <3> QED
        BY <2>2, <3>1, <3>2 DEF Init, News
    <2> QED
      BY <2>1, <2>2
  <1>3. Registered
    BY DEF Init, Registered, Caller
  <1> QED
    BY <1>1, <1>2, <1>3 DEF RestoreInv

-----------------------------------------------------------------------------

\* A step that leaves the listeners where they are.
LEMMA ListenersIdle ==
    ASSUME RestoreInv, ClientTypes', News', UNCHANGED <<cache, late, restoring, fault>>, up' \in {0, up},
           subscribed' = "yes" /\ up # 0 /\ notices' = <<>> => subscribed = "yes" /\ notices = <<>>,
           up' # 0 => \A l \in Listener : items'[l] >= items[l],
           up' # 0 => \A l \in Listener : pc'[l] = pc[l] \/ (pc'[l] # "cache" /\ pc[l] # "uncache")
    PROVE  RestoreInv'
  <1>1. Registered'
    <2> SUFFICES ASSUME ~fault, subscribed' = "yes", up' # 0, notices' = <<>>, NEW l \in Listener
                 PROVE  /\ l \in cache \ late => items'[l] > 0 \/ l \in restoring \/ pc'[l] = "uncache"
                        /\ pc'[l] = "cache" => items'[l] > 0 \/ l \in late
      BY DEF Registered
    <2>1. /\ l \in cache \ late => items[l] > 0 \/ l \in restoring \/ pc[l] = "uncache"
          /\ pc[l] = "cache" => items[l] > 0 \/ l \in late
      BY DEF RestoreInv, Registered
    <2>2. items[l] > 0 => items'[l] > 0
      <3>1. l \in Target
        BY DEF Target
      <3>2. items[l] \in Nat /\ items'[l] \in Nat
        BY <3>1 DEF RestoreInv, ClientTypes
      <3> QED
        BY <3>2
    <2> QED
      BY <2>1, <2>2
  <1> QED
    BY <1>1 DEF RestoreInv

\* A step of the service or of its timer.
LEMMA ServiceStep ==
    ASSUME RestoreInv,
           \/ \E t \in Target : PublishOne(t)
           \/ PublishEnd \/ ComponentInit \/ ComponentUnInit \/ CloseLowLatency
           \/ TimerFires \/ Execute \/ JoinTimer \/ UNCHANGED vars
    PROVE  RestoreInv'
  <1>1. UNCHANGED client /\ UNCHANGED <<up, starts>>
    BY DEF PublishOne, PublishEnd, ComponentInit, ComponentUnInit, CloseLowLatency, TimerFires, Execute,
           JoinTimer, vars, bounds
  <1>2. UNCHANGED <<dhfwkProxy, subscribed, notices, cache, restoring, late, fault, up, starts>>
    BY <1>1 DEF client
  <1>3. \/ UNCHANGED <<pc, items, lock>>
        \/ UNCHANGED <<pc, lock>> /\ items' = [items EXCEPT ![Low] = @ + 1]
        \/ UNCHANGED <<pc, lock>> /\ items' = [items EXCEPT ![Low] = IF @ > 0 THEN @ - 1 ELSE 0]
        \/ UNCHANGED items /\ lock # NoOne /\ lock' = NoOne /\ pc' = [pc EXCEPT ![lock] = "idle"]
    BY DEF PublishOne, PublishEnd, ComponentInit, ComponentUnInit, CloseLowLatency, TimerFires, Execute,
           JoinTimer, vars, pub, AddListener, RemoveListener, Goto
  <1>4. /\ pc \in [Caller -> Where] /\ items \in [Target -> Nat] /\ lock \in Publisher \cup {NoOne}
        /\ Low \in Target /\ Low \notin Listener /\ Listener \subseteq Target /\ Listener \subseteq Caller
        /\ \A l \in Listener : l \notin Publisher
    BY PubSubAssumption DEF RestoreInv, ClientTypes, Target, Caller
  <1>5. items' \in [Target -> Nat] /\ \A l \in Listener : items'[l] = items[l]
    BY <1>3, <1>4
  <1>6. /\ pc' \in [Caller -> Where] /\ lock' \in Publisher \cup {NoOne}
        /\ \A l \in Listener : pc'[l] = pc[l]
    BY <1>3, <1>4 DEF Where
  <1>7. \A l \in Listener : items'[l] >= items[l]
    BY <1>4, <1>5
  <1>8. ClientTypes' /\ News'
    BY <1>2, <1>5, <1>6 DEF RestoreInv, ClientTypes, News
  <1> QED
    BY <1>2, <1>6, <1>7, <1>8, ListenersIdle

\* The process ends or a new one begins, of which a client that has subscribed
\* will hear.
LEMMA ProcessStep ==
    ASSUME RestoreInv, Die \/ Start
    PROVE  RestoreInv'
  <1> USE DEF RestoreInv, ClientTypes
  <1>1. CASE Die
    <2>1. /\ up # 0 /\ up' = 0 /\ items' = Nobody /\ lock' = NoOne
          /\ UNCHANGED <<dhfwkProxy, subscribed, cache, restoring, late, fault, starts>>
          /\ pc' = IF lock = NoOne THEN pc ELSE [pc EXCEPT ![lock] = "idle"]
          /\ notices' = IF Hears THEN Append(notices, "remove") ELSE notices
      BY <1>1 DEF Die, bounds
    <2>2. pc' \in [Caller -> Where] /\ items' \in [Target -> Nat]
      BY <2>1 DEF Where, Nobody
    <2>3. notices' \in Seq({"add", "remove"}) /\ News'
      <3>1. CASE subscribed = "no"
        BY <2>1, <3>1 DEF News, Hears
      <3>2. CASE subscribed # "no"
        <4>1. notices' = Append(notices, "remove")
          BY <2>1, <3>2 DEF Hears
        <4>2. /\ notices' \in Seq({"add", "remove"}) /\ notices' # <<>> /\ notices'[Len(notices')] = "remove"
              /\ \E i \in 1 .. Len(notices') : notices'[i] = "remove"
          BY <4>1, AppendNews
        <4> QED
          BY <2>1, <3>2, <4>2 DEF News
      <3> QED
        BY <3>1, <3>2
    <2>4. ClientTypes'
      BY <2>1, <2>2, <2>3
    <2>5. Registered'
      BY <2>1 DEF Registered
    <2> QED
      BY <2>3, <2>4, <2>5
  <1>2. CASE Start
    <2>1. /\ up = 0 /\ up' = starts + 1 /\ starts' = starts + 1
          /\ UNCHANGED <<pc, items, lock, dhfwkProxy, subscribed, cache, restoring, late, fault>>
          /\ notices' = IF Hears THEN Append(notices, "add") ELSE notices
      BY <1>2 DEF Start, pub
    <2>2. up' \in Nat /\ starts' \in Nat /\ up' # 0
      BY <2>1
    <2>3. notices' \in Seq({"add", "remove"}) /\ News' /\ (subscribed # "no" => notices' # <<>>)
      <3>1. CASE subscribed = "no"
        BY <2>1, <3>1 DEF News, Hears
      <3>2. CASE subscribed # "no"
        <4>1. notices' = Append(notices, "add")
          BY <2>1, <3>2 DEF Hears
        <4>2. /\ notices' \in Seq({"add", "remove"}) /\ notices' # <<>> /\ notices'[Len(notices')] = "add"
              /\ (\E i \in 1 .. Len(notices) : notices[i] = "remove") =>
                    \E i \in 1 .. Len(notices') : notices'[i] = "remove"
          BY <4>1, AppendNews
        <4>3. subscribed' = "yes" /\ dhfwkProxy' \notin {0, up'} =>
                 \E i \in 1 .. Len(notices') : notices'[i] = "remove"
          BY <2>1, <4>2 DEF News
        <4> QED
          BY <2>1, <2>2, <3>2, <4>2, <4>3 DEF News
      <3> QED
        BY <3>1, <3>2
    <2>4. ClientTypes'
      BY <2>1, <2>2, <2>3
    <2>5. Registered'
      BY <2>1, <2>3 DEF Registered
    <2> QED
      BY <2>3, <2>4, <2>5
  <1> QED
    BY <1>1, <1>2

\* A call begins or a publisher goes on.
LEMMA CallStep ==
    ASSUME RestoreInv, KitCall \/ \E c \in Publisher : PublishMessage(c) \/ PublishBegin(c)
    PROVE  RestoreInv'
  <1>1. UNCHANGED <<cache, restoring, late, fault, up, items, starts>>
    BY DEF KitCall, Call, PublishMessage, PublishBegin, client, bounds
  <1>2. UNCHANGED <<dhfwkProxy, subscribed, notices>> \/ GetDHFWKProxy
    BY DEF KitCall, Call, PublishMessage, PublishBegin, client
  <1>3. \E c \in Caller, w \in Where :
           /\ pc' \in {pc, [pc EXCEPT ![c] = w]} /\ w # "cache"
           /\ c \in Publisher \/ pc[c] = "idle"
    BY DEF KitCall, Call, PublishMessage, PublishBegin, Goto, Where, Caller
  <1>4. lock' = lock \/ lock' \in Publisher
    BY DEF KitCall, Call, PublishMessage, PublishBegin, pub
  <1>5. ClientTypes /\ News
    BY DEF RestoreInv
  <1>6. /\ News' /\ dhfwkProxy' \in Nat /\ notices' \in Seq({"add", "remove"})
        /\ subscribed' \in {"no", "yes", "late"}
        /\ subscribed' = "yes" /\ up # 0 /\ notices' = <<>> => subscribed = "yes" /\ notices = <<>>
    <2>1. CASE UNCHANGED <<dhfwkProxy, subscribed, notices>>
      BY <1>1, <1>5, <2>1 DEF ClientTypes, News
    <2>2. CASE GetDHFWKProxy
      BY <1>1, <1>5, <2>2, ProxyStep
    <2> QED
      BY <1>2, <2>1, <2>2
  <1>7. /\ pc' \in [Caller -> Where]
        /\ \A l \in Listener : pc'[l] = pc[l] \/ (pc'[l] # "cache" /\ pc[l] # "uncache")
    <2>1. pc \in [Caller -> Where] /\ Listener \subseteq Caller /\ \A l \in Listener : l \notin Publisher
      BY <1>5, PubSubAssumption DEF ClientTypes, Caller
    <2> QED
      BY <1>3, <2>1
  <1>8. ClientTypes'
    BY <1>1, <1>4, <1>5, <1>6, <1>7 DEF ClientTypes
  <1>9. \A l \in Listener : items'[l] >= items[l]
    <2>1. \A l \in Listener : items[l] \in Nat
      BY <1>5 DEF ClientTypes, Target
    <2> QED
      BY <1>1, <2>1
  <1> QED
    BY <1>1, <1>6, <1>7, <1>8, <1>9, ListenersIdle

\* A listener is registered or taken back, with the request and the cache as
\* two steps.
LEMMA ListenerStep ==
    ASSUME RestoreInv, NEW c \in Listener,
           \/ RegisterPublisherListener(c) \/ UnregisterPublisherListener(c)
           \/ SendRegister(c) \/ SendUnregister(c)
    PROVE  RestoreInv'
  <1>1. GetDHFWKProxy /\ ~fault /\ UNCHANGED <<cache, restoring, late, fault, up, lock, starts>>
    BY DEF RegisterPublisherListener, UnregisterPublisherListener, SendRegister, SendUnregister, bounds, pub
  <1>2. ClientTypes /\ News /\ c \in Caller /\ c \in Target
    BY DEF RestoreInv, Caller, Target
  <1>3. /\ News' /\ dhfwkProxy' \in Nat /\ notices' \in Seq({"add", "remove"})
        /\ subscribed' \in {"no", "yes", "late"}
        /\ subscribed' = "yes" /\ up # 0 /\ notices' = <<>> => subscribed = "yes" /\ notices = <<>>
    BY <1>1, <1>2, ProxyStep
  <1>4. PICK w \in Where :
           /\ pc' = [pc EXCEPT ![c] = w] /\ pc[c] # "uncache" /\ pc[c] # "cache"
           /\ \/ items' = items /\ (w = "cache" => up = 0)
              \/ items' = [items EXCEPT ![c] = @ + 1] /\ w = "cache"
              \/ items' = [items EXCEPT ![c] = IF @ > 0 THEN @ - 1 ELSE 0] /\ w = "uncache"
    <2>1. CASE RegisterPublisherListener(c)
      BY <2>1 DEF RegisterPublisherListener, Goto, Where, Proxy
    <2>2. CASE UnregisterPublisherListener(c)
      BY <2>2 DEF UnregisterPublisherListener, Goto, Where
    <2>3. CASE SendRegister(c)
      BY <2>3 DEF SendRegister, Goto, Where, AddListener
    <2>4. CASE SendUnregister(c)
      BY <2>4 DEF SendUnregister, Goto, Where, RemoveListener
    <2> QED
      BY <2>1, <2>2, <2>3, <2>4
  <1>5. pc \in [Caller -> Where] /\ items \in [Target -> Nat] /\ Listener \subseteq Caller /\ Listener \subseteq Target
    BY <1>2 DEF ClientTypes, Caller, Target
  <1>6. items' \in [Target -> Nat] /\ \A l \in Listener \ {c} : items'[l] = items[l] /\ pc'[l] = pc[l]
    BY <1>2, <1>4, <1>5
  <1>7. pc' \in [Caller -> Where] /\ pc'[c] = w
    BY <1>2, <1>4, <1>5
  <1>8. ClientTypes'
    BY <1>1, <1>2, <1>3, <1>6, <1>7 DEF ClientTypes
  <1>9. Registered'
    <2> SUFFICES ASSUME subscribed' = "yes", up # 0, notices' = <<>>, NEW l \in Listener
                 PROVE  /\ l \in cache \ late => items'[l] > 0 \/ l \in restoring \/ pc'[l] = "uncache"
                        /\ pc'[l] = "cache" => items'[l] > 0 \/ l \in late
      BY <1>1 DEF Registered
    <2>1. /\ l \in cache \ late => items[l] > 0 \/ l \in restoring \/ pc[l] = "uncache"
          /\ pc[l] = "cache" => items[l] > 0 \/ l \in late
      BY <1>1, <1>3 DEF RestoreInv, Registered
    <2>2. CASE l # c
      BY <1>6, <2>1, <2>2
    <2>3. CASE l = c
      <3>1. CASE items' = items /\ (w = "cache" => up = 0)
        BY <1>4, <1>7, <2>1, <2>3, <3>1
      <3>2. CASE items' = [items EXCEPT ![c] = @ + 1] /\ w = "cache"
        <4>1. items'[c] > 0
          BY <1>2, <1>5, <3>2
        <4> QED
          BY <2>3, <4>1
      <3>3. CASE w = "uncache"
        BY <1>7, <2>3, <3>3
      <3> QED
        BY <1>4, <3>1, <3>2, <3>3
    <2> QED
      BY <2>2, <2>3
  <1> QED
    BY <1>3, <1>8, <1>9 DEF RestoreInv

\* The cache is changed at the end of the call, when no listeners are restored.
LEMMA CacheStep ==
    ASSUME RestoreInv, NEW c \in Listener,
           AddPublisherListenerToCache(c) \/ RemovePublisherListenerFromCache(c)
    PROVE  RestoreInv'
  <1>1. /\ UNCHANGED <<dhfwkProxy, subscribed, notices, restoring, fault, up, items, lock, starts>>
        /\ pc' = [pc EXCEPT ![c] = "idle"] /\ pc[c] \in {"cache", "uncache"}
        /\ \/ pc[c] = "cache" /\ cache' \in {cache, cache \cup {c}} /\ late' = late
           \/ pc[c] = "uncache" /\ cache' = cache \ {c} /\ late' = late \ {c}
    BY DEF AddPublisherListenerToCache, RemovePublisherListenerFromCache, pub, bounds, Goto
  <1>2. c \in Caller /\ pc \in [Caller -> Where] /\ Listener \subseteq Caller
    BY DEF RestoreInv, ClientTypes, Caller
  <1>3. pc' \in [Caller -> Where] /\ pc'[c] = "idle" /\ \A l \in Listener \ {c} : pc'[l] = pc[l]
    BY <1>1, <1>2 DEF Where
  <1>4. ClientTypes' /\ News'
    BY <1>1, <1>3 DEF RestoreInv, ClientTypes, News
  <1>5. Registered'
    BY <1>1, <1>3 DEF RestoreInv, Registered
  <1> QED
    BY <1>4, <1>5 DEF RestoreInv

\* The client hears of the end of a process: if there is a new one, it has still
\* to hear of that.
LEMMA RemoveStep ==
    ASSUME RestoreInv, OnRemoveSystemAbility
    PROVE  RestoreInv'
  <1>1. /\ notices # <<>> /\ Head(notices) = "remove" /\ notices' = Tail(notices)
        /\ dhfwkProxy' = 0 /\ subscribed' = "yes"
        /\ UNCHANGED <<pc, cache, restoring, late, fault, up, items, lock, starts>>
    BY DEF OnRemoveSystemAbility, pub, bounds
  <1>2. /\ notices' \in Seq({"add", "remove"})
        /\ IF notices' = <<>> THEN notices[Len(notices)] = "remove" ELSE notices'[Len(notices')] = notices[Len(notices)]
    BY <1>1, TailNews DEF RestoreInv, ClientTypes
  <1>3. notices[Len(notices)] = IF up # 0 THEN "add" ELSE "remove"
    BY <1>1 DEF RestoreInv, News
  <1>4. ClientTypes' /\ News'
    BY <1>1, <1>2, <1>3 DEF RestoreInv, ClientTypes, News
  <1>5. Registered'
    BY <1>1, <1>2, <1>3 DEF Registered
  <1> QED
    BY <1>4, <1>5 DEF RestoreInv

\* The client hears of a process and begins to restore what it has cached; with
\* nothing more to hear it has the proxy of the process that runs.
LEMMA AddStep ==
    ASSUME RestoreInv, OnAddSystemAbility
    PROVE  RestoreInv'
  <1>1. /\ notices # <<>> /\ Head(notices) = "add" /\ notices' = Tail(notices) /\ dhfwkProxy' = Proxy
        /\ restoring' = IF Proxy = 0 THEN {} ELSE cache
        /\ late' = {l \in Listener : pc[l] = "cache"} \cup (IF Proxy = 0 THEN late ELSE {})
        /\ UNCHANGED <<pc, subscribed, cache, fault, up, items, lock, starts>>
    BY DEF OnAddSystemAbility, pub, bounds
  <1>2. /\ notices' \in Seq({"add", "remove"})
        /\ IF notices' = <<>> THEN notices[Len(notices)] = "add" ELSE notices'[Len(notices')] = notices[Len(notices)]
        /\ (\E i \in 1 .. Len(notices) : notices[i] = "remove") => \E i \in 1 .. Len(notices') : notices'[i] = "remove"
    BY <1>1, TailNews DEF RestoreInv, ClientTypes
  <1>3. /\ Proxy \in Nat /\ (dhfwkProxy \in {0, up} => Proxy = up) /\ (dhfwkProxy # 0 => Proxy = dhfwkProxy)
    BY DEF RestoreInv, ClientTypes, Proxy
  <1>4. ClientTypes'
    BY <1>1, <1>2, <1>3 DEF RestoreInv, ClientTypes
  <1>5. News'
    <2>1. subscribed = "no" => FALSE
      BY <1>1 DEF RestoreInv, News
    <2>2. notices' # <<>> => notices'[Len(notices')] = IF up # 0 THEN "add" ELSE "remove"
      BY <1>1, <1>2 DEF RestoreInv, News
    <2>3. subscribed = "yes" /\ Proxy \notin {0, up} => \E i \in 1 .. Len(notices') : notices'[i] = "remove"
      BY <1>2, <1>3 DEF RestoreInv, News
    <2> QED
      BY <1>1, <2>1, <2>2, <2>3 DEF News
  <1>6. Registered'
    <2> SUFFICES ASSUME subscribed = "yes", up # 0, notices' = <<>>, NEW l \in Listener
                 PROVE  /\ l \in cache => l \in restoring'
                        /\ pc[l] = "cache" => l \in late'
      BY <1>1 DEF Registered
    <2>1. ClientTypes' /\ News' /\ subscribed' = "yes"
      BY <1>1, <1>4, <1>5
    <2>2. ~\E i \in 1 .. Len(notices') : notices'[i] = "remove"
      <3>1. \A i \in 1 .. Len(<<>>) : FALSE
        OBVIOUS
      <3> QED
        BY <3>1
    <2>3. Proxy \in {0, up}
      BY <1>1, <2>1, <2>2 DEF News
    <2>4. Proxy = up
      BY <2>3 DEF Proxy
    <2> QED
      BY <1>1, <2>4
  <1> QED
    BY <1>4, <1>5, <1>6 DEF RestoreInv

\* One listener is restored: if it does not reach the process that runs, the
\* client has still to hear of that process.
LEMMA RestoreStep ==
    ASSUME RestoreInv, NEW c \in Listener, RestoreListener(c)
    PROVE  RestoreInv'
  <1> USE DEF RestoreInv, ClientTypes
  <1>1. UNCHANGED <<pc, subscribed, notices, cache, late, up, lock, starts>>
    BY DEF RestoreListener, pub, bounds
  <1>2. CASE fault' /\ UNCHANGED <<dhfwkProxy, restoring, items>>
    BY <1>1, <1>2 DEF News, Registered
  <1>3. CASE /\ Proxy # 0 /\ dhfwkProxy' = Proxy /\ UNCHANGED fault /\ restoring' = restoring \ {c}
             /\ IF Reached THEN AddListener(c) ELSE UNCHANGED items
    <2>1. c \in Target /\ items \in [Target -> Nat] /\ Listener \subseteq Target
      BY DEF Target
    <2>2. items' = [items EXCEPT ![c] = @ + 1] \/ items' = items
      BY <1>3 DEF AddListener
    <2>3. /\ items' \in [Target -> Nat] /\ \A l \in Listener \ {c} : items'[l] = items[l]
      BY <2>1, <2>2
    <2>4. Proxy \in Nat /\ Proxy \in {dhfwkProxy, up}
      BY DEF Proxy
    <2>5. ClientTypes'
      BY <1>1, <1>3, <2>3, <2>4
    <2>6. News'
      BY <1>1, <1>3, <2>4 DEF News
    <2>7. Registered'
      <3> SUFFICES ASSUME ~fault, subscribed = "yes", up # 0, notices = <<>>, NEW l \in Listener
                   PROVE  /\ l \in cache \ late => items'[l] > 0 \/ l \in restoring' \/ pc[l] = "uncache"
                          /\ pc[l] = "cache" => items'[l] > 0 \/ l \in late
        BY <1>1, <1>3 DEF Registered
      <3>1. /\ l \in cache \ late => items[l] > 0 \/ l \in restoring \/ pc[l] = "uncache"
            /\ pc[l] = "cache" => items[l] > 0 \/ l \in late
        BY DEF Registered
      <3>2. CASE l # c
        BY <1>3, <2>3, <3>1, <3>2
      <3>3. CASE l = c
        <4>1. Proxy = up
          BY ProxyIsRight
        <4>2. items' = [items EXCEPT ![c] = @ + 1]
          BY <1>3, <4>1 DEF Reached, AddListener
        <4>3. items'[c] > 0
          BY <2>1, <4>2
        <4> QED
          BY <3>3, <4>3
      <3> QED
        BY <3>2, <3>3
    <2> QED
      BY <2>5, <2>6, <2>7
  <1> QED
    BY <1>2, <1>3 DEF RestoreListener

\* Every step keeps the invariant.
LEMMA RestoredStep == RestoreInv /\ [Next]_vars => RestoreInv'
  <1> SUFFICES ASSUME RestoreInv, [Next]_vars PROVE RestoreInv'
    OBVIOUS
  <1>1. ASSUME NEW c \in Caller, NullProxy(c) PROVE RestoreInv'
    <2>1. /\ UNCHANGED <<pc, dhfwkProxy, subscribed, notices, cache, restoring, late, up, items, lock, starts>>
          /\ fault'
      BY <1>1 DEF NullProxy, pub, bounds
    <2> QED
      BY <2>1 DEF RestoreInv, ClientTypes, News, Registered
  <1>2. CASE \E c \in Caller : KitStep(c)
    BY <1>1, <1>2, ListenerStep, CacheStep, CallStep DEF KitStep
  <1>3. CASE OnAddSystemAbility \/ OnRemoveSystemAbility \/ \E l \in Listener : RestoreListener(l)
    BY <1>3, AddStep, RemoveStep, RestoreStep
  <1>4. CASE \/ \E t \in Target : PublishOne(t)
             \/ PublishEnd \/ ComponentInit \/ ComponentUnInit \/ CloseLowLatency
             \/ TimerFires \/ Execute \/ JoinTimer \/ UNCHANGED vars
    BY <1>4, ServiceStep
  <1>5. CASE KitCall
    BY <1>5, CallStep
  <1>6. CASE Die \/ Start
    BY <1>6, ProcessStep
  <1> QED
    BY <1>2, <1>3, <1>4, <1>5, <1>6 DEF Next

\* A listener the client has cached is known to the service that runs once the
\* client has nothing under way and has heard all the news, however often the
\* service died (DHFWKSAManager::RestoreListener), with the two exceptions that
\* the property names.
THEOREM RestoredAtRest == Spec => []ListenersRestored
  <1>1. RestoreInv => ListenersRestored
    BY DEF RestoreInv, ClientTypes, Registered, ListenersRestored, AtRest, Caller
  <1> QED
    BY <1>1, RestoreInit, RestoredStep, PTL DEF Spec
=============================================================================
