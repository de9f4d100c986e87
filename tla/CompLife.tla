------------------------------ MODULE CompLife ------------------------------
(***************************************************************************)
(* The components of the framework and their life: ComponentLoader opens   *)
(* their libraries, ComponentManager::Init starts the source and the sink  *)
(* of every type on detached threads and waits two seconds for each,       *)
(* ComponentMonitor hears of the death of a component's process and        *)
(* ComponentManager recovers it, ComponentPrivacy shows the page that asks *)
(* the user, and UnInit takes everything back, or ends the process when a  *)
(* component does not stop in time.                                        *)
(*                                                                         *)
(* Threads: the one in DistributedHardwareManager::Initialize or Release   *)
(* (pc), one per InitSource/InitSink/ReleaseSource/ReleaseSink (calls),    *)
(* one ffrt task per recovery, the handler of ComponentPrivacy, and the    *)
(* one that delivers OnRemoveSystemAbility.                                *)
(***************************************************************************)
EXTENDS Naturals, FiniteSets

CONSTANTS DHType,
          PrivacyType,  \* the types with a ComponentPrivacy: camera and audio
          NamedType,    \* the types whose source is in saIdProcessNameMap_
          MaxEvents,    \* bound: failures, deaths of components, page events
          MaxLives      \* bound: calls of Initialize

ASSUME LifeAssumption ==
    /\ PrivacyType \subseteq DHType /\ NamedType \subseteq DHType
    /\ {MaxEvents, MaxLives} \subseteq Nat

Side == {"source", "sink"}
Part == DHType \X Side

VARIABLES
    pc,            \* where Initialize or Release is
    waiting,       \* futures that WaitForResult has not looked at
    handlers,      \* compHandlerMap_: libraries that are open
    compSource, compSink, \* compSource_ and compSink_, their types
    listeners,     \* sources with the state and the data sync listener
    saListeners,   \* ComponentMonitor: types whose process is watched
    isUnInitTimeOut,
    calls,         \* detached threads in or before a call of a component
    comp,          \* what runs in the components' processes
    plugin,        \* hardware handlers with a plugin listener
    removed,       \* OnRemoveSystemAbility not delivered yet
    recovers,      \* DoRecover: the type and the futures it waits for
    dead,          \* watched processes that died and were not started again
    privacy, pageFlag, \* the ComponentPrivacy objects, isPrivacePageOpen_
    pageEvents, starting, \* their events; StartPrivacePage before its flag
    page,          \* pages on the screen
    excused,       \* history: why a part may run or a monitor be left
    budget, lives  \* what the bounds leave

managerVars == <<pc, waiting, isUnInitTimeOut, lives>>
mapVars == <<handlers, compSource, compSink, listeners, saListeners>>
partVars == <<calls, comp, plugin>>
recoverVars == <<removed, recovers, dead>>
pageVars == <<privacy, pageFlag, pageEvents, starting, page>>
vars == <<managerVars, mapVars, partVars, recoverVars, pageVars, excused, budget>>

Spend == budget > 0 /\ budget' = budget - 1
Excuse(what, ts) == excused' = excused \cup ({what} \X ts)

\* T is S, or S without one member that a failure takes from it.
Some(S, T) ==
    \/ T = S /\ UNCHANGED budget
    \/ T \subseteq S /\ Cardinality(S \ T) = 1 /\ Spend

CallsOf(op, ps) == {[op |-> op, type |-> p[1], side |-> p[2]] : p \in ps}
Busy(op, p) == \E c \in calls : c.op = op /\ c.type = p[1] /\ c.side = p[2]

\* The process is gone; what runs in the processes of the components stays.
ProcessEnds ==
    /\ pc' = "exited" /\ waiting' = {}
    /\ calls' = {} /\ removed' = {} /\ recovers' = {} /\ starting' = {} /\ pageEvents' = {}

-----------------------------------------------------------------------------
(* ComponentLoader *)

\* GetCompPathAndVersion: the libraries the profile names. ParseConfig finds none
\* when the profile cannot be read or is no list of components.
GetCompPathAndVersion == DHType \X (Side \cup {"hardware"})
ParseConfigFails == handlers' = {} /\ Spend

\* GetAllHandler: GetHandler calls dlopen for every library, which may fail.
GetAllHandler == \E open \in SUBSET GetCompPathAndVersion :
                     Some(GetCompPathAndVersion, open) /\ handlers' = open

\* ComponentLoader::Init, and LocalHardwareManager::Init, which registers the
\* plugin listener with every hardware handler.
LoaderInit ==
    /\ pc = "off" /\ lives > 0
    /\ lives' = lives - 1
    /\ ParseConfigFails \/ GetAllHandler
    /\ plugin' = {t \in DHType : <<t, "hardware">> \in handlers'}
    /\ pc' = "loaded"
    /\ UNCHANGED <<waiting, isUnInitTimeOut, compSource, compSink, listeners, saListeners, calls,
                   comp, recoverVars, pageVars, excused>>

\* GetSource, GetSink and GetHardwareHandler need the type's library; one that
\* has no such class is closed.
GetSource == {t \in DHType : <<t, "source">> \in handlers}
GetSink == {t \in DHType : <<t, "sink">> \in handlers}
GetHardwareHandler(t) == <<t, "hardware">> \in handlers

\* GetDHTypeBySrcSaId finds the type while the map has it.
GetDHTypeBySrcSaId(t) == \E l \in handlers : l[1] = t

\* ReleaseHardwareHandler, ReleaseSource and ReleaseSink of every type, then the
\* map is cleared whatever dlclose answered.
LoaderUnInit ==
    /\ pc = "unload"
    /\ handlers' = {}
    /\ pc' = "off"
    /\ UNCHANGED <<waiting, isUnInitTimeOut, compSource, compSink, listeners, saListeners,
                   partVars, recoverVars, pageVars, excused, budget, lives>>

-----------------------------------------------------------------------------
(* ComponentManager::Init *)

InitCompSource(missing) == compSource' = compSource \cup (GetSource \ missing)
InitCompSink(missing) == compSink' = compSink \cup (GetSink \ missing)

InitComponentHandler ==
    /\ pc = "loaded"
    /\ \E noSource \in SUBSET GetSource, noSink \in SUBSET GetSink :
          /\ \/ noSource = {} /\ noSink = {} /\ UNCHANGED budget
             \/ Cardinality(noSource) + Cardinality(noSink) = 1 /\ Spend
          /\ InitCompSource(noSource)
          /\ InitCompSink(noSink)
          /\ handlers' = handlers \ ((noSource \X {"source"}) \cup (noSink \X {"sink"}))
    /\ pc' = "monitor"
    /\ UNCHANGED <<waiting, isUnInitTimeOut, listeners, saListeners, partVars, recoverVars,
                   pageVars, excused, lives>>

\* ComponentMonitor::AddSAMonitor: a type that is watched already stays so, a
\* subscription may fail.
AddSAMonitor(ts) ==
    \E subscribed \in SUBSET DHType :
        /\ Some(ts \ saListeners, subscribed)
        /\ saListeners' = saListeners \cup subscribed

InitSAMonitor ==
    /\ pc = "monitor"
    /\ AddSAMonitor(compSource)
    /\ pc' = "start"
    /\ UNCHANGED <<waiting, isUnInitTimeOut, handlers, compSource, compSink, listeners, partVars,
                   recoverVars, pageVars, excused, lives>>

\* StartSource and StartSink start a thread per part. The first StartSink of a
\* type with privacy makes its ComponentPrivacy and registers it with the sink.
StartSource == compSource \X {"source"}
StartSink == compSink \X {"sink"}
RegisterPrivacyResources(ts) == privacy' = privacy \cup (ts \cap PrivacyType)

StartComponent ==
    /\ pc = "start"
    /\ calls' = calls \cup CallsOf("init", StartSource \cup StartSink)
    /\ waiting' = StartSource \cup StartSink
    /\ RegisterPrivacyResources(compSink)
    /\ dead' = dead \ compSource
    /\ pc' = "starting"
    /\ UNCHANGED <<isUnInitTimeOut, mapVars, comp, plugin, removed, recovers, pageFlag,
                   pageEvents, starting, page, excused, budget, lives>>

\* RegisterDHStateListener, RegisterDataSyncTriggerListener, InitDHCommTool.
InitEnd ==
    /\ pc = "starting" /\ waiting = {}
    /\ listeners' = compSource
    /\ pc' = "up"
    /\ UNCHANGED <<waiting, isUnInitTimeOut, handlers, compSource, compSink, saListeners,
                   partVars, recoverVars, pageVars, excused, budget, lives>>

-----------------------------------------------------------------------------
(* WaitForResult *)

\* All sources are waited for before the first sink.
Due(p) == p[2] = "source" \/ \A q \in waiting : q[2] = "sink"

\* Seeded fault: no wait is bounded.
WaitForeverInstead(op, p) ==
    /\ ~Busy(op, p)
    /\ UNCHANGED <<isUnInitTimeOut, excused>>

\* Seeded fault: a component that does not stop in time is forgotten.
WaitForgetful(op, p) ==
    /\ UNCHANGED isUnInitTimeOut
    /\ IF Busy(op, p) /\ op = "init" THEN Excuse(p[2], {p[1]}) ELSE UNCHANGED excused

\* One turn of the loop: the future is ready, or its two seconds pass. A part
\* that is late to stop makes UnInit end the process.
WaitOne(op, p) ==
    IF Busy(op, p)
    THEN /\ isUnInitTimeOut' = (isUnInitTimeOut \/ op = "release")
         /\ IF op = "init" THEN Excuse(p[2], {p[1]}) ELSE UNCHANGED excused
    ELSE UNCHANGED <<isUnInitTimeOut, excused>>

WaitForResult ==
    /\ pc \in {"starting", "stopping"}
    /\ \E p \in waiting :
          /\ Due(p)
          /\ WaitOne(IF pc = "starting" THEN "init" ELSE "release", p)
          /\ waiting' = waiting \ {p}
    /\ UNCHANGED <<pc, mapVars, partVars, recoverVars, pageVars, budget, lives>>

-----------------------------------------------------------------------------
(* ComponentManager::UnInit *)

\* UnregisterDHStateListener, UnregisterDataSyncTriggerListener, UnInitDHCommTool.
UnInitBegin ==
    /\ pc = "up"
    /\ listeners' = listeners \ compSource
    /\ pc' = "privacy"
    /\ UNCHANGED <<waiting, isUnInitTimeOut, handlers, compSource, compSink, saListeners,
                   partVars, recoverVars, pageVars, excused, budget, lives>>

\* StopPrivacy closes the pages whose flag is set and clears the flags, also of a
\* page that the ability manager did not close; it shares no lock with the privacy
\* handler, which may have a page open and its flag not set.
StopPrivacy ==
    /\ pc = "privacy"
    /\ \E closed \in SUBSET pageFlag : Some(pageFlag, closed) /\ page' = page \ closed
    /\ pageFlag' = {}
    /\ pc' = "unmonitor"
    /\ UNCHANGED <<waiting, isUnInitTimeOut, mapVars, partVars, recoverVars, privacy, pageEvents,
                   starting, excused, lives>>

\* Seeded fault: the maps are cleared before the monitors are taken from them.
UnInitSAMonitorLate ==
    /\ pc = "unmonitor"
    /\ pc' = "stop"
    /\ UNCHANGED <<waiting, isUnInitTimeOut, mapVars, partVars, recoverVars, pageVars, excused,
                   budget, lives>>

\* ComponentMonitor::RemoveSAMonitor: the listener stays when the service manager
\* does not take it back.
RemoveSAMonitor(ts) ==
    \E gone \in SUBSET DHType :
        /\ Some(ts \cap saListeners, gone)
        /\ saListeners' = saListeners \ gone
        /\ Excuse("monitor", (ts \cap saListeners) \ gone)

UnInitSAMonitor ==
    /\ pc = "unmonitor"
    /\ RemoveSAMonitor(compSource)
    /\ pc' = "stop"
    /\ UNCHANGED <<waiting, isUnInitTimeOut, handlers, compSource, compSink, listeners, partVars,
                   recoverVars, pageVars, lives>>

StopSource == compSource \X {"source"}
StopSink == compSink \X {"sink"}

StopComponent ==
    /\ pc = "stop"
    /\ calls' = calls \cup CallsOf("release", StopSource \cup StopSink)
    /\ waiting' = StopSource \cup StopSink
    /\ pc' = "stopping"
    /\ UNCHANGED <<isUnInitTimeOut, mapVars, comp, plugin, recoverVars, pageVars, excused, budget,
                   lives>>

\* The end of StopComponent and of UnInit.
UnInitEnd ==
    /\ pc = "stopping" /\ waiting = {}
    /\ compSource' = {} /\ compSink' = {}
    /\ IF isUnInitTimeOut
       THEN ProcessEnds
       ELSE pc' = "unload" /\ UNCHANGED <<waiting, calls, removed, recovers, starting, pageEvents>>
    /\ UNCHANGED <<isUnInitTimeOut, handlers, listeners, saListeners, comp, plugin, dead, privacy,
                   pageFlag, page, excused, budget, lives>>

-----------------------------------------------------------------------------
(* Calls of the components: external, they may also never return *)

InitReturns(c) ==
    /\ c.op = "init"
    /\ calls' = calls \ {c}
    /\ \/ comp' = comp \cup {<<c.type, c.side>>} /\ UNCHANGED budget
       \/ Spend /\ UNCHANGED comp
    /\ UNCHANGED <<managerVars, mapVars, plugin, recoverVars, pageVars, excused>>

\* The thread of a sink fulfils its promise first, then takes the plugin listener
\* back through ComponentLoader::GetHardwareHandler.
ReleaseReturns(c) ==
    /\ c.op = "release"
    /\ calls' = (calls \ {c}) \cup
                (IF c.side = "sink" THEN CallsOf("unplug", {<<c.type, "sink">>}) ELSE {})
    /\ \/ comp' = comp \ {<<c.type, c.side>>} /\ UNCHANGED <<budget, excused>>
       \/ Spend /\ Excuse(c.side, {c.type}) /\ UNCHANGED comp
    /\ UNCHANGED <<managerVars, mapVars, plugin, recoverVars, pageVars>>

UnRegisterPluginListener(c) ==
    /\ c.op = "unplug"
    /\ calls' = calls \ {c}
    /\ plugin' = IF GetHardwareHandler(c.type) THEN plugin \ {c.type} ELSE plugin
    /\ UNCHANGED <<managerVars, mapVars, comp, recoverVars, pageVars, excused, budget>>

-----------------------------------------------------------------------------
(* The process of a component dies and is recovered *)

ComponentDies(t) ==
    /\ <<t, "source">> \in comp
    /\ Spend
    /\ comp' = comp \ ({t} \X Side)
    /\ removed' = removed \cup ({t} \cap saListeners)
    /\ dead' = dead \cup ({t} \cap saListeners)
    /\ UNCHANGED <<managerVars, mapVars, calls, plugin, recovers, pageVars, excused>>

\* OnRemoveSystemAbility: GetDHTypeBySrcSaId, the name of the process, whose end is
\* waited for, then Recover submits DoRecover.
OnRemoveSystemAbility(t) ==
    /\ t \in removed
    /\ removed' = removed \ {t}
    /\ recovers' = IF ~GetDHTypeBySrcSaId(t) \/ t \notin NamedType THEN recovers
                   ELSE recovers \cup {[type |-> t, at |-> "restart", parts |-> {}]}
    /\ UNCHANGED <<managerVars, mapVars, partVars, dead, pageVars, excused, budget>>

\* Seeded fault: the hardware is enabled in a component that was not started.
ReStartNothing(t) == {}

\* StartSource(dhType) and StartSink(dhType): nothing for a type without the part.
StartSourceOf(t) == (compSource \cap {t}) \X {"source"}
StartSinkOf(t) == (compSink \cap {t}) \X {"sink"}
ReStartSA(t) == StartSourceOf(t) \cup StartSinkOf(t)

DoRecover(r) ==
    /\ r.at = "restart"
    /\ LET parts == ReStartSA(r.type) IN
       /\ recovers' = (recovers \ {r}) \cup {[r EXCEPT !.at = "wait", !.parts = parts]}
       /\ calls' = calls \cup CallsOf("lookup", parts)
       /\ excused' = excused \cup {<<p[2], p[1]>> : p \in parts}
       /\ RegisterPrivacyResources({p[1] : p \in {q \in parts : q[2] = "sink"}})
    /\ UNCHANGED <<managerVars, mapVars, comp, plugin, removed, dead, pageFlag, pageEvents,
                   starting, page, budget>>

\* The thread of StartSource(dhType) reads compSource_[dhType] when it runs: once
\* UnInit has cleared the map that is a null pointer, and the process ends.
LookUpComponent(c) ==
    /\ c.op = "lookup"
    /\ IF c.type \in (IF c.side = "source" THEN compSource ELSE compSink)
       THEN /\ calls' = (calls \ {c}) \cup {[c EXCEPT !.op = "init"]}
            /\ UNCHANGED <<pc, waiting, removed, recovers, starting, pageEvents>>
       ELSE ProcessEnds
    /\ UNCHANGED <<isUnInitTimeOut, mapVars, comp, plugin, dead, privacy, pageFlag, page, excused,
                   budget, lives>>

\* WaitForResult of ReStartSA, then RecoverDistributedHardware pushes an
\* EnableTask for all hardware of the type.
RecoverDistributedHardware(r) ==
    /\ r.at = "wait"
    /\ recovers' = recovers \ {r}
    /\ dead' = IF <<r.type, "source">> \in r.parts THEN dead \ {r.type} ELSE dead
    /\ UNCHANGED <<managerVars, mapVars, partVars, removed, pageVars, excused, budget>>

-----------------------------------------------------------------------------
(* ComponentPrivacy *)

\* OnPrivaceResourceMessage from a running sink: HandlePullUpPage posts
\* COMP_START_PAGE, HandleClosePage posts COMP_STOP_PAGE with a delay.
OnPrivaceResourceMessage(t) ==
    /\ t \in privacy /\ <<t, "sink">> \in comp
    /\ pc # "exited" /\ Spend
    /\ \E type \in {"start", "stop"} : pageEvents' = pageEvents \cup {<<type, t>>}
    /\ UNCHANGED <<managerVars, mapVars, partVars, recoverVars, privacy, pageFlag, starting, page,
                   excused>>

\* The handler of a ComponentPrivacy takes its next event; COMP_STOP_PAGE was
\* posted with a delay, so that the order of the two is open.
ProcessEvent(event) ==
    /\ event \in pageEvents /\ event[2] \notin starting
    /\ pageEvents' = pageEvents \ {event}
    /\ UNCHANGED <<managerVars, mapVars, partVars, recoverVars, privacy, excused>>

ProcessStartPage(t) == ProcessEvent(<<"start", t>>)
ProcessStopPage(t) == ProcessEvent(<<"stop", t>>)

\* StartPrivacePage has the ability manager show the page and then sets the flag,
\* shown or not; without a client of the ability manager it does neither.
StartPrivacePage(t) ==
    /\ ProcessStartPage(t)
    /\ UNCHANGED pageFlag
    /\ \/ page' = page \cup {t} /\ starting' = starting \cup {t} /\ UNCHANGED budget
       \/ Spend /\ UNCHANGED page /\ starting' \in {starting, starting \cup {t}}

SetPageFlagTrue(t) ==
    /\ t \in starting
    /\ starting' = starting \ {t}
    /\ pageFlag' = pageFlag \cup {t}
    /\ UNCHANGED <<managerVars, mapVars, partVars, recoverVars, privacy, pageEvents, page,
                   excused, budget>>

\* StopPrivacePage has it closed and clears the flag, closed or not.
StopPrivacePage(t) ==
    /\ ProcessStopPage(t)
    /\ UNCHANGED starting
    /\ \/ page' = page \ {t} /\ pageFlag' = pageFlag \ {t} /\ UNCHANGED budget
       \/ Spend /\ UNCHANGED page /\ pageFlag' \in {pageFlag, pageFlag \ {t}}

-----------------------------------------------------------------------------
(* Specification *)

Init ==
    /\ pc = "off" /\ waiting = {} /\ isUnInitTimeOut = FALSE
    /\ handlers = {} /\ compSource = {} /\ compSink = {} /\ listeners = {} /\ saListeners = {}
    /\ calls = {} /\ comp = {} /\ plugin = {}
    /\ removed = {} /\ recovers = {} /\ dead = {}
    /\ privacy = {} /\ pageFlag = {} /\ pageEvents = {} /\ starting = {} /\ page = {}
    /\ excused = {}
    /\ budget = MaxEvents /\ lives = MaxLives

\* The thread in Initialize or Release; nothing says when Release is called.
Starting ==
    \/ InitComponentHandler \/ InitSAMonitor \/ StartComponent \/ WaitForResult \/ InitEnd
Stopping == StopPrivacy \/ UnInitSAMonitor \/ StopComponent \/ UnInitEnd \/ LoaderUnInit
Manager == Starting \/ Stopping

Components ==
    \E c \in calls : InitReturns(c) \/ ReleaseReturns(c) \/ UnRegisterPluginListener(c)

Recovery ==
    \/ \E t \in DHType : OnRemoveSystemAbility(t)
    \/ \E r \in recovers : DoRecover(r) \/ RecoverDistributedHardware(r)

Pages ==
    \E t \in PrivacyType :
        \/ OnPrivaceResourceMessage(t)
        \/ StartPrivacePage(t) \/ SetPageFlagTrue(t) \/ StopPrivacePage(t)

Next ==
    \/ LoaderInit \/ UnInitBegin \/ Manager
    \/ Components \/ (\E c \in calls : LookUpComponent(c))
    \/ (\E t \in DHType : ComponentDies(t)) \/ Recovery
    \/ Pages

\* Threads of the framework make progress; a call of a component need not return.
Spec == Init /\ [][Next]_vars /\ WF_vars(Manager) /\ WF_vars(Recovery)

-----------------------------------------------------------------------------
(* Properties *)

\* Types; and no source keeps a listener once the manager has forgotten it.
TypeOK ==
    /\ waiting \subseteq Part /\ comp \subseteq Part
    /\ handlers \subseteq DHType \X (Side \cup {"hardware"})
    /\ {compSource, compSink, listeners, saListeners, plugin, removed, dead} \subseteq SUBSET DHType
    /\ \A c \in calls : c.op \in {"init", "release", "unplug", "lookup"} /\ <<c.type, c.side>> \in Part
    /\ {privacy, pageFlag, starting, page} \subseteq SUBSET PrivacyType
    /\ isUnInitTimeOut \in BOOLEAN
    /\ listeners \subseteq compSource

\* When Release is through without having ended the process, no ReleaseSource or
\* ReleaseSink is under way, and a part still runs only because its release
\* failed, its start took longer than the two seconds Init waits for it, or it
\* was being recovered: "Some component stop timeout, FORCE exit!".
OffMeansReleased ==
    pc = "off" =>
        /\ \A c \in calls : c.op # "release"
        /\ \A p \in comp : <<p[2], p[1]>> \in excused

\* After Release no component's process is watched, unless the service manager
\* refused to take the listener back: a late OnRemoveSystemAbility would recover a
\* component of a framework that is down.
MonitorsRemoved == pc = "off" => \A t \in saListeners : <<"monitor", t>> \in excused

\* Init and UnInit come back, or end the process, even if a component never
\* answers: WaitForResult bounds every wait.
InitAndUnInitReturn == pc \notin {"off", "up", "exited"} ~> pc \in {"off", "up", "exited"}

\* The death of a loaded component's watched process leads to a new start of it
\* and to the enabling of its hardware, unless the framework is released or the
\* monitor does not know the name of the process.
DeathIsRecovered ==
    \A t \in NamedType : t \in dead \cap compSource ~> t \notin dead \/ pc # "up"
=============================================================================
