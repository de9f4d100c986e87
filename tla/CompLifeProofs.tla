--------------------------- MODULE CompLifeProofs ---------------------------
(***************************************************************************)
(* That Release leaves no component and no watch on a process behind, but  *)
(* for the failures and the races that `excused` records, for every set of *)
(* types and any number of failures and lives.                             *)
(*                                                                         *)
(* What is left behind is a matter of where the manager is. The invariant  *)
(* says of each place what still has a reason to be there: between         *)
(* StartComponent and StopComponent a part may run because it was started, *)
(* and while UnInit waits because its release is under way; a watch is     *)
(* kept while the source is loaded.                                        *)
(*                                                                         *)
(* The second part is about module CompOps: that a call which returns      *)
(* success leaves the hardware as it asked for, for any number of calls    *)
(* and tries. The invariant says what the requests still with the          *)
(* component are: those of a call that runs alone come last, and once it   *)
(* has been answered with success there are no others.                     *)
(***************************************************************************)
EXTENDS CompLife, SequenceTheorems, TLAPS

Op == {"init", "release", "unplug", "lookup"}
CallRecord == [op : Op, type : DHType, side : Side]

Place == {"off", "loaded", "monitor", "start", "starting", "up", "privacy", "unmonitor", "stop",
          "stopping", "unload", "exited"}

LifeTypes ==
    /\ pc \in Place /\ isUnInitTimeOut \in BOOLEAN
    /\ calls \subseteq CallRecord /\ comp \subseteq Part /\ waiting \subseteq Part
    /\ compSource \subseteq DHType /\ compSink \subseteq DHType /\ handlers \subseteq GetCompPathAndVersion
    /\ saListeners \subseteq DHType

\* The parts of the loaded components.
Loaded == StartSource \cup StartSink

Excused(p) == <<p[2], p[1]>> \in excused

\* A start that the manager does not wait for, or no longer, is excused.
StartsWaitedFor ==
    \A p \in Part : Busy("init", p) => Excused(p) \/ (pc = "starting" /\ p \in waiting)

\* A part runs for a reason.
PartsHaveReason ==
    \A p \in comp :
        \/ Excused(p)
        \/ pc \in {"starting", "up", "privacy", "unmonitor", "stop"} /\ p \in Loaded
        \/ pc = "stopping" /\ Busy("release", p)

\* UnInit waits for each release, or has given up on one.
ReleasesWaitedFor ==
    \A p \in Part : Busy("release", p) => pc = "stopping" /\ (p \in waiting \/ isUnInitTimeOut)

PartsInv ==
    /\ pc = "starting" => waiting \subseteq Loaded
    /\ isUnInitTimeOut => pc = "stopping"
    /\ \A p \in Part : Busy("lookup", p) => Excused(p)
    /\ StartsWaitedFor /\ PartsHaveReason /\ ReleasesWaitedFor

\* A watch is kept for a loaded source until UnInitSAMonitor.
WatchInv ==
    \A t \in saListeners :
        \/ <<"monitor", t>> \in excused
        \/ pc \in {"monitor", "start", "starting", "up", "privacy", "unmonitor"} /\ t \in compSource

LifeInv == LifeTypes /\ (pc # "exited" => PartsInv /\ WatchInv)

-----------------------------------------------------------------------------
(* Types *)

\* Nothing is loaded or started at first.
LEMMA InitTypes == Init => LifeTypes
  BY DEF Init, LifeTypes, Place

\* Every step keeps the types.
LEMMA TypesStep ==
    ASSUME LifeTypes, [Next]_vars
    PROVE  LifeTypes'
  <1> USE DEF LifeTypes, Place
  <1> USE DEF managerVars, mapVars, partVars, recoverVars, pageVars
  <1>1. CASE LoaderInit
    BY <1>1 DEF LoaderInit, ParseConfigFails, GetAllHandler, Some
  <1>2. CASE InitComponentHandler
    BY <1>2 DEF InitComponentHandler, InitCompSource, InitCompSink, GetSource, GetSink
  <1>3. CASE InitSAMonitor
    BY <1>3 DEF InitSAMonitor, AddSAMonitor
  <1>4. CASE StartComponent
    BY <1>4 DEF StartComponent, CallsOf, StartSource, StartSink, CallRecord, Op, Part, Side
  <1>5. CASE InitEnd \/ UnInitBegin \/ StopPrivacy \/ UnInitSAMonitor \/ LoaderUnInit
    BY <1>5 DEF InitEnd, UnInitBegin, StopPrivacy, UnInitSAMonitor, RemoveSAMonitor, LoaderUnInit
  <1>6. CASE WaitForResult
    BY <1>6 DEF WaitForResult, WaitOne
  <1>7. CASE StopComponent
    BY <1>7 DEF StopComponent, CallsOf, StopSource, StopSink, CallRecord, Op, Part, Side
  <1>8. CASE UnInitEnd
    BY <1>8 DEF UnInitEnd, ProcessEnds
  <1>9. ASSUME NEW c \in calls, InitReturns(c) PROVE LifeTypes'
    BY <1>9 DEF InitReturns, CallRecord, Part
  <1>10. ASSUME NEW c \in calls, ReleaseReturns(c) PROVE LifeTypes'
    BY <1>10 DEF ReleaseReturns, CallsOf, CallRecord, Op, Side
  <1>11. ASSUME NEW c \in calls, UnRegisterPluginListener(c) PROVE LifeTypes'
    BY <1>11 DEF UnRegisterPluginListener
  <1>12. ASSUME NEW c \in calls, LookUpComponent(c) PROVE LifeTypes'
    BY <1>12 DEF LookUpComponent, ProcessEnds, CallRecord, Op
  <1>13. ASSUME NEW t \in DHType, ComponentDies(t) PROVE LifeTypes'
    BY <1>13 DEF ComponentDies
  <1>14. ASSUME NEW r \in recovers, DoRecover(r) PROVE LifeTypes'
    BY <1>14 DEF DoRecover, CallsOf, ReStartSA, StartSourceOf, StartSinkOf, CallRecord, Op, Side
  <1>15. CASE Pages \/ UNCHANGED vars
    BY <1>15 DEF Pages, OnPrivaceResourceMessage, StartPrivacePage, SetPageFlagTrue,
                 StopPrivacePage, ProcessStartPage, ProcessStopPage, ProcessEvent, vars
  <1>16. CASE \/ \E t \in DHType : OnRemoveSystemAbility(t)
              \/ \E r \in recovers : RecoverDistributedHardware(r)
    BY <1>16 DEF OnRemoveSystemAbility, RecoverDistributedHardware
  <1> QED
    BY <1>1, <1>2, <1>3, <1>4, <1>5, <1>6, <1>7, <1>8, <1>9, <1>10, <1>11, <1>12, <1>13, <1>14, <1>15,
       <1>16 DEF Next, Manager, Starting, Stopping, Components, Recovery

-----------------------------------------------------------------------------
(* Watches *)

\* A watch is added for loaded sources only and goes before they are forgotten.
LEMMA WatchStep ==
    ASSUME LifeTypes, WatchInv, [Next]_vars, pc # "exited", pc' # "exited"
    PROVE  WatchInv'
  <1> USE DEF WatchInv, managerVars, mapVars, partVars, recoverVars, pageVars
  <1>1. CASE LoaderInit
    BY <1>1 DEF LoaderInit
  <1>2. CASE InitComponentHandler
    BY <1>2 DEF InitComponentHandler
  <1>3. CASE InitSAMonitor
    BY <1>3 DEF InitSAMonitor, AddSAMonitor, Some
  <1>4. CASE StartComponent \/ InitEnd \/ UnInitBegin \/ StopComponent \/ LoaderUnInit
    BY <1>4 DEF StartComponent, InitEnd, UnInitBegin, StopComponent, LoaderUnInit
  <1>5. CASE WaitForResult
    BY <1>5 DEF WaitForResult, WaitOne, Excuse
  <1>6. CASE StopPrivacy
    BY <1>6 DEF StopPrivacy, Excuse
  <1>7. CASE UnInitSAMonitor
    BY <1>7 DEF UnInitSAMonitor, RemoveSAMonitor, Excuse
  <1>8. CASE UnInitEnd
    BY <1>8 DEF UnInitEnd, ProcessEnds
  <1>9. CASE Components
    BY <1>9 DEF Components, InitReturns, ReleaseReturns, UnRegisterPluginListener, Excuse
  <1>10. ASSUME NEW c \in calls, LookUpComponent(c) PROVE WatchInv'
    BY <1>10 DEF LookUpComponent, ProcessEnds
  <1>11. CASE Recovery \/ \E t \in DHType : ComponentDies(t)
    BY <1>11 DEF Recovery, OnRemoveSystemAbility, DoRecover, RecoverDistributedHardware, ComponentDies
  <1>12. CASE Pages \/ UNCHANGED vars
    BY <1>12 DEF Pages, OnPrivaceResourceMessage, StartPrivacePage, SetPageFlagTrue,
                 StopPrivacePage, ProcessStartPage, ProcessStopPage, ProcessEvent, vars
  <1> QED
    BY <1>1, <1>2, <1>3, <1>4, <1>5, <1>6, <1>7, <1>8, <1>9, <1>10, <1>11, <1>12
    DEF Next, Manager, Starting, Stopping

-----------------------------------------------------------------------------
(* Parts *)

\* The calls that StartComponent, StopComponent and DoRecover add.
LEMMA CallsAdded ==
    ASSUME NEW o \in Op, NEW ps \in SUBSET Part, calls' = calls \cup CallsOf(o, ps), NEW q \in Op, NEW p \in Part
    PROVE  Busy(q, p)' <=> Busy(q, p) \/ (q = o /\ p \in ps)
  <1>1. \A c \in CallsOf(o, ps) : c.op = o /\ <<c.type, c.side>> \in ps
    BY DEF CallsOf, Part
  <1>2. p \in ps => [op |-> o, type |-> p[1], side |-> p[2]] \in CallsOf(o, ps)
    BY DEF CallsOf
  <1>3. p = <<p[1], p[2]>>
    BY DEF Part
  <1> QED
    BY <1>1, <1>2, <1>3 DEF Busy

\* A call that returns leaves the others as they were.
LEMMA CallEnds ==
    ASSUME NEW c \in CallRecord, calls \subseteq CallRecord, calls' = calls \ {c}, NEW q \in Op, NEW p \in Part
    PROVE  Busy(q, p)' <=> Busy(q, p) /\ ~(q = c.op /\ p = <<c.type, c.side>>)
  <1>1. \A d \in calls : d.op = c.op /\ d.type = c.type /\ d.side = c.side => d = c
    BY DEF CallRecord
  <1>2. p = <<p[1], p[2]>>
    BY DEF Part
  <1> QED
    BY <1>1, <1>2 DEF Busy

\* The reasons are the same when nothing they speak of has changed.
LEMMA PartsSame ==
    ASSUME PartsInv, UNCHANGED <<waiting, isUnInitTimeOut, calls, comp, compSource, compSink>>,
           excused \subseteq excused', pc' = pc
    PROVE  PartsInv'
  BY DEF PartsInv, Loaded, StartSource, StartSink, Excused, StartsWaitedFor, PartsHaveReason, ReleasesWaitedFor, Busy

\* Every step but the end of the process keeps the reasons.
LEMMA PartsStep ==
    ASSUME LifeTypes, PartsInv, [Next]_vars, pc # "exited", pc' # "exited"
    PROVE  PartsInv'
  <1> USE DEF managerVars, mapVars, partVars, recoverVars, pageVars
  <1>1. CASE LoaderInit
    BY <1>1 DEF LoaderInit, PartsInv, Loaded, Excused, StartsWaitedFor, PartsHaveReason, ReleasesWaitedFor, Busy
  <1>2. CASE InitComponentHandler
    BY <1>2 DEF InitComponentHandler, PartsInv, Loaded, Excused, StartsWaitedFor, PartsHaveReason,
                ReleasesWaitedFor, Busy
  <1>3. CASE InitSAMonitor
    BY <1>3 DEF InitSAMonitor, PartsInv, Loaded, Excused, StartsWaitedFor, PartsHaveReason, ReleasesWaitedFor,
                Busy
  <1>4. CASE StartComponent
    <2>1. /\ pc = "start" /\ pc' = "starting" /\ waiting' = Loaded /\ Loaded' = Loaded
          /\ calls' = calls \cup CallsOf("init", Loaded)
          /\ UNCHANGED <<isUnInitTimeOut, comp, excused>>
      BY <1>4 DEF StartComponent, Loaded, StartSource, StartSink
    <2>2. Loaded \in SUBSET Part
      BY DEF LifeTypes, Loaded, StartSource, StartSink, Part, Side
    <2>3. \A p \in Part : /\ Busy("init", p)' <=> Busy("init", p) \/ p \in Loaded
                          /\ Busy("release", p)' <=> Busy("release", p)
                          /\ Busy("lookup", p)' <=> Busy("lookup", p)
      BY <2>1, <2>2, CallsAdded DEF Op
    <2> QED
      BY <2>1, <2>2, <2>3 DEF PartsInv, Excused, StartsWaitedFor, PartsHaveReason, ReleasesWaitedFor
  <1>5. CASE InitEnd
    BY <1>5 DEF InitEnd, PartsInv, Loaded, StartSource, StartSink, Excused, StartsWaitedFor, PartsHaveReason,
                ReleasesWaitedFor, Busy
  <1>6. CASE UnInitBegin
    BY <1>6 DEF UnInitBegin, PartsInv, Loaded, StartSource, StartSink, Excused, StartsWaitedFor,
                PartsHaveReason, ReleasesWaitedFor, Busy
  <1>7. CASE StopPrivacy
    BY <1>7 DEF StopPrivacy, Excuse, PartsInv, Loaded, StartSource, StartSink, Excused, StartsWaitedFor,
                PartsHaveReason, ReleasesWaitedFor, Busy
  <1>8. CASE UnInitSAMonitor
    BY <1>8 DEF UnInitSAMonitor, RemoveSAMonitor, Excuse, PartsInv, Loaded, StartSource, StartSink, Excused,
                StartsWaitedFor, PartsHaveReason, ReleasesWaitedFor, Busy
  <1>9. CASE StopComponent
    <2>1. /\ pc = "stop" /\ pc' = "stopping" /\ waiting' = Loaded /\ Loaded' = Loaded
          /\ calls' = calls \cup CallsOf("release", Loaded)
          /\ UNCHANGED <<isUnInitTimeOut, comp, excused>>
      BY <1>9 DEF StopComponent, Loaded, StopSource, StopSink, StartSource, StartSink
    <2>2. Loaded \in SUBSET Part
      BY DEF LifeTypes, Loaded, StartSource, StartSink, Part, Side
    <2>3. \A p \in Part : /\ Busy("init", p)' <=> Busy("init", p)
                          /\ Busy("release", p)' <=> Busy("release", p) \/ p \in Loaded
                          /\ Busy("lookup", p)' <=> Busy("lookup", p)
      BY <2>1, <2>2, CallsAdded DEF Op
    <2> QED
      BY <2>1, <2>2, <2>3 DEF PartsInv, Excused, StartsWaitedFor, PartsHaveReason, ReleasesWaitedFor
  <1>10. CASE UnInitEnd
    <2>1. /\ pc = "stopping" /\ waiting = {} /\ ~isUnInitTimeOut /\ pc' = "unload"
          /\ UNCHANGED <<waiting, calls, isUnInitTimeOut, comp, excused>>
      BY <1>10 DEF UnInitEnd, ProcessEnds
    <2>2. \A p \in Part : ~Busy("release", p)
      BY <2>1 DEF PartsInv, ReleasesWaitedFor
    <2> QED
      BY <2>1, <2>2 DEF LifeTypes, PartsInv, Excused, StartsWaitedFor, PartsHaveReason, ReleasesWaitedFor, Busy
  <1>11. CASE LoaderUnInit
    BY <1>11 DEF LoaderUnInit, PartsInv, Loaded, Excused, StartsWaitedFor, PartsHaveReason, ReleasesWaitedFor,
                 Busy
  <1>12. CASE WaitForResult
    <2>1. PICK p \in waiting : /\ WaitOne(IF pc = "starting" THEN "init" ELSE "release", p)
                               /\ waiting' = waiting \ {p}
      BY <1>12 DEF WaitForResult
    <2>2. /\ pc \in {"starting", "stopping"} /\ Loaded' = Loaded
          /\ UNCHANGED <<pc, calls, comp>>
      BY <1>12 DEF WaitForResult, Loaded, StartSource, StartSink
    <2>3. p \in Part
      BY DEF LifeTypes
    <2>4. CASE pc = "starting"
      <3>1. excused \subseteq excused'
        BY <2>1, <2>4 DEF WaitOne, Excuse
      <3>2. ~isUnInitTimeOut'
        <4>1. ~isUnInitTimeOut /\ "init" # "release"
          BY <2>4 DEF PartsInv
        <4> QED
          BY <2>1, <2>4, <4>1, Zenon DEF WaitOne
      <3>3. Busy("init", p) => Excused(p)'
        BY <2>1, <2>4 DEF WaitOne, Excuse, Excused
      <3> QED
        BY <2>1, <2>2, <2>4, <3>1, <3>2, <3>3
        DEF PartsInv, Excused, StartsWaitedFor, PartsHaveReason, ReleasesWaitedFor, Busy
    <2>5. CASE pc = "stopping"
      <3>1. /\ excused' = excused /\ isUnInitTimeOut \in BOOLEAN
            /\ isUnInitTimeOut' = (isUnInitTimeOut \/ Busy("release", p))
        BY <2>1, <2>5, Zenon DEF WaitOne, LifeTypes
      <3> QED
        BY <2>1, <2>2, <2>5, <3>1
        DEF PartsInv, Excused, StartsWaitedFor, PartsHaveReason, ReleasesWaitedFor, Busy
    <2> QED
      BY <2>2, <2>4, <2>5
  <1>13. ASSUME NEW c \in calls, InitReturns(c) PROVE PartsInv'
    <2> DEFINE p == <<c.type, c.side>>
    <2>1. /\ c.op = "init" /\ calls' = calls \ {c} /\ c \in CallRecord /\ p \in Part
          /\ comp' \subseteq comp \cup {p}
          /\ Loaded' = Loaded /\ UNCHANGED <<pc, waiting, isUnInitTimeOut, excused>>
      BY <1>13 DEF LifeTypes, InitReturns, Loaded, StartSource, StartSink, CallRecord, Part
    <2>2. \A q \in Part : /\ Busy("init", q)' => Busy("init", q)
                          /\ Busy("release", q)' <=> Busy("release", q)
                          /\ Busy("lookup", q)' <=> Busy("lookup", q)
      BY <2>1, CallEnds DEF Op, LifeTypes
    <2>3. Busy("init", p)
      BY <2>1 DEF Busy
    <2>4. Excused(p) \/ (pc = "starting" /\ p \in Loaded)
      BY <2>1, <2>3 DEF PartsInv, StartsWaitedFor
    <2> HIDE DEF p
    <2> QED
      BY <2>1, <2>2, <2>4 DEF LifeTypes, PartsInv, Excused, StartsWaitedFor, PartsHaveReason, ReleasesWaitedFor
  <1>14. ASSUME NEW c \in calls, ReleaseReturns(c) PROVE PartsInv'
    <2> DEFINE p == <<c.type, c.side>>
    <2>1. /\ c.op = "release" /\ c \in CallRecord /\ p \in Part
          /\ \/ comp' = comp \ {p} /\ UNCHANGED excused
             \/ comp' = comp /\ Excused(p)' /\ excused \subseteq excused'
          /\ Loaded' = Loaded /\ UNCHANGED <<pc, waiting, isUnInitTimeOut>>
      BY <1>14 DEF LifeTypes, ReleaseReturns, Excuse, Excused, Loaded, StartSource, StartSink, CallRecord, Part
    <2>2. \A q \in Part : /\ Busy("init", q)' <=> Busy("init", q)
                          /\ Busy("release", q)' => Busy("release", q)
                          /\ Busy("release", q) /\ q # p => Busy("release", q)'
                          /\ Busy("lookup", q)' <=> Busy("lookup", q)
      BY <1>14, <2>1 DEF LifeTypes, ReleaseReturns, CallsOf, Busy, CallRecord, Part
    <2> HIDE DEF p
    <2> QED
      BY <2>1, <2>2 DEF LifeTypes, PartsInv, Excused, StartsWaitedFor, PartsHaveReason, ReleasesWaitedFor
  <1>15. ASSUME NEW c \in calls, UnRegisterPluginListener(c) PROVE PartsInv'
    <2>1. /\ c.op = "unplug" /\ calls' = calls \ {c} /\ Loaded' = Loaded
          /\ UNCHANGED <<pc, waiting, isUnInitTimeOut, excused, comp>>
      BY <1>15 DEF UnRegisterPluginListener, Loaded, StartSource, StartSink
    <2>2. \A o \in Op \ {"unplug"}, q \in Part : Busy(o, q)' <=> Busy(o, q)
      BY <2>1, CallEnds DEF LifeTypes, Op
    <2> QED
      BY <2>1, <2>2 DEF LifeTypes, PartsInv, Excused, StartsWaitedFor, PartsHaveReason, ReleasesWaitedFor, Op
  <1>16. ASSUME NEW c \in calls, LookUpComponent(c) PROVE PartsInv'
    <2> DEFINE p == <<c.type, c.side>>
    <2>1. /\ c.op = "lookup" /\ c \in CallRecord /\ p \in Part
          /\ calls' = (calls \ {c}) \cup {[c EXCEPT !.op = "init"]}
          /\ Loaded' = Loaded /\ UNCHANGED <<pc, waiting, isUnInitTimeOut, excused, comp>>
      BY <1>16 DEF LifeTypes, LookUpComponent, ProcessEnds, Loaded, StartSource, StartSink, CallRecord, Part
    <2>2. \A q \in Part : /\ Busy("init", q)' => Busy("init", q) \/ q = p
                          /\ Busy("release", q)' <=> Busy("release", q)
                          /\ Busy("lookup", q)' => Busy("lookup", q)
      BY <2>1 DEF Busy, CallRecord, Part
    <2>3. Excused(p)
      BY <2>1 DEF PartsInv, Busy
    <2> HIDE DEF p
    <2> QED
      BY <2>1, <2>2, <2>3 DEF LifeTypes, PartsInv, Excused, StartsWaitedFor, PartsHaveReason, ReleasesWaitedFor
  <1>17. ASSUME NEW r \in recovers, DoRecover(r) PROVE PartsInv'
    <2> DEFINE ps == ReStartSA(r.type)
    <2>1. /\ calls' = calls \cup CallsOf("lookup", ps)
          /\ excused' = excused \cup {<<p[2], p[1]>> : p \in ps}
          /\ Loaded' = Loaded /\ UNCHANGED <<pc, waiting, isUnInitTimeOut, comp>>
      BY <1>17 DEF DoRecover, Loaded, StartSource, StartSink
    <2>2. ps \in SUBSET Part
      BY DEF LifeTypes, ReStartSA, StartSourceOf, StartSinkOf, Part, Side
    <2> HIDE DEF ps
    <2>3. \A q \in Part : /\ Busy("init", q)' <=> Busy("init", q)
                          /\ Busy("release", q)' <=> Busy("release", q)
                          /\ Busy("lookup", q)' <=> Busy("lookup", q) \/ q \in ps
      BY <2>1, <2>2, CallsAdded DEF Op
    <2>4. \A q \in ps : Excused(q)'
      BY <2>1 DEF Excused
    <2> QED
      BY <2>1, <2>2, <2>3, <2>4
      DEF LifeTypes, PartsInv, Excused, StartsWaitedFor, PartsHaveReason, ReleasesWaitedFor
  <1>18. ASSUME NEW t \in DHType, ComponentDies(t) PROVE PartsInv'
    BY <1>18 DEF ComponentDies, PartsInv, Loaded, StartSource, StartSink, Excused, StartsWaitedFor,
                 PartsHaveReason, ReleasesWaitedFor, Busy
  <1>19. CASE \/ \E t \in DHType : OnRemoveSystemAbility(t)
              \/ \E r \in recovers : RecoverDistributedHardware(r)
    BY <1>19, PartsSame DEF OnRemoveSystemAbility, RecoverDistributedHardware
  <1>20. CASE Pages \/ UNCHANGED vars
    BY <1>20, PartsSame DEF Pages, OnPrivaceResourceMessage, StartPrivacePage, SetPageFlagTrue,
                            StopPrivacePage, ProcessStartPage, ProcessStopPage, ProcessEvent, vars
  <1> QED
    BY <1>1, <1>2, <1>3, <1>4, <1>5, <1>6, <1>7, <1>8, <1>9, <1>10, <1>11, <1>12, <1>13, <1>14, <1>15,
       <1>16, <1>17, <1>18, <1>19, <1>20 DEF Next, Manager, Starting, Stopping, Components, Recovery

-----------------------------------------------------------------------------
(* The invariant *)

\* The process that has ended does nothing that concerns its manager any more.
LEMMA ExitIsFinal ==
    ASSUME LifeTypes, [Next]_vars, pc = "exited"
    PROVE  pc' = "exited"
  <1> USE DEF managerVars
  <1>1. CASE LoaderInit \/ UnInitBegin \/ Manager
    BY <1>1 DEF LoaderInit, UnInitBegin, Manager, Starting, Stopping, InitComponentHandler, InitSAMonitor,
                StartComponent, WaitForResult, InitEnd, StopPrivacy, UnInitSAMonitor, StopComponent,
                UnInitEnd, LoaderUnInit
  <1>2. CASE Components \/ \E c \in calls : LookUpComponent(c)
    BY <1>2 DEF Components, InitReturns, ReleaseReturns, UnRegisterPluginListener, LookUpComponent, ProcessEnds
  <1>3. CASE Recovery \/ \E t \in DHType : ComponentDies(t)
    BY <1>3 DEF Recovery, OnRemoveSystemAbility, DoRecover, RecoverDistributedHardware, ComponentDies
  <1>4. CASE Pages \/ UNCHANGED vars
    BY <1>4 DEF Pages, OnPrivaceResourceMessage, StartPrivacePage, SetPageFlagTrue,
                 StopPrivacePage, ProcessStartPage, ProcessStopPage, ProcessEvent, vars
  <1> QED
    BY <1>1, <1>2, <1>3, <1>4 DEF Next

\* What the two properties rest on, for every instance.
THEOREM LifeInvariant == Spec => []LifeInv
  <1>1. Init => LifeInv
    <2>1. Init => PartsInv
      BY DEF Init, PartsInv, StartsWaitedFor, PartsHaveReason, ReleasesWaitedFor, Busy
    <2> QED
      BY <2>1, InitTypes DEF Init, LifeInv, WatchInv
  <1>2. LifeInv /\ [Next]_vars => LifeInv'
    BY TypesStep, WatchStep, PartsStep, ExitIsFinal DEF LifeInv
  <1> QED
    BY <1>1, <1>2, PTL DEF Spec

\* ComponentManager::UnInit waits for every release or ends the process: when the
\* service is off no release is under way, and a part that still runs was late to
\* start, failed to stop or was being recovered.
THEOREM ReleasedWhenOff == Spec => []OffMeansReleased
  <1>1. LifeInv => OffMeansReleased
    <2> SUFFICES ASSUME LifeInv, pc = "off"
                 PROVE  (\A c \in calls : c.op # "release") /\ \A p \in comp : Excused(p)
      BY DEF OffMeansReleased, Excused
    <2>1. PartsInv /\ LifeTypes
      BY DEF LifeInv
    <2>2. \A c \in calls : c.op = "release" => <<c.type, c.side>> \in Part /\ Busy("release", <<c.type, c.side>>)
      BY <2>1 DEF LifeTypes, CallRecord, Part, Busy
    <2> QED
      BY <2>1, <2>2 DEF PartsInv, PartsHaveReason, ReleasesWaitedFor
  <1> QED
    BY <1>1, LifeInvariant, PTL

\* No process is watched when the service is off, but for a listener that the
\* service manager did not take back: no late death recovers a component then.
THEOREM WatchesEnd == Spec => []MonitorsRemoved
  <1>1. LifeInv => MonitorsRemoved
    BY DEF LifeInv, WatchInv, MonitorsRemoved
  <1> QED
    BY <1>1, LifeInvariant, PTL

-----------------------------------------------------------------------------
(* ComponentManager::Enable and Disable of one hardware: module CompOps *)

CONSTANTS TheCall, ENABLE_RETRY_MAX_TIMES, DISABLE_RETRY_MAX_TIMES, InOrder
VARIABLES callPc, callOp, paramTries, tries, status, result, own, requests, registered, online,
          overlapped, lastDone

Ops == INSTANCE CompOps WITH Call <- TheCall, pc <- callPc, op <- callOp

\* The steps of a call between its start and its return.
Inside == {"param", "paramRetry", "resource", "register", "wait", "retry"}

OpsTypes ==
    /\ callPc \in [TheCall -> Inside \cup {"new", "done"}]
    /\ callOp \in [TheCall -> {"enable", "disable"}]
    /\ tries \in [TheCall -> Nat]
    /\ status \in [TheCall -> {"none", "ok", "fail"}]
    /\ result \in [TheCall -> Ops!Result]
    /\ requests \in Seq(Ops!Request)
    /\ registered \in BOOLEAN
    /\ overlapped \subseteq TheCall
    /\ lastDone \in {"none", "enable", "disable"}

\* A call that runs, and that no other call has run beside.
Alone(c) == callPc[c] \in Inside /\ c \notin overlapped

\* Nothing is left of a call before it starts: no request and no answer.
NewCallsAreNew ==
    \A c \in TheCall : callPc[c] = "new" =>
        status[c] = "none" /\ \A i \in 1 .. Len(requests) : requests[i].call # c

AloneIsAlone == \A c, d \in TheCall : Alone(c) /\ callPc[d] \in Inside => d = c

\* What earlier calls left with the component is served before the requests of
\* a call that is alone.
OwnRequestsLast ==
    \A c \in TheCall : Alone(c) =>
        \A i, j \in 1 .. Len(requests) : i <= j /\ requests[i].call = c => requests[j].call = c

\* Once such a call has been answered with success, only its own requests are
\* left, and the hardware is as it asked for.
AnswerIsOwn ==
    \A c \in TheCall : Alone(c) /\ status[c] = "ok" =>
        /\ \A i \in 1 .. Len(requests) : requests[i].call = c
        /\ registered <=> callOp[c] = "enable"

\* The error that a call keeps is an error.
KeepsErrors == \A c \in TheCall : callPc[c] # "done" => result[c] # "ok"

\* After the latest call returned success, what is left to be served asks for
\* the same once more.
LeftoversAgree ==
    lastDone # "none" /\ (\A c \in TheCall : callPc[c] \notin Inside) =>
        /\ registered <=> lastDone = "enable"
        /\ \A i \in 1 .. Len(requests) : callOp[requests[i].call] = lastDone

OpsInv ==
    /\ OpsTypes
    /\ NewCallsAreNew /\ AloneIsAlone /\ OwnRequestsLast /\ AnswerIsOwn /\ KeepsErrors
    /\ LeftoversAgree

\* A sequence without its first element.
LEMMA DropFirst ==
    ASSUME NEW S, NEW s \in Seq(S), 1 \in 1 .. Len(s)
    PROVE  LET t == Ops!RemoveAt(s, 1) IN
           /\ t \in Seq(S) /\ Len(t) = Len(s) - 1
           /\ \A i \in 1 .. Len(t) : t[i] = s[i + 1]
  <1> DEFINE a == SubSeq(s, 1, 0)
             b == SubSeq(s, 2, Len(s))
             t == a \o b
  <1>1. a \in Seq(S) /\ Len(a) = 0
    BY SubSeqProperties
  <1>2. b \in Seq(S) /\ Len(b) = Len(s) - 1 /\ \A i \in 1 .. Len(b) : b[i] = s[i + 1]
    <2>1. Len(s) \in Nat /\ \A i \in 2 .. Len(s) : s[i] \in S
      OBVIOUS
    <2>2. /\ b \in Seq(S)
          /\ Len(b) = IF 2 <= Len(s) THEN Len(s) - 2 + 1 ELSE 0
          /\ \A i \in 1 .. Len(s) - 2 + 1 : b[i] = s[2 + i - 1]
      BY <2>1, SubSeqProperties
    <2> HIDE DEF b
    <2>3. Len(s) \in Nat /\ Len(s) >= 1
      BY <2>1
    <2>4. Len(b) = Len(s) - 1
      <3>1. \A n \in Nat : n >= 1 => (IF 2 <= n THEN n - 2 + 1 ELSE 0) = n - 1
        OBVIOUS
      <3>2. (IF 2 <= Len(s) THEN Len(s) - 2 + 1 ELSE 0) = Len(s) - 1
        BY <2>3, <3>1
      <3> QED BY <2>2, <3>2
    <2>5. ASSUME NEW i \in 1 .. Len(b) PROVE b[i] = s[i + 1]
      <3>1. i \in 1 .. Len(s) - 2 + 1 /\ 2 + i - 1 = i + 1
        BY <2>3, <2>4
      <3> QED BY <2>2, <3>1
    <2> QED BY <2>2, <2>4, <2>5
  <1>3. t \in Seq(S) /\ Len(t) = Len(s) - 1
    BY <1>1, <1>2
  <1>4. \A i \in 1 .. Len(t) : t[i] = s[i + 1]
    BY <1>1, <1>2, <1>3
  <1>5. Ops!RemoveAt(s, 1) = t
    BY DEF Ops!RemoveAt
  <1> QED BY <1>3, <1>4, <1>5

\* A request names the call that sent it.
LEMMA RequestIsOfCall ==
    ASSUME OpsTypes, NEW i \in 1 .. Len(requests)
    PROVE  requests[i].call \in TheCall
  <1>1. requests[i] \in Ops!Request
    BY DEF OpsTypes
  <1> QED BY <1>1 DEF Ops!Request

\* A step inside a call, which sends no request.
CallGoesOn(c) ==
    /\ callPc[c] \in Inside
    /\ \E step \in Inside : callPc' = [callPc EXCEPT ![c] = step]
    /\ tries' \in [TheCall -> Nat]
    /\ result' \in [TheCall -> Ops!Result]
    /\ \A d \in TheCall : result'[d] # result[d] => result'[d] # "ok"
    /\ UNCHANGED <<callOp, status, requests, registered, overlapped, lastDone>>

\* Such a step keeps the invariant: it answers nothing.
LEMMA GoingOnKeepsOps ==
    ASSUME OpsInv, NEW c \in TheCall, CallGoesOn(c)
    PROVE  OpsInv'
  <1> USE DEF OpsInv, OpsTypes, CallGoesOn
  <1>0. callPc'[c] \in Inside /\ \A d \in TheCall : d # c => callPc'[d] = callPc[d]
    OBVIOUS
  <1>i. "new" \notin Inside /\ "done" \notin Inside
    BY DEF Inside
  <1>1. \A d \in TheCall : Alone(d)' <=> Alone(d)
    BY <1>0 DEF Alone
  <1>2. \A d \in TheCall : callPc'[d] \in Inside <=> callPc[d] \in Inside
    BY <1>0
  <1>3. OpsTypes'
    OBVIOUS
  <1>4. NewCallsAreNew'
    BY <1>0, <1>i DEF NewCallsAreNew
  <1>5. AloneIsAlone'
    BY <1>1, <1>2 DEF AloneIsAlone
  <1>6. OwnRequestsLast'
    BY <1>1 DEF OwnRequestsLast
  <1>7. AnswerIsOwn'
    BY <1>1 DEF AnswerIsOwn
  <1>8. KeepsErrors'
    BY <1>0, <1>i DEF KeepsErrors
  <1>9. LeftoversAgree'
    BY <1>2 DEF LeftoversAgree
  <1> QED BY <1>3, <1>4, <1>5, <1>6, <1>7, <1>8, <1>9

\* A call returns.
LEMMA ReturningKeepsOps ==
    ASSUME OpsInv, NEW c \in TheCall, callPc[c] \in Inside, NEW r \in Ops!Result, Ops!Return(c, r),
           r = "ok" => status[c] = "ok",
           UNCHANGED <<callOp, tries, status, requests, registered, overlapped>>
    PROVE  OpsInv'
  <1> USE DEF OpsInv, OpsTypes, Ops!Return, Ops!Goto
  <1>i. "new" \notin Inside /\ "done" \notin Inside
    BY DEF Inside
  <1>0. callPc'[c] = "done" /\ \A d \in TheCall : d # c => callPc'[d] = callPc[d]
    OBVIOUS
  <1>1. \A d \in TheCall : Alone(d)' => Alone(d)
    BY <1>0, <1>i DEF Alone
  <1>3. OpsTypes'
    OBVIOUS
  <1>4. NewCallsAreNew'
    BY <1>0 DEF NewCallsAreNew
  <1>5. AloneIsAlone'
    BY <1>0, <1>1, <1>i DEF AloneIsAlone
  <1>6. OwnRequestsLast'
    BY <1>1 DEF OwnRequestsLast
  <1>7. AnswerIsOwn'
    BY <1>1 DEF AnswerIsOwn
  <1>8. KeepsErrors'
    BY <1>0 DEF KeepsErrors
  <1>9. LeftoversAgree'
    <2> SUFFICES ASSUME lastDone' # "none"
                 PROVE  /\ registered' <=> lastDone' = "enable"
                        /\ \A i \in 1 .. Len(requests') : callOp'[requests'[i].call] = lastDone'
      BY DEF LeftoversAgree
    <2>1. r = "ok" /\ Alone(c) /\ lastDone' = callOp[c]
      BY DEF Alone
    <2> QED BY <2>1 DEF AnswerIsOwn
  <1> QED BY <1>3, <1>4, <1>5, <1>6, <1>7, <1>8, <1>9

\* A call starts.
LEMMA BeginKeepsOps ==
    ASSUME OpsInv, NEW c \in TheCall, NEW o \in {"enable", "disable"}, Ops!Begin(c, o)
    PROVE  OpsInv'
  <1> USE DEF OpsInv, OpsTypes, Ops!Begin, Ops!Goto, Ops!compVars
  <1>0. /\ callPc[c] = "new" /\ callPc'[c] \in Inside /\ callOp'[c] = o
        /\ \A d \in TheCall : d # c => callPc'[d] = callPc[d] /\ callOp'[d] = callOp[d]
    BY DEF Inside
  <1>i. "new" \notin Inside /\ "done" \notin Inside
    BY DEF Inside
  <1>r. Ops!Running = {d \in TheCall : callPc[d] \in Inside}
    BY DEF Ops!Running, Inside
  <1>1. \A d \in TheCall : Alone(d)' => d = c /\ \A e \in TheCall : callPc[e] \notin Inside
    BY <1>0, <1>r, <1>i DEF Alone
  <1>2. status[c] = "none" /\ \A i \in 1 .. Len(requests) : requests[i].call # c
    BY <1>0 DEF NewCallsAreNew
  <1>3. OpsTypes'
    <2>1. overlapped' \subseteq TheCall
      BY <1>r
    <2>2. callPc' \in [TheCall -> Inside \cup {"new", "done"}]
      BY DEF Inside
    <2> QED BY <2>1, <2>2
  <1>4. NewCallsAreNew'
    BY <1>0, <1>i DEF NewCallsAreNew
  <1>5. AloneIsAlone'
    BY <1>0, <1>1 DEF AloneIsAlone
  <1>6. OwnRequestsLast'
    BY <1>1, <1>2 DEF OwnRequestsLast
  <1>7. AnswerIsOwn'
    BY <1>1, <1>2 DEF AnswerIsOwn
  <1>8. KeepsErrors'
    BY <1>0, <1>i DEF KeepsErrors
  <1>9. LeftoversAgree'
    BY <1>0 DEF LeftoversAgree
  <1> QED BY <1>3, <1>4, <1>5, <1>6, <1>7, <1>8, <1>9

\* The component has accepted a request.
LEMMA SendingKeepsOps ==
    ASSUME OpsInv, NEW c \in TheCall, callPc[c] \in Inside, NEW n \in Nat,
           requests' = Append(requests, [call |-> c, try |-> n]),
           tries' \in [TheCall -> Nat], callPc' = [callPc EXCEPT ![c] = "wait"],
           UNCHANGED <<callOp, status, result, registered, overlapped, lastDone>>
    PROVE  OpsInv'
  <1> USE DEF OpsInv, OpsTypes
  <1>0. callPc'[c] = "wait" /\ \A d \in TheCall : d # c => callPc'[d] = callPc[d]
    OBVIOUS
  <1>i. "new" \notin Inside /\ "done" \notin Inside /\ "wait" \in Inside
    BY DEF Inside
  <1>1. \A d \in TheCall : Alone(d)' => Alone(d) /\ d = c
    BY <1>0, <1>i DEF Alone, AloneIsAlone
  <1>2. /\ requests' \in Seq(Ops!Request) /\ Len(requests') = Len(requests) + 1
        /\ \A i \in 1 .. Len(requests) : requests'[i] = requests[i]
        /\ requests'[Len(requests) + 1].call = c
        /\ Len(requests) \in Nat
    <2> DEFINE r == [call |-> c, try |-> n]
    <2>1. r \in Ops!Request /\ r.call = c /\ requests' = Append(requests, r)
      BY DEF Ops!Request
    <2> HIDE DEF r
    <2> QED BY <2>1
  <1>3. OpsTypes'
    BY <1>2, <1>i
  <1>4. NewCallsAreNew'
    BY <1>0, <1>2, <1>i DEF NewCallsAreNew
  <1>5. AloneIsAlone'
    BY <1>0, <1>1, <1>i DEF AloneIsAlone
  <1>6. OwnRequestsLast'
    <2> SUFFICES ASSUME Alone(c), NEW i \in 1 .. Len(requests'), NEW j \in 1 .. Len(requests'),
                        i <= j, requests'[i].call = c
                 PROVE  requests'[j].call = c
      BY <1>1 DEF OwnRequestsLast
    <2>1. CASE j = Len(requests) + 1
      BY <1>2, <2>1
    <2>2. CASE j # Len(requests) + 1
      <3>1. i \in 1 .. Len(requests) /\ j \in 1 .. Len(requests)
        BY <1>2, <2>2
      <3> QED BY <1>2, <3>1 DEF OwnRequestsLast
    <2> QED BY <2>1, <2>2
  <1>7. AnswerIsOwn'
    <2> SUFFICES ASSUME Alone(c), status[c] = "ok"
                 PROVE  /\ \A i \in 1 .. Len(requests') : requests'[i].call = c
                        /\ registered' <=> callOp'[c] = "enable"
      BY <1>1 DEF AnswerIsOwn
    <2> QED BY <1>2 DEF AnswerIsOwn
  <1>8. KeepsErrors'
    BY <1>0, <1>i DEF KeepsErrors
  <1>9. LeftoversAgree'
    BY <1>0, <1>i DEF LeftoversAgree
  <1> QED BY <1>3, <1>4, <1>5, <1>6, <1>7, <1>8, <1>9

\* The component has served its first request, or lost it.
LEMMA ServingKeepsOps ==
    ASSUME OpsInv, InOrder, NEW i \in 1 .. Len(requests),
           Ops!Forget(i) \/ \E ok \in BOOLEAN : Ops!OnResult(i, ok)
    PROVE  OpsInv'
  <1> USE DEF OpsInv, OpsTypes
  <1>0. i = 1 /\ requests' = Ops!RemoveAt(requests, 1)
    BY DEF Ops!Forget, Ops!OnResult, Ops!CanServe
  <1>1. /\ requests' \in Seq(Ops!Request) /\ Len(requests') = Len(requests) - 1
        /\ \A j \in 1 .. Len(requests') : requests'[j] = requests[j + 1]
        /\ Len(requests) \in Nat
    BY <1>0, DropFirst
  <1> DEFINE d == requests[1].call
  <1>2. d \in TheCall
    BY <1>0, RequestIsOfCall
  <1>3. UNCHANGED <<callPc, callOp, tries, result, overlapped, lastDone>>
    BY DEF Ops!Forget, Ops!OnResult, Ops!callVars, Ops!historyVars
  <1>4. \/ UNCHANGED <<registered, status>>
        \/ status' = [status EXCEPT ![d] = "fail"] /\ UNCHANGED registered
        \/ status' = [status EXCEPT ![d] = "ok"] /\ registered' = (callOp[d] = "enable")
    BY <1>0 DEF Ops!Forget, Ops!OnResult, Ops!callVars
  <1>5. \A j \in 1 .. Len(requests') : j + 1 \in 1 .. Len(requests)
    BY <1>1
  <1>6. 1 \in 1 .. Len(requests)
    BY <1>0
  <1> HIDE DEF d
  <1>7. OpsTypes'
    BY <1>1, <1>2, <1>3, <1>4
  <1>8. NewCallsAreNew'
    <2>1. callPc[d] # "new"
      BY <1>2, <1>6 DEF NewCallsAreNew, d
    <2>2. \A c \in TheCall : c # d => status'[c] = status[c]
      BY <1>4
    <2> QED BY <1>1, <1>3, <1>5, <2>1, <2>2 DEF NewCallsAreNew
  <1>9. \A c \in TheCall : Alone(c)' <=> Alone(c)
    BY <1>3 DEF Alone
  <1>10. AloneIsAlone'
    BY <1>3, <1>9 DEF AloneIsAlone
  <1>11. OwnRequestsLast'
    <2> SUFFICES ASSUME NEW c \in TheCall, Alone(c), NEW j \in 1 .. Len(requests'),
                        NEW k \in 1 .. Len(requests'), j <= k, requests'[j].call = c
                 PROVE  requests'[k].call = c
      BY <1>9 DEF OwnRequestsLast
    <2>1. j + 1 \in 1 .. Len(requests) /\ k + 1 \in 1 .. Len(requests) /\ j + 1 <= k + 1
      BY <1>5
    <2>2. requests[j + 1].call = c
      BY <1>1
    <2>3. requests[k + 1].call = c
      BY <2>1, <2>2 DEF OwnRequestsLast
    <2> QED BY <1>1, <2>3
  <1>12. AnswerIsOwn'
    <2> SUFFICES ASSUME NEW c \in TheCall, Alone(c), status'[c] = "ok"
                 PROVE  /\ \A j \in 1 .. Len(requests') : requests'[j].call = c
                        /\ registered' <=> callOp'[c] = "enable"
      BY <1>9 DEF AnswerIsOwn
    <2> SUFFICES /\ \A j \in 1 .. Len(requests) : requests[j].call = c
                 /\ registered' <=> callOp[c] = "enable"
      <3>1. \A j \in 1 .. Len(requests') : requests'[j].call = requests[j + 1].call
        BY <1>1
      <3>2. \A j \in 1 .. Len(requests') : j + 1 \in 1 .. Len(requests)
        BY <1>5
      <3>3. callOp' = callOp
        BY <1>3
      <3> QED BY <3>1, <3>2, <3>3
    <2>1. CASE c = d
      <3>1. \A j \in 1 .. Len(requests) : 1 <= j => requests[j].call = c
        BY <1>6, <2>1 DEF OwnRequestsLast, d
      <3>2. \A j \in 1 .. Len(requests) : requests[j].call = c
        BY <3>1
      <3>3. registered' <=> callOp[c] = "enable"
        <4>1. CASE status' = [status EXCEPT ![d] = "ok"] /\ registered' = (callOp[d] = "enable")
          BY <2>1, <4>1
        <4>2. CASE UNCHANGED <<registered, status>>
          <5>1. registered <=> callOp[c] = "enable"
            BY <4>2 DEF AnswerIsOwn
          <5> QED BY <4>2, <5>1
        <4>3. CASE status' = [status EXCEPT ![d] = "fail"]
          BY <1>2, <2>1, <4>3
        <4> QED BY <1>4, <4>1, <4>2, <4>3
      <3> QED BY <3>2, <3>3
    <2>2. CASE c # d
      <3>1. status[c] = "ok"
        BY <1>4, <2>2
      <3>2. \A j \in 1 .. Len(requests) : requests[j].call = c
        BY <3>1 DEF AnswerIsOwn
      <3> QED BY <1>6, <2>2, <3>2 DEF d
    <2> QED BY <2>1, <2>2
  <1>13. KeepsErrors'
    BY <1>3 DEF KeepsErrors
  <1>14. LeftoversAgree'
    <2> SUFFICES ASSUME lastDone # "none", \A c \in TheCall : callPc[c] \notin Inside
                 PROVE  /\ registered' <=> lastDone = "enable"
                        /\ \A j \in 1 .. Len(requests') : callOp[requests'[j].call] = lastDone
      BY <1>3 DEF LeftoversAgree
    <2>1. /\ registered <=> lastDone = "enable"
          /\ \A j \in 1 .. Len(requests) : callOp[requests[j].call] = lastDone
      BY DEF LeftoversAgree
    <2>2. callOp[d] = lastDone
      BY <1>6, <2>1 DEF d
    <2>3. registered' <=> lastDone = "enable"
      <3>1. CASE registered' = registered
        BY <2>1, <3>1
      <3>2. CASE registered' = (callOp[d] = "enable")
        BY <2>2, <3>2
      <3> QED BY <1>4, <3>1, <3>2
    <2> QED BY <1>1, <1>5, <2>1, <2>3
  <1> QED BY <1>7, <1>8, <1>10, <1>11, <1>12, <1>13, <1>14

\* A try that failed: the first error is kept, and the call goes on.
LEMMA FailedTryGoesOn ==
    ASSUME OpsTypes, NEW c \in TheCall, callPc[c] \in Inside, NEW r \in Ops!Result \ {"ok"},
           Ops!AfterTry(c, r), tries' \in [TheCall -> Nat],
           UNCHANGED <<callOp, status, requests, registered, overlapped>>
    PROVE  CallGoesOn(c)
  <1>1. callPc' = [callPc EXCEPT ![c] = "retry"] /\ lastDone' = lastDone
    BY DEF Ops!AfterTry, Ops!Goto
  <1>2. result' \in [TheCall -> Ops!Result] /\ \A d \in TheCall : result'[d] # result[d] => result'[d] # "ok"
    BY DEF Ops!AfterTry, OpsTypes
  <1> QED BY <1>1, <1>2 DEF CallGoesOn, Inside

\* The steps of a call.
LEMMA CallStepKeepsOps ==
    ASSUME OpsInv, NEW c \in TheCall, Ops!CallStep(c)
    PROVE  OpsInv'
  <1> USE DEF Ops!compVars, Ops!historyVars
  <1>t. OpsTypes /\ {"param", "resource", "refused", "failed", "timeout", "ok"} \subseteq Ops!Result
    BY DEF OpsInv, Ops!Result
  <1>0. callPc[c] \in Inside
    BY DEF Ops!CallStep, Ops!FirstParam, Ops!RetryGetEnableParam, Ops!CheckSubtypeResource,
           Ops!SendRequest, Ops!WaitCallback, Ops!WaitTimeout, Ops!Retry, Inside
  <1>1. CASE Ops!FirstParam(c)
    <2>1. \E step \in Inside : callPc' = [callPc EXCEPT ![c] = step]
      BY <1>1 DEF Ops!FirstParam, Ops!LookUp, Ops!Goto, Inside
    <2> QED BY <1>0, <1>1, <1>t, <2>1, GoingOnKeepsOps DEF CallGoesOn, Ops!FirstParam, OpsTypes
  <1>2. CASE Ops!RetryGetEnableParam(c)
    <2>1. CASE Ops!Return(c, "param")
      BY <1>0, <1>2, <1>t, <2>1, ReturningKeepsOps DEF Ops!RetryGetEnableParam
    <2>2. CASE ~Ops!Return(c, "param")
      <3>1. \E step \in Inside : callPc' = [callPc EXCEPT ![c] = step]
        BY <1>2, <2>2 DEF Ops!RetryGetEnableParam, Ops!LookUp, Ops!Goto, Inside
      <3> QED BY <1>0, <1>2, <1>t, <2>2, <3>1, GoingOnKeepsOps
              DEF CallGoesOn, Ops!RetryGetEnableParam, OpsTypes
    <2> QED BY <2>1, <2>2
  <1>3. CASE Ops!CheckSubtypeResource(c)
    <2>1. CASE Ops!Return(c, "resource")
      BY <1>0, <1>3, <1>t, <2>1, ReturningKeepsOps DEF Ops!CheckSubtypeResource
    <2>2. CASE ~Ops!Return(c, "resource")
      BY <1>0, <1>3, <1>t, <2>2, GoingOnKeepsOps
         DEF CallGoesOn, Ops!CheckSubtypeResource, Ops!Goto, OpsTypes, Inside
    <2> QED BY <2>1, <2>2
  <1>4. CASE Ops!SendRequest(c)
    <2>1. tries' \in [TheCall -> Nat] /\ tries'[c] \in Nat
      BY <1>4, <1>t DEF Ops!SendRequest, OpsTypes
    <2>2. CASE requests' = Append(requests, [call |-> c, try |-> tries'[c]]) /\ Ops!Goto(c, "wait")
               /\ UNCHANGED <<result, lastDone>>
      BY <1>0, <1>4, <2>1, <2>2, SendingKeepsOps DEF Ops!SendRequest, Ops!Goto
    <2>3. CASE Ops!AfterTry(c, "refused") /\ UNCHANGED requests
      <3>1. CallGoesOn(c)
        BY <1>0, <1>4, <1>t, <2>1, <2>3, FailedTryGoesOn DEF Ops!SendRequest
      <3> QED BY <3>1, GoingOnKeepsOps
    <2> QED BY <1>4, <2>2, <2>3 DEF Ops!SendRequest
  <1>5. CASE Ops!WaitCallback(c)
    <2>1. CASE status[c] = "ok"
      BY <1>0, <1>5, <1>t, <2>1, ReturningKeepsOps DEF Ops!WaitCallback, Ops!AfterTry
    <2>2. CASE status[c] # "ok"
      <3>1. CallGoesOn(c)
        BY <1>0, <1>5, <1>t, <2>2, FailedTryGoesOn DEF Ops!WaitCallback, OpsTypes
      <3> QED BY <3>1, GoingOnKeepsOps
    <2> QED BY <2>1, <2>2
  <1>6. CASE Ops!WaitTimeout(c)
    <2>1. CallGoesOn(c)
      BY <1>0, <1>6, <1>t, FailedTryGoesOn DEF Ops!WaitTimeout, OpsTypes
    <2> QED BY <2>1, GoingOnKeepsOps
  <1>7. CASE Ops!Retry(c)
    <2>1. CASE Ops!Return(c, result[c])
      <3>1. result[c] \in Ops!Result /\ result[c] # "ok"
        BY <1>7, <1>t DEF Ops!Retry, OpsTypes, OpsInv, KeepsErrors
      <3> QED BY <1>0, <1>7, <2>1, <3>1, ReturningKeepsOps DEF Ops!Retry
    <2>2. CASE ~Ops!Return(c, result[c])
      BY <1>0, <1>7, <1>t, <2>2, GoingOnKeepsOps
         DEF CallGoesOn, Ops!Retry, Ops!Goto, OpsTypes, Inside
    <2> QED BY <2>1, <2>2
  <1> QED BY <1>1, <1>2, <1>3, <1>4, <1>5, <1>6, <1>7 DEF Ops!CallStep

\* A component that serves requests in the order in which they were sent leaves
\* the hardware as the latest call that succeeded on its own asked for it, for
\* any number of calls and tries, however late it answers and whatever it
\* refuses or loses.
THEOREM SuccessIsTrue == InOrder => (Ops!Spec => []Ops!SuccessAgrees)
  <1> SUFFICES ASSUME InOrder
               PROVE  Ops!Spec => []Ops!SuccessAgrees
    OBVIOUS
  <1>1. Ops!Init => OpsInv
    <2> SUFFICES ASSUME Ops!Init
                 PROVE  OpsInv
      OBVIOUS
    <2> USE DEF Ops!Init
    <2>1. OpsTypes
      <3>1. requests \in Seq(Ops!Request)
        OBVIOUS
      <3>2. tries \in [TheCall -> Nat] /\ result \in [TheCall -> Ops!Result]
        BY DEF Ops!Result
      <3> QED BY <3>1, <3>2 DEF OpsTypes
    <2>2. Len(requests) = 0 /\ \A c \in TheCall : callPc[c] \notin Inside
      BY DEF Inside
    <2>3. NewCallsAreNew /\ KeepsErrors
      BY <2>2 DEF NewCallsAreNew, KeepsErrors
    <2>4. AloneIsAlone /\ OwnRequestsLast /\ AnswerIsOwn
      BY <2>2 DEF AloneIsAlone, OwnRequestsLast, AnswerIsOwn, Alone
    <2>5. LeftoversAgree
      BY DEF LeftoversAgree
    <2> QED BY <2>1, <2>3, <2>4, <2>5 DEF OpsInv
  <1>2. OpsInv /\ [Ops!Next]_(Ops!vars) => OpsInv'
    <2> SUFFICES ASSUME OpsInv, [Ops!Next]_(Ops!vars)
                 PROVE  OpsInv'
      OBVIOUS
    <2>1. CASE Ops!OnlineChange \/ UNCHANGED Ops!vars
      <3>1. UNCHANGED <<callPc, callOp, tries, status, result, requests, registered, overlapped,
                        lastDone>>
        BY <2>1 DEF Ops!OnlineChange, Ops!vars, Ops!callVars, Ops!compVars, Ops!historyVars
      <3> QED BY <3>1 DEF OpsInv, OpsTypes, NewCallsAreNew, AloneIsAlone, OwnRequestsLast,
                          AnswerIsOwn, KeepsErrors, LeftoversAgree, Alone
    <2> QED BY <2>1, CallStepKeepsOps, BeginKeepsOps, ServingKeepsOps DEF Ops!Next
  <1>3. OpsInv => Ops!SuccessAgrees
    <2>1. Ops!Running = {} => \A c \in TheCall : callPc[c] \notin Inside
      BY DEF Ops!Running, Inside
    <2> QED BY <2>1 DEF OpsInv, OpsTypes, LeftoversAgree, Ops!SuccessAgrees
  <1> QED BY <1>1, <1>2, <1>3, PTL DEF Ops!Spec
=============================================================================
