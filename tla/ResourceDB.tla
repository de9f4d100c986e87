----------------------------- MODULE ResourceDB -----------------------------
(***************************************************************************)
(* The resource data of one device: DBAdapter over the distributed kv     *)
(* service, and the managers that keep its records in memory              *)
(* (VersionInfoManager with VersionManager, CapabilityInfoManager,        *)
(* MetaInfoManager, LocalCapabilityInfoManager), LocalHardwareManager and  *)
(* its PluginListenerImpl, which write the records of this device.         *)
(*                                                                         *)
(* The kv service is a process of its own: it may die and come back, and   *)
(* records of peers arrive in it at any time. The threads are: the one     *)
(* that initialises and releases the framework, the one on which the kv    *)
(* service notifies a manager, the DHContext handler that reopens stores,  *)
(* the managers' handlers, and the workers of the online, offline and      *)
(* enable tasks. A manager holds its mutex through each of its calls, so a *)
(* call is one step. A record is its version number; 0 is "no record".     *)
(***************************************************************************)
EXTENDS Naturals, Sequences, FiniteSets, SequencesExt

CONSTANTS Peer,         \* records of the peer device, one per hardware
          Own,          \* input hardware this device may have
          Installed,    \* that it has at first
          NoStore,
          DIED_CHECK_MAX_TIMES,
          MaxVersion,   \* bound: newest version of a peer's record
          MaxEvents,    \* bound: changes from outside and deaths of the kv service
          MaxLives      \* bound: initialisations of the framework

ASSUME DBAssumption ==
    /\ Peer \cap Own = {} /\ Installed \subseteq Own
    /\ NoStore \notin {"ver", "cap", "meta", "local"}
    /\ {DIED_CHECK_MAX_TIMES, MaxVersion, MaxEvents, MaxLives} \subseteq Nat
    /\ MaxVersion > 0

\* LocalInit opens the stores in this order and Release closes them in it.
Stores == <<"ver", "cap", "meta", "local">>
Store == {"ver", "cap", "meta", "local"}
Key == Peer \cup Own

VARIABLES
    life, todo,    \* DistributedHardwareManager: where it is, stores still to do
    kvUp,          \* the kv service is alive
    db,            \* its stores, which survive it
    observed,      \* stores whose changes it reports to the manager
    notes,         \* reports it has not delivered yet
    adapter,       \* per manager: dbAdapterPtr_ and the kvStoragePtr_ in it
    watched,       \* stores that hear of the death of the kv service
    reinit,        \* reInitTasks posted to the DHContext handler
    running, times,\* the reInitTask being run and its counter
    recoverEvents, \* EVENT_..._DB_RECOVER sent to the managers' handlers
    cache,         \* globalCapInfoMap_, globalMetaInfoMap_, dhVersions_
    online, tosync,\* the peer is online, what its OnLineTask has yet to load
    enabled, tasks,\* TaskBoard's enabled hardware, tasks pushed and not run
    plugged,       \* input hardware of this device
    missed,        \* history: records a manager was not told of, or dropped
    unclean,       \* history: this device's own records may be wrong
    budget

lifeVars == <<life, todo>>
kvVars == <<kvUp, db, observed, notes>>
adapterVars == <<adapter, watched, reinit, running, times, recoverEvents>>
deviceVars == <<online, tosync, enabled, tasks, plugged>>
vars == <<lifeVars, kvVars, adapterVars, cache, deviceVars, missed, unclean, budget>>

\* kvStoragePtr_ is there and the service behind it answers.
Open(s) == adapter[s] = "open"

Spend(what) == budget[what] > 0 /\ budget' = [budget EXCEPT ![what] = @ - 1]

Missed(s, ks) == missed' = missed \cup ({s} \X ks)
Caught(s, ks) == missed' = missed \ ({s} \X ks)

-----------------------------------------------------------------------------
(* DBAdapter *)

\* GetKvStorePtr and GetLocalKvStorePtr: a store whose meta data changed is
\* deleted and made anew.
GetKvStorePtr(s) ==
    /\ kvUp
    /\ \/ UNCHANGED <<db, budget>>
       \/ s # "local" /\ Spend("events") /\ db' = [db EXCEPT ![s] = [k \in Key |-> 0]]
    /\ adapter' = [adapter EXCEPT ![s] = "open"]

\* No attempt succeeds: dbAdapterPtr_ stays, with a null kvStoragePtr_ in it.
NoKvStorePtr(s) ==
    /\ ~kvUp
    /\ adapter' = [adapter EXCEPT ![s] = "null"]
    /\ UNCHANGED <<db, budget>>

RegisterChangeListener(s) == observed' = observed \cup {s}
RegisterKvStoreDeathListener(s) == watched' = watched \cup {s}

\* DBAdapter::Init: MAX_INIT_RETRY_TIMES attempts, then the two listeners.
AdapterInit(s) ==
    \/ GetKvStorePtr(s) /\ RegisterChangeListener(s) /\ RegisterKvStoreDeathListener(s)
    \/ NoKvStorePtr(s) /\ UNCHANGED <<observed, watched>>

\* DBAdapter::InitLocal: no change listener.
AdapterInitLocal(s) ==
    /\ \/ GetKvStorePtr(s) /\ RegisterKvStoreDeathListener(s)
       \/ NoKvStorePtr(s) /\ UNCHANGED watched
    /\ UNCHANGED observed

\* DBAdapter::UnInit. No manager opens its store with isAutoSync, so none takes
\* its change listener back; an adapter without a store returns at once and stays
\* known to the service.
AdapterUnInit(s) ==
    /\ adapter' = [adapter EXCEPT ![s] = "none"]
    /\ watched' = IF adapter[s] = "null" THEN watched ELSE watched \ {s}

\* DBAdapter::ReInit drops the old kvStoragePtr_ before it asks for a new one and
\* refuses when there is none: after one failure every later attempt fails too.
ReInit(s) == kvUp /\ adapter[s] # "null"

\* DBAdapter::SyncDBForRecover tells the manager to load its peers' records again.
SyncDBForRecover(s) == recoverEvents' = recoverEvents \cup ({s} \ {"local"})

\* Seeded fault: a failed attempt is not counted.
DBDiedOptUncounted(s) ==
    IF ReInit(s)
    THEN /\ adapter' = [adapter EXCEPT ![s] = "open"]
         /\ RegisterKvStoreDeathListener(s)
         /\ SyncDBForRecover(s)
         /\ running' = NoStore /\ times' = 0
    ELSE /\ adapter' = [adapter EXCEPT ![s] = "null"]
         /\ running' = s
         /\ UNCHANGED <<times, watched, recoverEvents>>

\* DBAdapter::DBDiedOpt, one turn of its loop. The change listener is registered
\* again for stores with isAutoSync only, that is for none.
DBDiedOpt(s) ==
    IF ReInit(s)
    THEN /\ adapter' = [adapter EXCEPT ![s] = "open"]
         /\ RegisterKvStoreDeathListener(s)
         /\ SyncDBForRecover(s)
         /\ running' = NoStore /\ times' = 0
    ELSE /\ adapter' = [adapter EXCEPT ![s] = "null"]
         /\ IF times + 1 < DIED_CHECK_MAX_TIMES
            THEN times' = times + 1 /\ running' = s
            ELSE times' = 0 /\ running' = NoStore
         /\ UNCHANGED <<watched, recoverEvents>>

\* DBAdapter::OnRemoteDied of the watching adapters, in the order they registered.
OnRemoteDied == reinit' = reinit \o SelectSeq(Stores, LAMBDA s : s \in watched)

\* What the records are read and written with: nothing is found, and nothing
\* changed, when the handle is null or stale.
GetDataByKey(s, k) == IF Open(s) THEN db[s][k] ELSE 0
GetDataByKeyPrefix(s, ks) == {k \in ks : GetDataByKey(s, k) # 0}
GetEntriesByKeys(s, k) == GetDataByKey(s, k)
PutData(s, ks, old) ==
    IF Open(s) THEN [old EXCEPT ![s] = [k \in Key |-> IF k \in ks THEN 1 ELSE @[k]]] ELSE old
RemoveDataByKey(s, ks, old) ==
    IF Open(s) THEN [old EXCEPT ![s] = [k \in Key |-> IF k \in ks THEN 0 ELSE @[k]]] ELSE old

\* The process ends; the service manager starts it again with an empty memory.
ProcessEnds ==
    /\ life' = "down" /\ todo' = <<>>
    /\ observed' = {} /\ notes' = [s \in Store |-> <<>>]
    /\ adapter' = [s \in Store |-> "none"]
    /\ watched' = {} /\ reinit' = <<>> /\ running' = NoStore /\ times' = 0
    /\ recoverEvents' = {}
    /\ cache' = [s \in Store |-> [k \in Key |-> 0]]
    /\ online' = FALSE /\ tosync' = FALSE
    /\ enabled' = {} /\ tasks' = {}
    /\ missed' = Store \X Peer /\ unclean' = TRUE
    /\ UNCHANGED <<kvUp, db, plugged, budget>>

\* The DHContext handler runs one reInitTask to its end before the next. The
\* task holds a plain pointer to its DBAdapter; when Release has destroyed it the
\* process ends.
ReInitTask ==
    LET s == IF running = NoStore THEN Head(reinit) ELSE running IN
    /\ running # NoStore \/ reinit # <<>>
    /\ IF adapter[s] = "none" THEN ProcessEnds
       ELSE /\ DBDiedOpt(s)
            /\ reinit' = IF running = NoStore THEN Tail(reinit) ELSE reinit
            /\ UNCHANGED <<lifeVars, kvVars, cache, deviceVars, missed, unclean, budget>>

\* The kv service dies: handles to it go stale, its subscriptions and the reports
\* it has not delivered are lost, and the adapters hear of it.
ServiceDies ==
    /\ kvUp
    /\ Spend("events")
    /\ kvUp' = FALSE
    /\ adapter' = [s \in Store |-> IF Open(s) THEN "stale" ELSE adapter[s]]
    /\ observed' = {} /\ notes' = [s \in Store |-> <<>>]
    /\ missed' = missed \cup {p \in Store \X Peer :
                                \E i \in DOMAIN notes[p[1]] : notes[p[1]][i].key = p[2]}
    /\ OnRemoteDied
    /\ UNCHANGED <<lifeVars, db, watched, running, times, recoverEvents, cache,
                   deviceVars, unclean>>

ServiceRestarts ==
    /\ ~kvUp
    /\ kvUp' = TRUE
    /\ UNCHANGED <<lifeVars, db, observed, notes, adapterVars, cache, deviceVars, missed,
                   unclean, budget>>

-----------------------------------------------------------------------------
(* Changes that peers make, and how the managers take them *)

Touch(s, k, from) == [key |-> k, ver |-> db'[s][k], was |-> db[s][k], from |-> from]

\* The kv service has pulled a peer's record in, by itself or because
\* SyncByNotFound or SyncDataByNetworkId asked it to. Records of the meta store
\* come from the cloud as well.
PeerChange ==
    /\ kvUp /\ Spend("events")
    /\ \E s \in {"ver", "cap", "meta"}, k \in Peer, v \in 0 .. MaxVersion :
        \E from \in {"device"} \cup (IF s = "meta" THEN {"cloud"} ELSE {}) :
          /\ v # db[s][k] /\ v \in {0, db[s][k] + 1}
          /\ db' = [db EXCEPT ![s][k] = v]
          /\ IF s \in observed
             THEN /\ notes' = [notes EXCEPT ![s] = Append(@, Touch(s, k, from))]
                  /\ UNCHANGED missed
             ELSE Missed(s, {k}) /\ UNCHANGED notes
    /\ UNCHANGED <<lifeVars, kvUp, observed, adapterVars, cache, deviceVars, unclean>>

Drop(s, n) == Missed(s, {n.key}) /\ UNCHANGED <<cache, tasks>>
Told(s, n, v) == IF v = db[s][n.key] THEN Caught(s, {n.key}) ELSE UNCHANGED missed
Keep(s, n, v) == cache' = [cache EXCEPT ![s][n.key] = v] /\ Told(s, n, v)
Push(type, n) == tasks' = tasks \cup {<<type, n.key>>}

\* An inserted record of a peer whose uuid and networkId are known is kept, and
\* its hardware enabled.
HandleCapabilityAddChange(n, v) ==
    IF online THEN Keep("cap", n, v) /\ Push("ENABLE", n) ELSE Drop("cap", n)
HandleMetaCapabilityAddChange(n, v) ==
    IF online THEN Keep("meta", n, v) /\ Push("ENABLE", n) ELSE Drop("meta", n)

\* Seeded fault: the task is pushed, but the map keeps the old record.
CapabilityUpdateUnsaved(n, v) ==
    IF ~online \/ n.key \in enabled \/ life = "release" THEN Drop("cap", n)
    ELSE UNCHANGED cache /\ Told("cap", n, v) /\ Push("ENABLE", n)

\* An update of hardware that is enabled is dropped; that of a capability also
\* while the framework is released.
HandleCapabilityUpdateChange(n, v) ==
    IF ~online \/ n.key \in enabled \/ life = "release" THEN Drop("cap", n)
    ELSE Keep("cap", n, v) /\ Push("ENABLE", n)
HandleMetaCapabilityUpdateChange(n, v) ==
    IF ~online \/ n.key \in enabled THEN Drop("meta", n)
    ELSE Keep("meta", n, v) /\ Push("ENABLE", n)

\* A deleted capability disables the hardware, a deleted meta record does not.
HandleCapabilityDeleteChange(n) ==
    IF ~online \/ life = "release" THEN Drop("cap", n)
    ELSE Keep("cap", n, 0) /\ Push("DISABLE", n)
HandleMetaCapabilityDeleteChange(n) == Keep("meta", n, 0) /\ UNCHANGED tasks

\* VersionManager: AddDHVersion replaces the record, RemoveDHVersion erases it.
UpdateVersionCache(n) == Keep("ver", n, n.ver)

HandleVersionChange(n) ==
    IF online THEN UpdateVersionCache(n) /\ UNCHANGED tasks ELSE Drop("ver", n)

\* CapabilityInfoManager::OnChange: the values are in the notification.
CapabilityOnChange(n) ==
    IF n.ver = 0 THEN HandleCapabilityDeleteChange(n)
    ELSE IF n.was = 0 THEN HandleCapabilityAddChange(n, n.ver)
    ELSE HandleCapabilityUpdateChange(n, n.ver)

\* MetaInfoManager::OnChange, from a device as above. One from the cloud carries
\* keys only: records are read back from the store, and a deleted one, whose
\* value cannot be read, is not erased.
MetaOnChange(n) ==
    LET v == IF n.from = "cloud" THEN GetEntriesByKeys("meta", n.key) ELSE n.ver IN
    IF n.from = "cloud" /\ (n.ver = 0 \/ v = 0) THEN Drop("meta", n)
    ELSE IF n.ver = 0 THEN HandleMetaCapabilityDeleteChange(n)
    ELSE IF n.was = 0 THEN HandleMetaCapabilityAddChange(n, v)
    ELSE HandleMetaCapabilityUpdateChange(n, v)

OnChange(s) ==
    /\ notes[s] # <<>>
    /\ LET n == Head(notes[s]) IN
       \/ s = "ver" /\ HandleVersionChange(n)
       \/ s = "cap" /\ CapabilityOnChange(n)
       \/ s = "meta" /\ MetaOnChange(n)
    /\ notes' = [notes EXCEPT ![s] = Tail(@)]
    /\ UNCHANGED <<lifeVars, kvUp, db, observed, adapterVars, online, tosync, enabled, plugged,
                   unclean, budget>>

-----------------------------------------------------------------------------
(* Loading records from a store *)

\* The records of a peer that the store holds replace those in memory; the rest
\* of the map stays as it is.
Loaded(s) ==
    [k \in Key |-> IF k \in GetDataByKeyPrefix(s, Peer) THEN db[s][k] ELSE cache[s][k]]

\* SyncDeviceInfoFromDB of LocalCapabilityInfoManager and SyncMetaInfoFromDB of
\* MetaInfoManager: the loads of OnLineTask::DoSyncInfo. The two share nothing.
LocalInfoFromDB == Loaded("local")
MetaInfoFromDB == Loaded("meta")

DoSyncInfo ==
    /\ tosync
    /\ cache' = [cache EXCEPT !["local"] = LocalInfoFromDB, !["meta"] = MetaInfoFromDB]
    /\ missed' = missed \ ({s \in {"local", "meta"} : Open(s)} \X Peer)
    /\ tosync' = FALSE
    /\ UNCHANGED <<lifeVars, kvVars, adapterVars, online, enabled, tasks, plugged, unclean,
                   budget>>

\* The manager's handler loads the records of the peers that are online.
SyncRemote(s) ==
    /\ s \in recoverEvents
    /\ recoverEvents' = recoverEvents \ {s}
    /\ IF online /\ Open(s) THEN cache' = [cache EXCEPT ![s] = Loaded(s)] /\ Caught(s, Peer)
       ELSE UNCHANGED <<cache, missed>>
    /\ UNCHANGED <<lifeVars, kvVars, adapter, watched, reinit, running, times, deviceVars,
                   unclean, budget>>

SyncRemoteVersionInfos == SyncRemote("ver")
SyncRemoteCapabilityInfos == SyncRemote("cap")
SyncRemoteMetaInfos == SyncRemote("meta")

\* ComponentManager::GetVersion: VersionManager::GetCompVersion first, then
\* VersionInfoManager, whose answer from the store is kept.
GetCompVersion(k) == cache["ver"][k]
GetVersionFromVerMgr(k) == GetCompVersion(k)
GetVersionInfoByDeviceId(k) == GetDataByKey("ver", k)
GetVersionFromVerInfoMgr(k) ==
    /\ GetVersionInfoByDeviceId(k) # 0
    /\ cache' = [cache EXCEPT !["ver"][k] = GetVersionInfoByDeviceId(k)]
    /\ Caught("ver", {k})

GetVersion(k) ==
    /\ life = "up" /\ GetVersionFromVerMgr(k) = 0
    /\ GetVersionFromVerInfoMgr(k)
    /\ UNCHANGED <<lifeVars, kvVars, adapterVars, deviceVars, unclean, budget>>

\* LocalCapabilityInfoManager::AddCapability of an answer of the peer: memory
\* first, then PutDataBatch, whose failure is only logged.
SaveAnswer(k) ==
    /\ life = "up" /\ adapter["local"] # "none" /\ online /\ cache["local"][k] = 0
    /\ Spend("events")
    /\ cache' = [cache EXCEPT !["local"][k] = 1]
    /\ db' = PutData("local", {k}, db)
    /\ UNCHANGED <<lifeVars, kvUp, observed, notes, adapterVars, deviceVars, missed, unclean>>

\* DBAdapter::ClearDataWhenPeerLogout, and MetaInfoManager's, which keeps the
\* records in memory.
ClearDataWhenPeerLogout(old) == RemoveDataByKey("meta", Peer, old)
ClearMetaWhenPeerLogout == IF Open("meta") THEN ClearDataWhenPeerLogout(db) ELSE db

\* AccessManager::OnDeviceTrustChange: the peer, of the same account, has left it.
OnDeviceTrustChange ==
    /\ life = "up" /\ Spend("events")
    /\ \E k \in Peer : db["meta"][k] # 0
    /\ db' = ClearMetaWhenPeerLogout
    /\ UNCHANGED <<lifeVars, kvUp, observed, notes, adapterVars, cache, deviceVars, missed,
                   unclean>>

-----------------------------------------------------------------------------
(* The peer comes and goes, its tasks run *)

Online ==
    /\ life = "up" /\ ~online
    /\ online' = TRUE
    /\ tosync' = TRUE
    /\ UNCHANGED <<lifeVars, kvVars, adapterVars, cache, enabled, tasks, plugged, missed,
                   unclean, budget>>

\* RemoveOnlineDeviceIdEntryByNetworkId, on the thread of the OffLineTask.
RemoveOnlineDevice == online' = FALSE

\* OffLineTask: the entry of the device is removed, then ClearOffLineInfo
\* empties the capability map of the peer (RemoveCapabilityInfoInMem) and no other.
Offline ==
    /\ online /\ ~tosync
    /\ RemoveOnlineDevice
    /\ cache' = [cache EXCEPT !["cap"] = [k \in Key |-> IF k \in Peer THEN 0 ELSE @[k]]]
    /\ Missed("cap", Peer)
    /\ UNCHANGED <<lifeVars, kvVars, adapterVars, tosync, enabled, tasks, plugged, unclean,
                   budget>>

\* ComponentManager::GetEnableParam: the capability, the saved answer or the meta
\* record of the hardware.
GetCapability(k) == cache["cap"][k]
GetLocalCapability(k) == cache["local"][k]
GetMetaCapInfo(k) == cache["meta"][k]
GetEnableParam(k) == {GetCapability(k), GetLocalCapability(k), GetMetaCapInfo(k)} # {0}

RunTask ==
    /\ \E t \in tasks :
          /\ tasks' = tasks \ {t}
          /\ enabled' = IF t[1] = "DISABLE" THEN enabled \ {t[2]}
                        ELSE IF GetEnableParam(t[2]) THEN enabled \cup {t[2]} ELSE enabled
    /\ UNCHANGED <<lifeVars, kvVars, adapterVars, cache, online, tosync, plugged, missed,
                   unclean, budget>>

-----------------------------------------------------------------------------
(* This device's own hardware *)

\* Memory first, then the store: CapabilityInfoManager::AddCapability and
\* MetaInfoManager::AddMetaCapInfos.
InMemory(s, ks, v, old) ==
    IF adapter[s] = "none" THEN old
    ELSE [old EXCEPT ![s] = [k \in Key |-> IF k \in ks THEN v ELSE @[k]]]

AddCapability(ks) ==
    /\ cache' = InMemory("cap", ks, 1, cache)
    /\ db' = PutData("cap", ks, db)

RemoveCapabilityInfoByKey(k) ==
    /\ cache["cap"][k] # 0
    /\ cache' = InMemory("cap", {k}, 0, cache)
    /\ db' = RemoveDataByKey("cap", {k}, db)

\* PluginListenerImpl::PluginHardware; an event during sleep is dropped.
PluginHardware(k) ==
    /\ life = "up" /\ k \in Own \ plugged
    /\ Spend("events")
    /\ plugged' = plugged \cup {k}
    /\ \/ AddCapability({k}) /\ unclean' = (unclean \/ ~Open("cap"))
       \/ unclean' = TRUE /\ UNCHANGED <<cache, db>>
    /\ UNCHANGED <<lifeVars, kvUp, observed, notes, adapterVars, online, tosync, enabled, tasks,
                   missed>>

\* PluginListenerImpl::UnPluginHardware through RemoveCapabilityInfoByKey.
UnPluginHardware(k) ==
    /\ life = "up" /\ k \in plugged
    /\ Spend("events")
    /\ plugged' = plugged \ {k}
    /\ \/ RemoveCapabilityInfoByKey(k) /\ unclean' = (unclean \/ ~Open("cap"))
       \/ unclean' = TRUE /\ UNCHANGED <<cache, db>>
    /\ UNCHANGED <<lifeVars, kvUp, observed, notes, adapterVars, online, tosync, enabled, tasks,
                   missed>>

\* Hardware comes and goes unseen while the framework is not initialised.
Replug(k) ==
    /\ life = "down" /\ budget.lives > 0
    /\ Spend("events")
    /\ plugged' = IF k \in plugged THEN plugged \ {k} ELSE plugged \cup {k}
    /\ unclean' = TRUE
    /\ UNCHANGED <<lifeVars, kvVars, adapterVars, cache, online, tosync, enabled, tasks, missed>>

\* Seeded fault: records of hardware that is gone are left in the store.
CheckNonExistNothing == {}

\* LocalHardwareManager::CheckNonExistCapabilityInfo: records in the store
\* without hardware.
GetLocalCapabilityMapByPrefix == GetDataByKeyPrefix("cap", Own)
CheckNonExistCapabilityInfo == GetLocalCapabilityMapByPrefix \ plugged

\* AddLocalCapabilityInfo and AddLocalMetaCapInfo, after the records that
\* CheckNonExistCapabilityInfo found were removed.
AddLocalCapabilityInfo(gone, old) == PutData("cap", plugged, RemoveDataByKey("cap", gone, old))
AddLocalMetaCapInfo(old) == PutData("meta", plugged, old)

\* VersionInfoManager::AddVersion writes this device's version, here under each
\* of its keys, if it is not stored yet.
AddVersion(old) ==
    IF \A k \in Own : GetVersionInfoByDeviceId(k) = 1 THEN old ELSE PutData("ver", Own, old)

\* StoreLocalDHVersionInDB is the end of ComponentLoader::Init.
StoreLocalDHVersionInDB == AddVersion(db)

\* LocalHardwareManager::Init, which follows: QueryLocalHardware tries
\* QUERY_RETRY_MAX_TIMES times; an empty answer leaves both the check and the
\* new records out.
QueryLocalHardware ==
    IF plugged = {} THEN unclean' = TRUE /\ db' = StoreLocalDHVersionInDB /\ UNCHANGED cache
    ELSE LET gone == CheckNonExistCapabilityInfo IN
         /\ cache' = InMemory("meta", plugged, 1,
                         InMemory("cap", plugged, 1, InMemory("cap", gone, 0, cache)))
         /\ db' = AddLocalMetaCapInfo(AddLocalCapabilityInfo(gone, StoreLocalDHVersionInDB))
         /\ unclean' = ~Open("cap")

-----------------------------------------------------------------------------
(* DistributedHardwareManager *)

\* LocalInit and Release, one manager at a time.
InitManager(s) ==
    /\ life = "init" /\ todo # <<>> /\ Head(todo) = s
    /\ IF s = "local" THEN AdapterInitLocal(s) ELSE AdapterInit(s)
    /\ missed' = IF db' = db THEN missed ELSE missed \ ({s} \X Peer)
    /\ todo' = Tail(todo)
    /\ UNCHANGED <<life, kvUp, notes, reinit, running, times, recoverEvents, cache, deviceVars,
                   unclean>>

VersionInfoManagerInit == InitManager("ver")
CapabilityInfoManagerInit == InitManager("cap")
MetaInfoManagerInit == InitManager("meta")
LocalCapabilityInfoManagerInit == InitManager("local")

UnInitManager(s) ==
    /\ life = "release" /\ todo # <<>> /\ Head(todo) = s
    /\ AdapterUnInit(s)
    /\ todo' = Tail(todo)
    /\ UNCHANGED <<life, kvVars, reinit, running, times, recoverEvents, cache, deviceVars,
                   missed, unclean, budget>>

VersionInfoManagerUnInit == UnInitManager("ver")
CapabilityInfoManagerUnInit == UnInitManager("cap")
MetaInfoManagerUnInit == UnInitManager("meta")
LocalCapabilityInfoManagerUnInit == UnInitManager("local")

InitEnd ==
    /\ life = "init" /\ todo = <<>>
    /\ QueryLocalHardware
    /\ life' = "up"
    /\ UNCHANGED <<todo, kvUp, observed, notes, adapterVars, deviceVars, missed, budget>>

InitBegin ==
    /\ life = "down"
    /\ Spend("lives")
    /\ life' = "init" /\ todo' = Stores
    /\ UNCHANGED <<kvVars, adapterVars, cache, deviceVars, missed, unclean>>

\* Release starts when no peer is left; VersionManager::UnInit forgets all versions.
ReleaseBegin ==
    /\ life = "up" /\ ~online /\ tasks = {}
    /\ life' = "release" /\ todo' = Stores
    /\ cache' = [cache EXCEPT !["ver"] = [k \in Key |-> 0]]
    /\ Missed("ver", Peer)
    /\ UNCHANGED <<kvVars, adapterVars, deviceVars, unclean, budget>>

ReleaseEnd ==
    /\ life = "release" /\ todo = <<>>
    /\ life' = "down"
    /\ UNCHANGED <<todo, kvVars, adapterVars, cache, deviceVars, missed, unclean, budget>>

-----------------------------------------------------------------------------
(* Specification *)

\* The stores hold the records of an earlier run.
Init ==
    /\ life = "down" /\ todo = <<>>
    /\ observed = {} /\ notes = [s \in Store |-> <<>>]
    /\ adapter = [s \in Store |-> "none"]
    /\ watched = {} /\ reinit = <<>> /\ running = NoStore /\ times = 0
    /\ recoverEvents = {}
    /\ cache = [s \in Store |-> [k \in Key |-> 0]]
    /\ online = FALSE /\ tosync = FALSE
    /\ enabled = {} /\ tasks = {}
    /\ missed = Store \X Peer /\ unclean = TRUE
    /\ kvUp = TRUE
    /\ db = [s \in Store |-> [k \in Key |-> IF s = "local" THEN 0 ELSE 1]]
    /\ plugged = Installed
    /\ budget = [events |-> MaxEvents, lives |-> MaxLives]

Managers ==
    \/ InitBegin \/ InitEnd \/ ReleaseBegin \/ ReleaseEnd
    \/ VersionInfoManagerInit \/ CapabilityInfoManagerInit \/ MetaInfoManagerInit
    \/ LocalCapabilityInfoManagerInit
    \/ VersionInfoManagerUnInit \/ CapabilityInfoManagerUnInit \/ MetaInfoManagerUnInit
    \/ LocalCapabilityInfoManagerUnInit
Resync == SyncRemoteVersionInfos \/ SyncRemoteCapabilityInfos \/ SyncRemoteMetaInfos
Tasks ==
    \/ Online \/ Offline \/ DoSyncInfo \/ RunTask \/ OnDeviceTrustChange
    \/ \E k \in Peer : GetVersion(k) \/ SaveAnswer(k)
Hardware == \E k \in Own : PluginHardware(k) \/ UnPluginHardware(k) \/ Replug(k)

Next ==
    \/ Managers \/ ReInitTask \/ ServiceDies \/ ServiceRestarts \/ PeerChange
    \/ (\E s \in Store : OnChange(s)) \/ Resync
    \/ Tasks \/ Hardware

\* The handler thread of DHContext keeps running its tasks.
Spec == Init /\ [][Next]_vars /\ WF_vars(ReInitTask)

-----------------------------------------------------------------------------
(* Properties *)

TypeOK ==
    /\ life \in {"down", "init", "up", "release"}
    /\ todo \in {SubSeq(Stores, i, 4) : i \in 1 .. 5}
    /\ db \in [Store -> [Key -> 0 .. MaxVersion]]
    /\ cache \in [Store -> [Key -> 0 .. MaxVersion]]
    /\ adapter \in [Store -> {"none", "null", "open", "stale"}]
    /\ observed \in SUBSET (Store \ {"local"})
    /\ {watched, recoverEvents} \subseteq SUBSET Store /\ reinit \in Seq(Store)
    /\ running \in Store \cup {NoStore} /\ times \in 0 .. DIED_CHECK_MAX_TIMES
    /\ missed \in SUBSET (Store \X Peer)
    /\ \A s \in Store : adapter[s] = "open" => kvUp

\* The record in memory of a peer that is online is the one in the store, once
\* the notifications on their way are delivered, and unless the manager was not
\* told of the last change or dropped it (the peer was offline, the hardware
\* enabled, no listener registered): loads from the store, late notifications
\* and the reload after a death of the kv service end up in agreement whatever
\* their order.
CacheAgrees ==
    \A s \in {"ver", "cap", "meta"}, k \in Peer :
        /\ online /\ db[s][k] # 0
        /\ <<s, k>> \notin missed
        /\ \A i \in DOMAIN notes[s] : notes[s][i].key # k
        => cache[s][k] = db[s][k]

\* The store describes the input hardware this device has, also after hardware
\* was changed behind the framework's back ("Failed to delete data when the
\* device restarts or other exception situation. So check and remove the
\* non-exist local capabilityInfo", QueryLocalHardware), unless the query came
\* back empty or an event was dropped since.
OwnRecordsReal ==
    life = "up" /\ ~unclean /\ Open("cap") =>
        {k \in Own : db["cap"][k] # 0} = plugged

\* A reInitTask comes to an end, so that the DHContext handler serves the next
\* one: DBDiedOpt gives up after DIED_CHECK_MAX_TIMES turns.
RecoveryEnds == running # NoStore ~> running = NoStore
=============================================================================
