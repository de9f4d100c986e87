-------------------------- MODULE ResourceDBProofs --------------------------
(***************************************************************************)
(* That the records in memory follow the ones in the store, and that the   *)
(* store describes this device's own hardware, for any number of hardware, *)
(* versions, changes, deaths of the kv service and lives of the framework. *)
(*                                                                         *)
(* CacheAgrees speaks of the moment when no notification is on its way. It *)
(* holds because of what is true until then: the last notification of a    *)
(* record on its way tells what the store holds. That in turn holds since  *)
(* the service keeps notifications only for stores that are observed, and  *)
(* a record that is changed unobserved is missed. A store that was made    *)
(* anew or a peer's logout empties records without a notification; an      *)
(* older notification may then bring back a record that is gone, until the *)
(* next change of it.                                                      *)
(***************************************************************************)
EXTENDS ResourceDB, TLAPS

Told3 == {"ver", "cap", "meta"}     \* the stores that peers change
Records == [Store -> [Key -> Nat]]
Note == [key : Peer, ver : Nat, was : Nat, from : {"device", "cloud"}]

DBTypes ==
    /\ db \in Records /\ cache \in Records
    /\ notes \in [Store -> Seq(Note)]
    /\ plugged \subseteq Own /\ unclean \in BOOLEAN

\* Nothing is on its way from a store that is not observed.
NotesObserved == \A s \in Store : s \notin observed => notes[s] = <<>>

\* Note i of a store is the last one of its record.
LastOf(s, i) ==
    \A j \in 1 .. Len(notes[s]) : i < j => notes[s][j].key # notes[s][i].key

\* The last note of a record tells what the store holds.
NotesCurrent ==
    \A s \in Told3 : \A i \in 1 .. Len(notes[s]) :
        LastOf(s, i) /\ db[s][notes[s][i].key] # 0 => notes[s][i].ver = db[s][notes[s][i].key]

OnItsWay(s, k) == \E i \in 1 .. Len(notes[s]) : notes[s][i].key = k

\* The record in memory is the one in the store, also of a peer that is offline,
\* when no note of it is on its way and it was not missed.
KeptAgrees ==
    \A s \in Told3, k \in Peer :
        db[s][k] # 0 /\ <<s, k>> \notin missed /\ ~OnItsWay(s, k) => cache[s][k] = db[s][k]

\* The store describes the hardware also while the kv service is away.
OwnSettled ==
    life = "up" /\ ~unclean => \A k \in Own : db["cap"][k] # 0 <=> k \in plugged

RecordInv == DBTypes /\ NotesObserved /\ NotesCurrent /\ KeptAgrees /\ OwnSettled

\* The stores hold what an earlier run left there, and nothing of it is known.
LEMMA RecordInit == Init => RecordInv
  <1> SUFFICES ASSUME Init PROVE RecordInv
    OBVIOUS
  <1>1. DBTypes /\ OwnSettled
    BY DBAssumption DEF Init, DBTypes, OwnSettled, Records
  <1>2. NotesObserved /\ NotesCurrent
    BY DEF Init, NotesObserved, NotesCurrent, Store, Told3
  <1>3. KeptAgrees
    BY DEF Init, KeptAgrees, Store, Told3
  <1> QED
    BY <1>1, <1>2, <1>3 DEF RecordInv

-----------------------------------------------------------------------------
(* The operations on stores and maps *)

\* PutData writes version 1 of the records given, if the store is open.
LEMMA PutDataWrites ==
    ASSUME NEW old \in Records, NEW s, NEW ks
    PROVE  /\ PutData(s, ks, old) \in Records
           /\ \A t \in Store, k \in Key :
                 PutData(s, ks, old)[t][k] =
                     IF Open(s) /\ t = s /\ k \in ks THEN 1 ELSE old[t][k]
  BY DEF PutData, Records

\* RemoveDataByKey removes the records given, if the store is open.
LEMMA RemoveDataRemoves ==
    ASSUME NEW old \in Records, NEW s, NEW ks
    PROVE  /\ RemoveDataByKey(s, ks, old) \in Records
           /\ \A t \in Store, k \in Key :
                 RemoveDataByKey(s, ks, old)[t][k] =
                     IF Open(s) /\ t = s /\ k \in ks THEN 0 ELSE old[t][k]
  BY DEF RemoveDataByKey, Records

\* InMemory touches the records given and no other.
LEMMA InMemoryWrites ==
    ASSUME NEW old \in Records, NEW s, NEW ks, NEW v \in Nat
    PROVE  /\ InMemory(s, ks, v, old) \in Records
           /\ \A t \in Store, k \in Key \ ks : InMemory(s, ks, v, old)[t][k] = old[t][k]
  BY DEF InMemory, Records

\* A load brings every record of a peer that an open store holds.
LEMMA LoadBrings ==
    ASSUME DBTypes, NEW s \in Store
    PROVE  /\ Loaded(s) \in [Key -> Nat]
           /\ \A k \in Peer : Loaded(s)[k] =
                 IF Open(s) /\ db[s][k] # 0 THEN db[s][k] ELSE cache[s][k]
  BY DEF DBTypes, Records, Loaded, GetDataByKeyPrefix, GetDataByKey, Key

-----------------------------------------------------------------------------
(* Steps that leave the notes alone *)

\* No record of a peer changes in a store but to disappear; one in memory stays
\* as it is, becomes the one of the store or is missed; what was missed stays so
\* unless memory and store agree.
Quiet ==
    /\ UNCHANGED notes /\ observed \subseteq observed'
    /\ \A s \in Told3, k \in Peer :
          /\ db'[s][k] \in {db[s][k], 0}
          /\ \/ db'[s][k] = 0 \/ cache'[s][k] = db'[s][k] \/ <<s, k>> \in missed'
             \/ cache'[s][k] = cache[s][k] /\ <<s, k>> \notin missed

\* A note is about a record of a peer.
LEMMA NoteTypes ==
    ASSUME DBTypes, NEW s \in Store, NEW i \in 1 .. Len(notes[s])
    PROVE  notes[s][i] \in Note /\ notes[s][i].key \in Peer /\ notes[s][i].ver \in Nat
  <1>1. notes[s] \in Seq(Note)
    BY DEF DBTypes
  <1>2. notes[s][i] \in Note
    BY <1>1
  <1> QED
    BY <1>2 DEF Note

\* Such a step keeps what is said of the notes and of the memory.
LEMMA QuietKeeps ==
    ASSUME RecordInv, Quiet
    PROVE  NotesObserved' /\ NotesCurrent' /\ KeptAgrees'
  <1>1. NotesObserved'
    BY DEF Quiet, RecordInv, NotesObserved
  <1>2. NotesCurrent'
    <2> SUFFICES ASSUME NEW s \in Told3, NEW i \in 1 .. Len(notes[s]), LastOf(s, i),
                        db'[s][notes[s][i].key] # 0
                 PROVE  notes[s][i].ver = db'[s][notes[s][i].key]
      BY DEF Quiet, NotesCurrent, LastOf
    <2>1. notes[s][i].key \in Peer
      BY NoteTypes DEF RecordInv, Told3, Store
    <2>2. db'[s][notes[s][i].key] = db[s][notes[s][i].key]
      BY <2>1 DEF Quiet
    <2> QED
      BY <2>2 DEF RecordInv, NotesCurrent
  <1>3. KeptAgrees'
    BY DEF Quiet, RecordInv, KeptAgrees, OnItsWay
  <1> QED
    BY <1>1, <1>2, <1>3

\* The variables the invariant reads.
recVars == <<life, db, cache, notes, observed, plugged, unclean, missed>>

\* The adapters, the handlers and the tasks are no part of the invariant.
LEMMA OthersKeep == RecordInv /\ UNCHANGED recVars => RecordInv'
  BY DEF recVars, RecordInv, DBTypes, NotesObserved, NotesCurrent, LastOf, KeptAgrees, OnItsWay,
         OwnSettled

\* The loads of the managers, by the OnLineTask, after a death of the service and
\* for a version that is not known.
LEMMA LoadsKeep ==
    ASSUME RecordInv,
           DoSyncInfo \/ Resync \/ \E k \in Peer : GetVersion(k)
    PROVE  RecordInv'
  <1> USE DEF RecordInv, DBTypes
  <1>1. CASE DoSyncInfo
    <2>1. cache' \in Records /\ UNCHANGED <<life, db, notes, observed, plugged, unclean>>
      BY <1>1, LoadBrings
      DEF DoSyncInfo, LocalInfoFromDB, MetaInfoFromDB, Records, Store, lifeVars, kvVars
    <2>2. \A k \in Peer : /\ cache'["meta"][k] = Loaded("meta")[k]
                          /\ cache'["ver"][k] = cache["ver"][k] /\ cache'["cap"][k] = cache["cap"][k]
      BY <1>1 DEF DoSyncInfo, LocalInfoFromDB, MetaInfoFromDB, Records, Store
    <2>3. missed' = missed \ ({s \in {"local", "meta"} : Open(s)} \X Peer)
      BY <1>1 DEF DoSyncInfo
    <2>4. Quiet
      BY <2>1, <2>2, <2>3, LoadBrings DEF Quiet, Told3, Store
    <2> QED
      BY <2>1, <2>4, QuietKeeps DEF OwnSettled
  <1>2. ASSUME NEW s \in Told3, SyncRemote(s)
        PROVE  RecordInv'
    <2>1. UNCHANGED <<life, db, notes, observed, plugged, unclean>>
      BY <1>2 DEF SyncRemote, lifeVars, kvVars, deviceVars
    <2>2. CASE online /\ Open(s)
      <3>1. cache' = [cache EXCEPT ![s] = Loaded(s)] /\ missed' = missed \ ({s} \X Peer)
        BY <1>2, <2>2 DEF SyncRemote, Caught
      <3>2. cache' \in Records
        BY <3>1, LoadBrings DEF Records, Told3, Store
      <3>3. Quiet
        BY <2>1, <2>2, <3>1, LoadBrings DEF Quiet, Told3, Store, Records
      <3> QED
        BY <2>1, <3>2, <3>3, QuietKeeps DEF OwnSettled
    <2>3. CASE ~(online /\ Open(s))
      BY <1>2, <2>1, <2>3, OthersKeep DEF SyncRemote, recVars
    <2> QED
      BY <2>2, <2>3
  <1>3. CASE Resync
    BY <1>2, <1>3
    DEF Resync, SyncRemoteVersionInfos, SyncRemoteCapabilityInfos, SyncRemoteMetaInfos, Told3
  <1>4. ASSUME NEW k \in Peer, GetVersion(k)
        PROVE  RecordInv'
    <2>1. /\ UNCHANGED <<life, db, notes, observed, plugged, unclean>>
          /\ cache' = [cache EXCEPT !["ver"][k] = db["ver"][k]]
          /\ missed' = missed \ ({"ver"} \X {k})
      BY <1>4 DEF GetVersion, GetVersionFromVerInfoMgr, GetVersionInfoByDeviceId, GetDataByKey,
                  Caught, lifeVars, kvVars, deviceVars
    <2>2. cache' \in Records
      BY <2>1 DEF Records, Key, Store
    <2>3. Quiet
      BY <2>1 DEF Quiet, Told3, Store, Records, Key
    <2> QED
      BY <2>1, <2>2, <2>3, QuietKeeps DEF OwnSettled
  <1> QED
    BY <1>1, <1>3, <1>4

\* The peer comes and goes; its answers and its logout change no record that the
\* invariant speaks of, or remove it.
LEMMA TasksKeep ==
    ASSUME RecordInv, Tasks
    PROVE  RecordInv'
  <1> USE DEF RecordInv
  <1>1. CASE DoSyncInfo \/ \E k \in Peer : GetVersion(k)
    BY <1>1, LoadsKeep
  <1>2. CASE Online \/ RunTask
    BY <1>2, OthersKeep DEF Online, RunTask, lifeVars, kvVars, recVars
  <1>3. CASE Offline
    <2>1. /\ UNCHANGED <<life, db, notes, observed, plugged, unclean>>
          /\ cache' = [cache EXCEPT !["cap"] = [k \in Key |-> IF k \in Peer THEN 0 ELSE @[k]]]
          /\ missed' = missed \cup ({"cap"} \X Peer)
      BY <1>3 DEF Offline, Missed, lifeVars, kvVars
    <2>2. cache' \in Records
      BY <2>1 DEF DBTypes, Records, Store
    <2>3. Quiet
      BY <2>1 DEF Quiet, DBTypes, Records, Told3, Store, Key
    <2> QED
      BY <2>1, <2>2, <2>3, QuietKeeps DEF DBTypes, OwnSettled
  <1>4. CASE OnDeviceTrustChange
    <2>1. /\ UNCHANGED <<life, cache, notes, observed, plugged, unclean, missed>>
          /\ db' = db \/ db' = RemoveDataByKey("meta", Peer, db)
      BY <1>4 DEF OnDeviceTrustChange, ClearMetaWhenPeerLogout, ClearDataWhenPeerLogout, lifeVars,
                  deviceVars
    <2>2. CASE db' = db
      BY <2>1, <2>2, OthersKeep DEF recVars
    <2>3. CASE db' = RemoveDataByKey("meta", Peer, db)
      <3>1. /\ db' \in Records
            /\ \A t \in Store, k \in Key :
                  db'[t][k] = IF Open("meta") /\ t = "meta" /\ k \in Peer THEN 0 ELSE db[t][k]
        BY <2>3, RemoveDataRemoves DEF DBTypes
      <3>2. Quiet
        BY <2>1, <3>1 DEF Quiet, Told3, Store, Key
      <3>3. OwnSettled'
        BY <2>1, <3>1 DEF OwnSettled, Store, Key
      <3> QED
        BY <2>1, <3>1, <3>2, <3>3, QuietKeeps DEF DBTypes
    <2> QED
      BY <2>1, <2>2, <2>3
  <1>5. ASSUME NEW x \in Peer, SaveAnswer(x)
        PROVE  RecordInv'
    <2>1. /\ UNCHANGED <<life, notes, observed, plugged, unclean, missed>>
          /\ cache' = [cache EXCEPT !["local"][x] = 1]
          /\ db' = PutData("local", {x}, db)
      BY <1>5 DEF SaveAnswer, lifeVars, deviceVars
    <2>2. /\ cache' \in Records
          /\ \A t \in Told3 : cache'[t] = cache[t]
      BY <2>1 DEF DBTypes, Records, Store, Told3, Key
    <2>3. /\ db' \in Records
          /\ \A t \in Told3, k \in Key : db'[t][k] = db[t][k]
      BY <2>1, PutDataWrites DEF DBTypes, Store, Told3
    <2>4. Quiet
      BY <2>1, <2>2, <2>3 DEF Quiet, KeptAgrees, OnItsWay, Key
    <2>5. OwnSettled'
      BY <2>1, <2>3 DEF OwnSettled, Told3, Key
    <2> QED
      BY <2>1, <2>2, <2>3, <2>4, <2>5, QuietKeeps DEF DBTypes
  <1> QED
    BY <1>1, <1>2, <1>3, <1>4, <1>5 DEF Tasks

\* Records of the peers are not touched when this device writes its own.
LEMMA OwnWritesQuiet ==
    ASSUME RecordInv, UNCHANGED <<notes, observed, missed>>,
           \A s \in Told3, k \in Peer : db'[s][k] = db[s][k] /\ cache'[s][k] = cache[s][k]
    PROVE  Quiet
  BY DEF Quiet

\* Hardware is plugged in and out, with the framework up or down.
LEMMA HardwareKeeps ==
    ASSUME RecordInv, Hardware
    PROVE  RecordInv'
  <1> USE DEF RecordInv
  <1>1. ASSUME NEW x \in Own, PluginHardware(x)
        PROVE  RecordInv'
    <2>1. /\ UNCHANGED <<life, notes, observed, missed>>
          /\ plugged' = plugged \cup {x} /\ x \notin plugged
          /\ \/ cache' = InMemory("cap", {x}, 1, cache) /\ db' = PutData("cap", {x}, db)
                /\ unclean' = (unclean \/ ~Open("cap"))
             \/ unclean' = TRUE /\ UNCHANGED <<cache, db>>
      BY <1>1 DEF PluginHardware, AddCapability, lifeVars, adapterVars
    <2>2. CASE unclean' = TRUE /\ UNCHANGED <<cache, db>>
      <3>1. DBTypes' /\ OwnSettled'
        BY <2>1, <2>2 DEF DBTypes, OwnSettled
      <3>2. Quiet
        BY <2>1, <2>2, OwnWritesQuiet
      <3> QED
        BY <3>1, <3>2, QuietKeeps
    <2>3. CASE /\ cache' = InMemory("cap", {x}, 1, cache) /\ db' = PutData("cap", {x}, db)
               /\ unclean' = (unclean \/ ~Open("cap"))
      <3>1. /\ cache' \in Records
            /\ \A t \in Store, k \in Key \ {x} : cache'[t][k] = cache[t][k]
        BY <2>3, InMemoryWrites DEF DBTypes
      <3>2. /\ db' \in Records
            /\ \A t \in Store, k \in Key :
                  db'[t][k] = IF Open("cap") /\ t = "cap" /\ k \in {x} THEN 1 ELSE db[t][k]
        BY <2>3, PutDataWrites DEF DBTypes
      <3>3. \A k \in Peer : k \in Key \ {x}
        BY DBAssumption DEF Key
      <3>4. Quiet
        BY <2>1, <3>1, <3>2, <3>3, OwnWritesQuiet DEF Told3, Store
      <3>5. OwnSettled'
        <4>1. ~unclean' => ~unclean /\ Open("cap")
          BY <2>3
        <4>2. \A k \in Own : k \in Key /\ "cap" \in Store
          BY DEF Key, Store
        <4> QED
          BY <2>1, <3>2, <4>1, <4>2 DEF OwnSettled
      <3>6. DBTypes'
        BY <2>1, <2>3, <3>1, <3>2 DEF DBTypes
      <3> QED
        BY <3>4, <3>5, <3>6, QuietKeeps
    <2> QED
      BY <2>1, <2>2, <2>3
  <1>2. ASSUME NEW x \in Own, UnPluginHardware(x)
        PROVE  RecordInv'
    <2>1. /\ UNCHANGED <<life, notes, observed, missed>>
          /\ plugged' = plugged \ {x}
          /\ \/ cache' = InMemory("cap", {x}, 0, cache) /\ db' = RemoveDataByKey("cap", {x}, db)
                /\ unclean' = (unclean \/ ~Open("cap"))
             \/ unclean' = TRUE /\ UNCHANGED <<cache, db>>
      BY <1>2 DEF UnPluginHardware, RemoveCapabilityInfoByKey, lifeVars, adapterVars
    <2>2. CASE unclean' = TRUE /\ UNCHANGED <<cache, db>>
      <3>1. DBTypes' /\ OwnSettled'
        BY <2>1, <2>2 DEF DBTypes, OwnSettled
      <3>2. Quiet
        BY <2>1, <2>2, OwnWritesQuiet
      <3> QED
        BY <3>1, <3>2, QuietKeeps
    <2>3. CASE /\ cache' = InMemory("cap", {x}, 0, cache) /\ db' = RemoveDataByKey("cap", {x}, db)
               /\ unclean' = (unclean \/ ~Open("cap"))
      <3>1. /\ cache' \in Records
            /\ \A t \in Store, k \in Key \ {x} : cache'[t][k] = cache[t][k]
        BY <2>3, InMemoryWrites DEF DBTypes
      <3>2. /\ db' \in Records
            /\ \A t \in Store, k \in Key :
                  db'[t][k] = IF Open("cap") /\ t = "cap" /\ k \in {x} THEN 0 ELSE db[t][k]
        BY <2>3, RemoveDataRemoves DEF DBTypes
      <3>3. \A k \in Peer : k \in Key \ {x}
        BY DBAssumption DEF Key
      <3>4. Quiet
        BY <2>1, <3>1, <3>2, <3>3, OwnWritesQuiet DEF Told3, Store
      <3>5. OwnSettled'
        <4>1. ~unclean' => ~unclean /\ Open("cap")
          BY <2>3
        <4>2. \A k \in Own : k \in Key /\ "cap" \in Store
          BY DEF Key, Store
        <4> QED
          BY <2>1, <3>2, <4>1, <4>2 DEF OwnSettled
      <3>6. DBTypes'
        BY <2>1, <2>3, <3>1, <3>2 DEF DBTypes
      <3> QED
        BY <3>4, <3>5, <3>6, QuietKeeps
    <2> QED
      BY <2>1, <2>2, <2>3
  <1>3. ASSUME NEW x \in Own, Replug(x)
        PROVE  RecordInv'
    <2>1. /\ UNCHANGED <<life, db, cache, notes, observed, missed>>
          /\ unclean' = TRUE /\ plugged' \subseteq Own
      BY <1>3 DEF Replug, lifeVars, kvVars, DBTypes
    <2>2. DBTypes' /\ OwnSettled'
      BY <2>1 DEF DBTypes, OwnSettled
    <2>3. Quiet
      BY <2>1, OwnWritesQuiet
    <2> QED
      BY <2>2, <2>3, QuietKeeps
  <1> QED
    BY <1>1, <1>2, <1>3 DEF Hardware

-----------------------------------------------------------------------------
(* Initialisation and release *)

\* A manager opens its store, which may be made anew on the way.
LEMMA InitManagerKeeps ==
    ASSUME RecordInv, NEW s \in Store, InitManager(s)
    PROVE  RecordInv'
  <1> USE DEF RecordInv
  <1>1. /\ UNCHANGED <<life, notes, cache, plugged, unclean>> /\ life = "init"
        /\ observed \subseteq observed'
        /\ db' = db \/ db' = [db EXCEPT ![s] = [k \in Key |-> 0]]
        /\ missed' = IF db' = db THEN missed ELSE missed \ ({s} \X Peer)
    BY DEF InitManager, AdapterInit, AdapterInitLocal, GetKvStorePtr, NoKvStorePtr,
           RegisterChangeListener, RegisterKvStoreDeathListener, deviceVars
  <1>2. /\ db' \in Records
        /\ \A t \in Store, k \in Key : db'[t][k] = db[t][k] \/ (t = s /\ db'[t][k] = 0)
    <2>1. db \in [Store -> [Key -> Nat]]
      BY DEF DBTypes, Records
    <2>2. CASE db' = db
      BY <2>1, <2>2 DEF Records
    <2>3. CASE db' = [db EXCEPT ![s] = [k \in Key |-> 0]]
      BY <2>1, <2>3 DEF Records
    <2> QED
      BY <1>1, <2>2, <2>3
  <1>3. DBTypes' /\ OwnSettled'
    BY <1>1, <1>2 DEF DBTypes, OwnSettled
  <1>4. Quiet
    <2> SUFFICES ASSUME NEW t \in Told3, NEW k \in Peer
                 PROVE  /\ db'[t][k] \in {db[t][k], 0}
                        /\ \/ db'[t][k] = 0 \/ <<t, k>> \in missed'
                           \/ <<t, k>> \notin missed
      BY <1>1 DEF Quiet
    <2>1. t \in Store /\ k \in Key
      BY DEF Told3, Store, Key
    <2>2. CASE db' = db
      BY <1>1, <2>2
    <2>3. CASE db' # db /\ t = s
      BY <1>1, <2>1, <2>3 DEF DBTypes, Records
    <2>4. CASE db' # db /\ t # s
      BY <1>1, <1>2, <2>1, <2>4
    <2> QED
      BY <2>2, <2>3, <2>4
  <1> QED
    BY <1>3, <1>4, QuietKeeps

\* The end of the initialisation: what the store says of this device's hardware
\* is corrected, or known to be unclean.
LEMMA InitEndKeeps ==
    ASSUME RecordInv, InitEnd
    PROVE  RecordInv'
  <1> USE DEF RecordInv
  <1> DEFINE versions == StoreLocalDHVersionInDB
             gone == CheckNonExistCapabilityInfo
             removed == RemoveDataByKey("cap", gone, versions)
             added == PutData("cap", plugged, removed)
             cleared == InMemory("cap", gone, 0, cache)
             known == InMemory("cap", plugged, 1, cleared)
  <1>1. UNCHANGED <<notes, observed, plugged, missed>> /\ QueryLocalHardware
    BY DEF InitEnd, deviceVars
  <1>2. /\ versions \in Records
        /\ \A t \in Store, k \in Key : versions[t][k] = db[t][k] \/ (t = "ver" /\ k \in Own)
    BY PutDataWrites DEF StoreLocalDHVersionInDB, AddVersion, DBTypes
  <1>3. gone \subseteq Own /\ (Open("cap") => gone = {k \in Own : db["cap"][k] # 0} \ plugged)
    BY DEF CheckNonExistCapabilityInfo, GetLocalCapabilityMapByPrefix, GetDataByKeyPrefix, GetDataByKey
  <1>4. \A k \in Own : k \in Key /\ k \notin Peer
    BY DBAssumption DEF Key
  <1>5. Peer \subseteq Key /\ Told3 \subseteq Store /\ plugged \subseteq Own
    BY DEF Key, Told3, Store, DBTypes
  <1>6. CASE plugged = {}
    <2>1. unclean' = TRUE /\ db' = versions /\ UNCHANGED cache
      BY <1>1, <1>6 DEF QueryLocalHardware
    <2>2. DBTypes' /\ OwnSettled'
      BY <1>1, <1>2, <2>1 DEF DBTypes, OwnSettled
    <2>3. Quiet
      BY <1>1, <1>2, <1>4, <1>5, <2>1, OwnWritesQuiet
    <2> QED
      BY <2>2, <2>3, QuietKeeps
  <1>7. CASE plugged # {}
    <2>1. /\ cache' = InMemory("meta", plugged, 1, known)
          /\ db' = PutData("meta", plugged, added)
          /\ unclean' = ~Open("cap")
      BY <1>1, <1>7 DEF QueryLocalHardware, AddLocalMetaCapInfo, AddLocalCapabilityInfo
    <2>2. /\ removed \in Records
          /\ \A t \in Store, k \in Key :
                removed[t][k] = IF Open("cap") /\ t = "cap" /\ k \in gone THEN 0 ELSE versions[t][k]
      BY <1>2, RemoveDataRemoves
    <2>3. /\ added \in Records
          /\ \A t \in Store, k \in Key :
                added[t][k] = IF Open("cap") /\ t = "cap" /\ k \in plugged THEN 1 ELSE removed[t][k]
      BY <2>2, PutDataWrites
    <2>4. /\ db' \in Records
          /\ \A t \in Store, k \in Key :
                db'[t][k] = IF Open("meta") /\ t = "meta" /\ k \in plugged THEN 1 ELSE added[t][k]
      BY <2>1, <2>3, PutDataWrites
    <2>5. /\ cleared \in Records
          /\ \A t \in Store, k \in Key \ gone : cleared[t][k] = cache[t][k]
      BY InMemoryWrites DEF DBTypes
    <2>6. /\ known \in Records
          /\ \A t \in Store, k \in Key \ plugged : known[t][k] = cleared[t][k]
      BY <2>5, InMemoryWrites
    <2>7. /\ cache' \in Records
          /\ \A t \in Store, k \in Key \ plugged : cache'[t][k] = known[t][k]
      BY <2>1, <2>6, InMemoryWrites
    <2> HIDE DEF versions, gone, removed, added, cleared, known
    <2>8. DBTypes'
      BY <1>1, <2>1, <2>4, <2>7 DEF DBTypes
    <2>9. Quiet
      <3>1. \A k \in Peer : k \in Key /\ k \notin Own /\ k \notin gone /\ k \notin plugged
        BY <1>3, <1>4, <1>5
      <3>2. \A t \in Told3, k \in Peer : db'[t][k] = db[t][k]
        BY <1>2, <1>5, <2>2, <2>3, <2>4, <3>1
      <3>3. \A t \in Told3, k \in Peer : cache'[t][k] = cache[t][k]
        BY <1>5, <2>5, <2>6, <2>7, <3>1
      <3> QED
        BY <1>1, <3>2, <3>3, OwnWritesQuiet
    <2>10. OwnSettled'
      <3> SUFFICES ASSUME Open("cap"), NEW k \in Own
                   PROVE  db'["cap"][k] # 0 <=> k \in plugged
        BY <1>1, <2>1 DEF OwnSettled
      <3>1. "cap" \in Store /\ "cap" # "ver" /\ "cap" # "meta"
        BY DEF Store
      <3>2. versions["cap"][k] = db["cap"][k]
        BY <1>2, <1>4, <3>1
      <3>3. db'["cap"][k] = added["cap"][k]
        BY <1>4, <2>4, <3>1
      <3>4. CASE k \in plugged
        BY <1>4, <2>3, <3>1, <3>3, <3>4
      <3>5. CASE k \notin plugged
        <4>1. db'["cap"][k] = removed["cap"][k]
          BY <1>4, <2>3, <3>1, <3>3, <3>5
        <4>2. db["cap"][k] # 0 => k \in gone
          BY <1>3, <3>5
        <4> QED
          BY <1>4, <2>2, <3>1, <3>2, <3>5, <4>1, <4>2
      <3> QED
        BY <3>4, <3>5
    <2> QED
      BY <2>8, <2>9, <2>10, QuietKeeps
  <1> QED
    BY <1>6, <1>7

\* The managers come up and go down.
LEMMA ManagersKeep ==
    ASSUME RecordInv, Managers
    PROVE  RecordInv'
  <1> USE DEF RecordInv
  <1>1. CASE InitEnd
    BY <1>1, InitEndKeeps
  <1>2. CASE \E s \in Store : InitManager(s)
    BY <1>2, InitManagerKeeps
  <1>3. CASE InitBegin \/ ReleaseEnd \/ \E s \in Store : UnInitManager(s)
    <2>1. /\ UNCHANGED <<db, cache, notes, observed, plugged, unclean, missed>>
          /\ life' # "up"
      BY <1>3 DEF InitBegin, ReleaseEnd, UnInitManager, kvVars, deviceVars
    <2>2. DBTypes' /\ OwnSettled'
      BY <2>1 DEF DBTypes, OwnSettled
    <2>3. Quiet
      BY <2>1, OwnWritesQuiet
    <2> QED
      BY <2>2, <2>3, QuietKeeps
  <1>4. CASE ReleaseBegin
    <2>1. /\ UNCHANGED <<db, notes, observed, plugged, unclean>>
          /\ life' # "up"
          /\ cache' = [cache EXCEPT !["ver"] = [k \in Key |-> 0]]
          /\ missed' = missed \cup ({"ver"} \X Peer)
      BY <1>4 DEF ReleaseBegin, Missed, kvVars, deviceVars
    <2>2. DBTypes' /\ OwnSettled'
      BY <2>1 DEF DBTypes, OwnSettled, Records
    <2>3. Quiet
      BY <2>1 DEF Quiet, DBTypes, Records, Told3, Store
    <2> QED
      BY <2>2, <2>3, QuietKeeps
  <1> QED
    BY <1>1, <1>2, <1>3, <1>4
    DEF Managers, Store, VersionInfoManagerInit, CapabilityInfoManagerInit, MetaInfoManagerInit,
        LocalCapabilityInfoManagerInit, VersionInfoManagerUnInit, CapabilityInfoManagerUnInit,
        MetaInfoManagerUnInit, LocalCapabilityInfoManagerUnInit

-----------------------------------------------------------------------------
(* Notes *)

\* The process ends, or the handler works on an adapter.
LEMMA ReInitKeeps ==
    ASSUME RecordInv, ReInitTask
    PROVE  RecordInv'
  <1> USE DEF RecordInv
  <1>1. ProcessEnds \/ UNCHANGED recVars
    BY DEF ReInitTask, recVars, lifeVars, kvVars, deviceVars
  <1>2. CASE ProcessEnds
    <2>1. /\ UNCHANGED <<db, plugged>> /\ life' = "down" /\ unclean' = TRUE
          /\ notes' = [s \in Store |-> <<>>] /\ missed' = Store \X Peer
          /\ cache' = [s \in Store |-> [k \in Key |-> 0]]
      BY <1>2 DEF ProcessEnds
    <2>2. DBTypes' /\ OwnSettled'
      BY <2>1 DEF DBTypes, OwnSettled, Records
    <2>3. NotesObserved' /\ NotesCurrent'
      BY <2>1 DEF NotesObserved, NotesCurrent, Told3, Store
    <2>4. KeptAgrees'
      BY <2>1 DEF KeptAgrees, Told3, Store
    <2> QED
      BY <2>2, <2>3, <2>4
  <1> QED
    BY <1>1, <1>2, OthersKeep

\* The kv service dies with its notes: what they would have told is missed.
LEMMA ServiceDiesKeeps ==
    ASSUME RecordInv, ServiceDies
    PROVE  RecordInv'
  <1> USE DEF RecordInv
  <1>1. /\ UNCHANGED <<life, db, cache, plugged, unclean>>
        /\ notes' = [s \in Store |-> <<>>]
        /\ missed' = missed \cup {p \in Store \X Peer :
                        \E i \in DOMAIN notes[p[1]] : notes[p[1]][i].key = p[2]}
    BY DEF ServiceDies, lifeVars, deviceVars
  <1>2. DBTypes' /\ OwnSettled'
    BY <1>1 DEF DBTypes, OwnSettled
  <1>3. NotesObserved' /\ NotesCurrent'
    BY <1>1 DEF NotesObserved, NotesCurrent, Told3, Store
  <1>4. KeptAgrees'
    <2> SUFFICES ASSUME NEW s \in Told3, NEW k \in Peer, db[s][k] # 0, <<s, k>> \notin missed'
                 PROVE  cache[s][k] = db[s][k]
      BY <1>1 DEF KeptAgrees
    <2>1. s \in Store /\ DOMAIN notes[s] = 1 .. Len(notes[s])
      BY DEF Told3, Store, DBTypes
    <2>2. <<s, k>> \in Store \X Peer /\ <<s, k>> \notin missed /\ ~OnItsWay(s, k)
      BY <1>1, <2>1 DEF OnItsWay
    <2> QED
      BY <2>2 DEF KeptAgrees
  <1> QED
    BY <1>2, <1>3, <1>4

\* A record of a peer changes in the store, with a note or unobserved.
LEMMA PeerChangeKeeps ==
    ASSUME RecordInv, PeerChange
    PROVE  RecordInv'
  <1> USE DEF RecordInv
  <1> DEFINE Change(s, x, v, from) ==
                 /\ db' = [db EXCEPT ![s][x] = v]
                 /\ IF s \in observed
                    THEN /\ notes' = [notes EXCEPT ![s] = Append(@, Touch(s, x, from))]
                         /\ UNCHANGED missed
                    ELSE Missed(s, {x}) /\ UNCHANGED notes
  <1>0. PICK s \in Told3, x \in Peer, v \in 0 .. MaxVersion :
            \E from \in {"device"} \cup (IF s = "meta" THEN {"cloud"} ELSE {}) : Change(s, x, v, from)
    BY Zenon DEF PeerChange, Told3
  <1>1. PICK from \in {"device", "cloud"} : Change(s, x, v, from)
    <2> HIDE DEF Change
    <2> QED
      BY <1>0
  <1>2. UNCHANGED <<life, observed, cache, plugged, unclean>>
    BY DEF PeerChange, lifeVars, deviceVars
  <1>3. s \in Store /\ x \in Key /\ v \in Nat /\ x \notin Own
    BY DBAssumption DEF Told3, Store, Key
  <1>4. /\ db' \in Records /\ db'[s][x] = v
        /\ \A t \in Store, k \in Key : t # s \/ k # x => db'[t][k] = db[t][k]
    BY <1>1, <1>3 DEF DBTypes, Records
  <1>5. OwnSettled'
    BY <1>2, <1>3, <1>4 DEF OwnSettled, Store, Key
  <1>6. CASE s \notin observed
    <2>1. UNCHANGED notes /\ missed' = missed \cup ({s} \X {x}) /\ notes[s] = <<>>
      BY <1>1, <1>3, <1>6 DEF Missed, NotesObserved
    <2>2. DBTypes'
      BY <1>2, <1>4, <2>1 DEF DBTypes
    <2>3. NotesObserved'
      BY <1>2, <2>1 DEF NotesObserved
    <2>4. NotesCurrent'
      <3> SUFFICES ASSUME NEW t \in Told3, NEW i \in 1 .. Len(notes[t]), LastOf(t, i),
                          db'[t][notes[t][i].key] # 0
                   PROVE  notes[t][i].ver = db'[t][notes[t][i].key]
        BY <2>1 DEF NotesCurrent, LastOf
      <3>1. t # s /\ t \in Store
        BY <2>1 DEF Told3, Store
      <3>2. notes[t][i].key \in Key
        BY <3>1, NoteTypes DEF Key
      <3> QED
        BY <1>4, <3>1, <3>2 DEF NotesCurrent
    <2>5. KeptAgrees'
      BY <1>2, <1>4, <2>1 DEF KeptAgrees, OnItsWay, Told3, Store, Key
    <2> QED
      BY <1>5, <2>2, <2>3, <2>4, <2>5
  <1>7. CASE s \in observed
    <2> DEFINE note == Touch(s, x, from)
    <2>1. notes' = [notes EXCEPT ![s] = Append(@, note)] /\ UNCHANGED missed
      BY <1>1, <1>7
    <2>2. note \in Note /\ note.key = x /\ note.ver = v
      BY <1>3, <1>4 DEF Touch, Note, DBTypes, Records
    <2> HIDE DEF note
    <2>3. /\ notes' \in [Store -> Seq(Note)]
          /\ \A t \in Store : t # s => notes'[t] = notes[t]
          /\ notes'[s] = Append(notes[s], note)
      BY <1>3, <2>1, <2>2 DEF DBTypes
    <2>4. /\ Len(notes'[s]) = Len(notes[s]) + 1 /\ notes'[s][Len(notes[s]) + 1] = note
          /\ \A i \in 1 .. Len(notes[s]) : notes'[s][i] = notes[s][i]
          /\ Len(notes[s]) \in Nat
      <3>1. notes[s] \in Seq(Note)
        BY <1>3 DEF DBTypes
      <3> QED
        BY <2>2, <2>3, <3>1
    <2>5. DBTypes'
      BY <1>2, <1>4, <2>3 DEF DBTypes
    <2>6. NotesObserved'
      BY <1>2, <1>7, <2>3 DEF NotesObserved
    <2>7. NotesCurrent'
      <3> SUFFICES ASSUME NEW t \in Told3, NEW i \in 1 .. Len(notes'[t]), LastOf(t, i)',
                          db'[t][notes'[t][i].key] # 0
                   PROVE  notes'[t][i].ver = db'[t][notes'[t][i].key]
        BY DEF NotesCurrent
      <3>1. t \in Store
        BY DEF Told3, Store
      <3>2. CASE t # s
        <4>1. notes'[t] = notes[t]
          BY <2>3, <3>1, <3>2
        <4>2. LastOf(t, i) /\ notes[t][i].key \in Key
          BY <3>1, <4>1, NoteTypes DEF LastOf, Key
        <4>3. db'[t][notes[t][i].key] = db[t][notes[t][i].key]
          BY <1>4, <3>1, <3>2, <4>2
        <4> QED
          BY <4>1, <4>2, <4>3 DEF NotesCurrent
      <3>3. CASE t = s /\ i = Len(notes[s]) + 1
        BY <1>4, <2>2, <2>4, <3>3
      <3>4. CASE t = s /\ i # Len(notes[s]) + 1
        <4>1. i \in 1 .. Len(notes[s])
          BY <2>4, <3>4
        <4>2. notes[s][i].key # x /\ notes[s][i].key \in Key
          <5>1. notes[s][i].key \in Key
            BY <1>3, <4>1, NoteTypes DEF Key
          <5>2. Len(notes[s]) + 1 \in 1 .. Len(notes'[s]) /\ i < Len(notes[s]) + 1
            BY <2>4, <4>1
          <5>3. notes'[s][Len(notes[s]) + 1].key # notes'[s][i].key
            BY <3>4, <5>2 DEF LastOf
          <5> QED
            BY <2>2, <2>4, <4>1, <5>1, <5>3
        <4>3. LastOf(s, i)
          <5> SUFFICES ASSUME NEW j \in 1 .. Len(notes[s]), i < j
                       PROVE  notes[s][j].key # notes[s][i].key
            BY DEF LastOf
          <5>1. j \in 1 .. Len(notes'[s])
            BY <2>4
          <5>2. notes'[s][j].key # notes'[s][i].key
            BY <3>4, <5>1 DEF LastOf
          <5> QED
            BY <2>4, <4>1, <5>2
        <4>4. db'[s][notes[s][i].key] = db[s][notes[s][i].key]
          BY <1>3, <1>4, <4>2
        <4> QED
          BY <2>4, <3>4, <4>1, <4>3, <4>4 DEF NotesCurrent
      <3> QED
        BY <3>2, <3>3, <3>4
    <2>8. KeptAgrees'
      <3> SUFFICES ASSUME NEW t \in Told3, NEW k \in Peer, db'[t][k] # 0, <<t, k>> \notin missed,
                          ~OnItsWay(t, k)'
                   PROVE  cache[t][k] = db'[t][k]
        BY <1>2, <2>1 DEF KeptAgrees
      <3>1. t \in Store /\ k \in Key
        BY DEF Told3, Store, Key
      <3>2. ~(t = s /\ k = x)
        BY <2>2, <2>4 DEF OnItsWay
      <3>3. ~OnItsWay(t, k)
        <4>1. CASE t = s
          <5> SUFFICES ASSUME NEW i \in 1 .. Len(notes[s]), notes[s][i].key = k
                       PROVE  FALSE
            BY <4>1 DEF OnItsWay
          <5>1. i \in 1 .. Len(notes'[s]) /\ notes'[s][i].key = k
            BY <2>4
          <5> QED
            BY <4>1, <5>1 DEF OnItsWay
        <4>2. CASE t # s
          BY <2>3, <3>1, <4>2 DEF OnItsWay
        <4> QED
          BY <4>1, <4>2
      <3> QED
        BY <1>4, <3>1, <3>2, <3>3 DEF KeptAgrees
    <2> QED
      BY <1>5, <2>5, <2>6, <2>7, <2>8
  <1> QED
    BY <1>6, <1>7

\* What a manager does with a note: it drops it, or keeps the record it tells of
\* or the one that is in the store.
Dropped(s, n) == UNCHANGED cache /\ missed' = missed \cup ({s} \X {n.key})
Kept(s, n) ==
    /\ cache' = [cache EXCEPT ![s][n.key] = n.ver] \/ cache' = [cache EXCEPT ![s][n.key] = db[s][n.key]]
    /\ missed' = missed \/ missed' = missed \ ({s} \X {n.key})

\* Each OnChange does one of the two, whatever the kind of change.
LEMMA NoteTaken ==
    ASSUME NEW s \in Store, OnChange(s)
    PROVE  s \in Told3 /\ (Dropped(s, Head(notes[s])) \/ Kept(s, Head(notes[s])))
  <1> DEFINE n == Head(notes[s])
  <1>1. ASSUME Drop(s, n) PROVE Dropped(s, n)
    BY <1>1 DEF Drop, Dropped, Missed
  <1>2. ASSUME NEW v \in {n.ver, db[s][n.key]}, Keep(s, n, v) PROVE Kept(s, n)
    BY <1>2 DEF Keep, Kept, Told, Caught
  <1>3. ASSUME s = "ver", HandleVersionChange(n)
        PROVE  Drop(s, n) \/ Keep(s, n, n.ver)
    BY <1>3 DEF HandleVersionChange, UpdateVersionCache
  <1>4. ASSUME s = "cap", CapabilityOnChange(n)
        PROVE  Drop(s, n) \/ Keep(s, n, n.ver)
    BY <1>4 DEF CapabilityOnChange, HandleCapabilityDeleteChange, HandleCapabilityAddChange,
                HandleCapabilityUpdateChange
  <1>5. ASSUME s = "meta", MetaOnChange(n)
        PROVE  Drop(s, n) \/ Keep(s, n, n.ver) \/ Keep(s, n, db[s][n.key])
    <2> DEFINE v == IF n.from = "cloud" THEN GetEntriesByKeys("meta", n.key) ELSE n.ver
    <2>1. \/ Drop(s, n)
          \/ ~(n.from = "cloud" /\ (n.ver = 0 \/ v = 0)) /\ (Keep(s, n, v) \/ (n.ver = 0 /\ Keep(s, n, 0)))
      BY <1>5 DEF MetaOnChange, HandleMetaCapabilityDeleteChange, HandleMetaCapabilityAddChange,
                  HandleMetaCapabilityUpdateChange
    <2>2. n.from = "cloud" /\ v # 0 => v = db[s][n.key]
      BY <1>5 DEF GetEntriesByKeys, GetDataByKey
    <2>3. n.from # "cloud" => v = n.ver
      OBVIOUS
    <2> QED
      BY <2>1, <2>2, <2>3
  <1> HIDE DEF n
  <1>6. Dropped(s, n) \/ Kept(s, n)
    <2>1. \/ s = "ver" /\ HandleVersionChange(n)
          \/ s = "cap" /\ CapabilityOnChange(n)
          \/ s = "meta" /\ MetaOnChange(n)
      BY DEF OnChange, n
    <2> QED
      BY <2>1, <1>1, <1>2, <1>3, <1>4, <1>5
  <1> QED
    BY <1>6 DEF OnChange, Told3, n

\* A note is delivered. If it was the last of its record it told what the store
\* holds, and memory now agrees or the record is missed.
LEMMA OnChangeKeeps ==
    ASSUME RecordInv, NEW s \in Store, OnChange(s)
    PROVE  RecordInv'
  <1> USE DEF RecordInv
  <1> DEFINE n == notes[s][1]
  <1>1. /\ UNCHANGED <<life, db, observed, plugged, unclean>>
        /\ notes' = [notes EXCEPT ![s] = Tail(@)]
    BY DEF OnChange, lifeVars
  <1>2. s \in Told3 /\ (Dropped(s, n) \/ Kept(s, n))
    BY NoteTaken DEF DBTypes
  <1>3. notes[s] \in Seq(Note) /\ notes[s] # <<>>
    BY DEF DBTypes, OnChange
  <1>4. /\ Len(notes[s]) \in Nat \ {0} /\ 1 \in 1 .. Len(notes[s])
        /\ Tail(notes[s]) \in Seq(Note) /\ Len(Tail(notes[s])) = Len(notes[s]) - 1
        /\ \A i \in 1 .. Len(notes[s]) - 1 : Tail(notes[s])[i] = notes[s][i + 1]
    BY <1>3
  <1>5. n.key \in Peer /\ n.ver \in Nat /\ n.key \in Key
    BY <1>4, NoteTypes DEF Key
  <1>6. /\ notes' \in [Store -> Seq(Note)] /\ notes'[s] = Tail(notes[s])
        /\ \A t \in Store : t # s => notes'[t] = notes[t]
    BY <1>1, <1>4 DEF DBTypes
  <1> HIDE DEF n
  <1>7. /\ cache' \in Records
        /\ \A t \in Store, k \in Key : t # s \/ k # n.key => cache'[t][k] = cache[t][k]
    <2>1. cache \in [Store -> [Key -> Nat]] /\ db[s][n.key] \in Nat
      BY <1>5 DEF DBTypes, Records
    <2>2. ASSUME NEW v \in Nat, cache' = [cache EXCEPT ![s][n.key] = v]
          PROVE  /\ cache' \in Records
                 /\ \A t \in Store, k \in Key : t # s \/ k # n.key => cache'[t][k] = cache[t][k]
      BY <1>5, <2>1, <2>2 DEF Records
    <2>3. CASE UNCHANGED cache
      BY <2>1, <2>3 DEF Records
    <2> QED
      BY <1>2, <1>5, <2>1, <2>2, <2>3 DEF Dropped, Kept
  <1>8. \/ <<s, n.key>> \in missed'
        \/ cache'[s][n.key] \in {n.ver, db[s][n.key]}
    BY <1>2, <1>5 DEF Dropped, Kept, DBTypes, Records
  <1>9. \A t \in Told3, k \in Peer : t # s \/ k # n.key => (<<t, k>> \in missed' <=> <<t, k>> \in missed)
    BY <1>2 DEF Dropped, Kept
  <1>10. DBTypes' /\ OwnSettled'
    BY <1>1, <1>6, <1>7 DEF DBTypes, OwnSettled
  <1>11. NotesObserved'
    BY <1>1, <1>3, <1>6 DEF NotesObserved
  <1>12. NotesCurrent'
    <2> SUFFICES ASSUME NEW t \in Told3, NEW i \in 1 .. Len(notes'[t]), LastOf(t, i)',
                        db[t][notes'[t][i].key] # 0
                 PROVE  notes'[t][i].ver = db[t][notes'[t][i].key]
      BY <1>1 DEF NotesCurrent
    <2>1. CASE t # s
      <3>1. notes'[t] = notes[t]
        BY <1>6, <2>1 DEF Told3, Store
      <3> QED
        BY <3>1 DEF NotesCurrent, LastOf
    <2>2. CASE t = s
      <3>1. i + 1 \in 1 .. Len(notes[s]) /\ notes'[s][i] = notes[s][i + 1]
        BY <1>4, <1>6, <2>2
      <3>2. LastOf(s, i + 1)
        <4> SUFFICES ASSUME NEW j \in 1 .. Len(notes[s]), i + 1 < j
                     PROVE  notes[s][j].key # notes[s][i + 1].key
          BY DEF LastOf
        <4>1. j - 1 \in 1 .. Len(notes'[s]) /\ i < j - 1 /\ notes'[s][j - 1] = notes[s][j]
          BY <1>4, <1>6, <2>2
        <4> QED
          BY <2>2, <3>1, <4>1 DEF LastOf
      <3> QED
        BY <2>2, <3>1, <3>2 DEF NotesCurrent
    <2> QED
      BY <2>1, <2>2
  <1>13. KeptAgrees'
    <2> SUFFICES ASSUME NEW t \in Told3, NEW k \in Peer, db[t][k] # 0, <<t, k>> \notin missed',
                        ~OnItsWay(t, k)'
                 PROVE  cache'[t][k] = db[t][k]
      BY <1>1 DEF KeptAgrees
    <2>1. t \in Store /\ k \in Key
      BY DEF Told3, Store, Key
    <2>2. CASE t # s
      <3>1. ~OnItsWay(t, k)
        BY <1>6, <2>1, <2>2 DEF OnItsWay
      <3> QED
        BY <1>7, <1>9, <2>1, <2>2, <3>1 DEF KeptAgrees
    <2>3. CASE t = s
      <3>1. \A j \in 1 .. Len(notes[s]) : 1 < j => notes[s][j].key # k
        <4> SUFFICES ASSUME NEW j \in 1 .. Len(notes[s]), 1 < j, notes[s][j].key = k
                     PROVE  FALSE
          OBVIOUS
        <4>1. j - 1 \in 1 .. Len(notes'[s]) /\ notes'[s][j - 1] = notes[s][j]
          BY <1>4, <1>6
        <4> QED
          BY <2>3, <4>1 DEF OnItsWay
      <3>2. CASE k = n.key
        <4>1. LastOf(s, 1)
          BY <3>1, <3>2 DEF LastOf, n
        <4>2. n.ver = db[s][k]
          BY <1>4, <2>3, <3>2, <4>1 DEF NotesCurrent, n
        <4> QED
          BY <1>8, <2>3, <3>2, <4>2
      <3>3. CASE k # n.key
        <4>1. ~OnItsWay(s, k)
          <5> SUFFICES ASSUME NEW j \in 1 .. Len(notes[s]), notes[s][j].key = k
                       PROVE  FALSE
            BY DEF OnItsWay
          <5>1. j = 1 \/ 1 < j
            BY <1>4
          <5> QED
            BY <3>1, <3>3, <5>1 DEF n
        <4> QED
          BY <1>7, <1>9, <2>1, <2>3, <3>3, <4>1 DEF KeptAgrees
      <3> QED
        BY <3>2, <3>3
    <2> QED
      BY <2>2, <2>3
  <1> QED
    BY <1>10, <1>11, <1>12, <1>13

\* Every step of every thread keeps the invariant.
LEMMA RecordNext == RecordInv /\ [Next]_vars => RecordInv'
  <1> SUFFICES ASSUME RecordInv, [Next]_vars
               PROVE  RecordInv'
    OBVIOUS
  <1>1. CASE ServiceRestarts \/ UNCHANGED vars
    <2>1. UNCHANGED recVars
      BY <1>1 DEF ServiceRestarts, vars, lifeVars, kvVars, deviceVars, recVars
    <2> QED
      BY <2>1, OthersKeep
  <1> QED
    BY <1>1, ManagersKeep, ReInitKeeps, ServiceDiesKeeps, PeerChangeKeeps, OnChangeKeeps, LoadsKeep,
       TasksKeep, HardwareKeeps DEF Next

-----------------------------------------------------------------------------
(* The theorems *)

\* The inductive invariant: until it is delivered, the last note of a record
\* tells what the store holds of it; after that memory does.
THEOREM RecordInvariant == Spec => []RecordInv
  BY RecordInit, RecordNext, PTL DEF Spec

\* The record in memory of a peer is the one in the store once no notification of
\* it is on its way, unless the manager was not told of the last change or
\* dropped it: late notifications, the loads of OnLineTask and of the recovery
\* after a death of the kv service may come in any order.
THEOREM CacheFollowsStore == Spec => []CacheAgrees
  <1>1. RecordInv => CacheAgrees
    <2> SUFFICES ASSUME RecordInv, NEW s \in Told3, NEW k \in Peer, db[s][k] # 0,
                        <<s, k>> \notin missed, \A i \in DOMAIN notes[s] : notes[s][i].key # k
                 PROVE  cache[s][k] = db[s][k]
      BY DEF CacheAgrees, Told3
    <2>1. DOMAIN notes[s] = 1 .. Len(notes[s])
      BY DEF RecordInv, DBTypes, Told3, Store
    <2> QED
      BY <2>1 DEF RecordInv, KeptAgrees, OnItsWay
  <1> QED
    BY <1>1, RecordInvariant, PTL

\* The store describes the hardware this device has, after QueryLocalHardware has
\* removed the records of hardware that is gone, and with every plug event since.
THEOREM StoreDescribesHardware == Spec => []OwnRecordsReal
  <1>1. RecordInv => OwnRecordsReal
    <2> SUFFICES ASSUME RecordInv, life = "up", ~unclean
                 PROVE  {k \in Own : db["cap"][k] # 0} = plugged
      BY DEF OwnRecordsReal
    <2> QED
      BY DEF RecordInv, OwnSettled, DBTypes
  <1> QED
    BY <1>1, RecordInvariant, PTL
=============================================================================
