------------------------------ MODULE AVCenter ------------------------------
(***************************************************************************)
(* AVTransControlCenter in the service process, with the                   *)
(* SoftbusChannelAdapter of that process: the ids it gives to engines,     *)
(* their callbacks, and the channels that engines share. What it does with *)
(* streams and memories is module AVSync.                                  *)
(*                                                                         *)
(* Clients are the engines of other processes; the owner of one makes its  *)
(* calls one after the other. The center takes a mutex for each of its     *)
(* maps and lists and lets go of it in between, so a call is one step per  *)
(* critical section, or per access to a member that no mutex guards, and   *)
(* the calls of several clients and the events of the adapter, which come  *)
(* on detached threads, interleave.                                        *)
(***************************************************************************)
EXTENDS SoftbusChannel

CONSTANTS Client,   \* the engines
          NoClient, \* no callback
          DevOf,    \* the peer of an engine
          Center,   \* the center as a listener
          MaxId     \* bound on the engine ids given out

ASSUME CenterAssumption ==
    /\ Listener = {Center} /\ Owner = {"avsync"}
    /\ NoClient \notin Client
    /\ DevOf \in [Client -> Dev] /\ MaxId \in Nat

VARIABLES initialized,   \* initialized_
          rootEngineId,  \* rootEngineId_ - BASE_ENGINE_ID + 1
          id,            \* engineId_ of each client, the last one it had, 0 for none
          ctl,           \* where the client's calls stand, with the peerDevId of
                         \* ReleaseAVCenter and the socket that OpenSoftbusChannel has bound
          callbackMap,   \* callbackMap_, NoClient for no entry
          engine2Dev,    \* engine2DevIdMap_, "" for no entry
          connected,     \* connectedDevIds_
          sessionName    \* sessionName_

vars == <<ch, initialized, rootEngineId, id, ctl, callbackMap, engine2Dev, connected, sessionName>>
idVars == <<initialized, rootEngineId, id>>
devVars == <<engine2Dev, connected, sessionName>>

Ids == 1 .. MaxId
AvSync(role) == <<"avsync", role>>
NoSess == <<"", "">>

\* In no call, in those of a client that is in use, and in Initialize and Release.
InUse == {"idle", "link", "open", "insert", "enter"}
Starting == {"new", "listen", "bump", "register"}
Releasing == {"entry", "disconnect", "timesync", "shut", "unsend", "unreceive"}
Ctl == [at : InUse \cup Starting \cup Releasing, dev : Dev \cup {""}, sock : Socks \cup {NoSock}]

CtrTypeOK ==
    /\ AdapterType
    /\ initialized \in BOOLEAN
    /\ rootEngineId \in 1 .. MaxId + 1
    /\ id \in [Client -> 0 .. MaxId]
    /\ ctl \in [Client -> Ctl]
    /\ callbackMap \in [Ids -> Client \cup {NoClient}]
    /\ engine2Dev \in [Ids -> Dev \cup {""}]
    /\ IsABag(connected) /\ BagToSet(connected) \subseteq Dev \cup {""}
    /\ sessionName \in Sess \cup {NoSess}

Init ==
    /\ AdapterInit
    /\ initialized = FALSE /\ rootEngineId = 1
    /\ id = [c \in Client |-> 0]
    /\ ctl = [c \in Client |-> [at |-> "new", dev |-> "", sock |-> NoSock]]
    /\ callbackMap = [i \in Ids |-> NoClient]
    /\ engine2Dev = [i \in Ids |-> ""]
    /\ connected = EmptyBag /\ sessionName = NoSess

\* The call of c goes from one critical section to the next.
Step(c, from, to) == ctl[c].at = from /\ ctl' = [ctl EXCEPT ![c].at = to]

-----------------------------------------------------------------------------
(* Engine ids, callbacks and channels *)

\* rootEngineId_ is loaded here and incremented in the next step: two calls can
\* be given the same id.
TakeId(c) == id' = [id EXCEPT ![c] = rootEngineId]

\* InitializeAVCenter. The first call creates the server that peers open their
\* channel to, or fails.
InitializeAVCenter(c) ==
    /\ rootEngineId + Cardinality({d \in Client : ctl[d].at \in {"listen", "bump"}}) <= MaxId
    /\ \/ initialized /\ Step(c, "new", "bump") /\ TakeId(c) /\ UNCHANGED ch
       \/ /\ ~initialized /\ ch.created < MaxSock /\ UNCHANGED id
          /\ \E out \in {"ok", "nosocket", "nolisten"} :
                /\ ch' = CreateChannelServer(ch, AvSync("receiver"), out)
                /\ Step(c, "new", IF ch'.serverMap[AvSync("receiver")] # NoSock THEN "listen" ELSE "new")
    /\ UNCHANGED <<initialized, rootEngineId, callbackMap, devVars>>

\* It also listens to that server.
InitializeListen(c) ==
    /\ Step(c, "listen", "bump") /\ TakeId(c)
    /\ ch' = RegisterChannelListener(ch, <<AvSync("receiver"), SPECIAL>>, Center)
    /\ initialized' = TRUE
    /\ UNCHANGED <<rootEngineId, callbackMap, devVars>>

InitializeBump(c) ==
    /\ Step(c, "bump", "register")
    /\ rootEngineId' = rootEngineId + 1
    /\ UNCHANGED <<ch, initialized, id, callbackMap, devVars>>

\* insert leaves a callback that is there.
RegisterCtlCenterCallback(c) ==
    /\ Step(c, "register", "idle")
    /\ callbackMap' = [callbackMap EXCEPT ![id[c]] = IF @ = NoClient THEN c ELSE @]
    /\ UNCHANGED <<ch, idVars, devVars>>

EnterDevice(c) == engine2Dev' = [engine2Dev EXCEPT ![id[c]] = IF @ = "" THEN DevOf[c] ELSE @]

\* CreateControlChannel, which an engine calls from its Start. With a device
\* that is listed as connected the engine is entered, under both mutexes.
CreateControlChannel(c) ==
    /\ \/ BagIn(DevOf[c], connected) /\ Step(c, "idle", "idle") /\ EnterDevice(c)
       \/ ~BagIn(DevOf[c], connected) /\ Step(c, "idle", "link") /\ UNCHANGED engine2Dev
    /\ UNCHANGED <<ch, idVars, callbackMap, connected, sessionName>>

\* The rest of it: listen, look for the session, bind, insert it and tell the
\* listeners, and enter the engine.
CreateChannelStep(c) ==
    LET k == <<AvSync("sender"), DevOf[c]>>
    IN  /\ \/ /\ Step(c, "link", "open") /\ UNCHANGED engine2Dev
              /\ ch' = RegisterChannelListener(ch, <<AvSync("sender"), SPECIAL>>, Center)
           \/ /\ GetSessIdBySessName(ch, k) # NoSock /\ Step(c, "open", "enter") /\ UNCHANGED <<ch, engine2Dev>>
           \/ /\ GetSessIdBySessName(ch, k) = NoSock /\ ch.created < MaxSock /\ UNCHANGED engine2Dev
              /\ \E ok \in BOOLEAN :
                    /\ ctl[c].at = "open" /\ ch' = OpenBind(ch, k, ok)
                    /\ ctl' = [ctl EXCEPT ![c].at = IF ok THEN "insert" ELSE "idle",
                                          ![c].sock = IF ok THEN ch.created + 1 ELSE NoSock]
           \/ /\ BagCardinality(ch.threads) < MaxThread
              /\ ctl[c].at = "insert" /\ ch' = OpenInsert(ch, k, ctl[c].sock) /\ UNCHANGED engine2Dev
              /\ ctl' = [ctl EXCEPT ![c].at = "enter", ![c].sock = NoSock]
           \/ /\ Step(c, "enter", "idle") /\ EnterDevice(c) /\ UNCHANGED ch
        /\ UNCHANGED <<idVars, callbackMap, connected, sessionName>>

\* ReleaseAVCenter: the callback goes.
ReleaseAVCenter(c) ==
    /\ Step(c, "idle", "entry")
    /\ callbackMap' = [callbackMap EXCEPT ![id[c]] = NoClient]
    /\ UNCHANGED <<ch, idVars, devVars>>

\* IsDevIdUsedByOthers.
DeviceInUse(map, d) == \E i \in Ids : map[i] = d

\* Seeded fault: the entry stays while another engine uses the device.
ReleaseEntryLast(c) ==
    LET d == engine2Dev[id[c]]
        map == [engine2Dev EXCEPT ![id[c]] = ""]
    IN  /\ ctl[c].at = "entry"
        /\ IF d = "" \/ DeviceInUse(map, d) THEN ctl' = [ctl EXCEPT ![c].at = "new"] /\ UNCHANGED engine2Dev
           ELSE ctl' = [ctl EXCEPT ![c].at = "disconnect", ![c].dev = d] /\ engine2Dev' = map
        /\ UNCHANGED <<ch, idVars, callbackMap, connected, sessionName>>

\* The entry of the engine goes, under engineIdMutex_; the call ends if there is
\* none or another engine uses the device.
ReleaseEntry(c) ==
    LET d == engine2Dev[id[c]]
        map == [engine2Dev EXCEPT ![id[c]] = ""]
    IN  /\ ctl[c].at = "entry"
        /\ engine2Dev' = map
        /\ IF d = "" \/ DeviceInUse(map, d) THEN ctl' = [ctl EXCEPT ![c].at = "new"]
           ELSE ctl' = [ctl EXCEPT ![c].at = "disconnect", ![c].dev = d]
        /\ UNCHANGED <<ch, idVars, callbackMap, connected, sessionName>>

\* Then, under devIdMutex_, the device leaves the list if it is there.
ReleaseDevice(c) ==
    LET d == ctl[c].dev
    IN  /\ Step(c, "disconnect", IF BagIn(d, connected) THEN "timesync" ELSE "new")
        /\ connected' = IF BagIn(d, connected) THEN connected (-) SetToBag({d}) ELSE connected
        /\ UNCHANGED <<ch, idVars, callbackMap, engine2Dev, sessionName>>

\* Then the channel is closed and both listeners of the center are removed.
ReleaseChannel(c) ==
    LET k == <<sessionName, ctl[c].dev>>
    IN  /\ \/ Step(c, "timesync", "shut")
              /\ \E ok \in BOOLEAN : ch' = IF sessionName = NoSess THEN ch ELSE StopDeviceTimeSync(ch, k, ok)
           \/ Step(c, "shut", "unsend")
              /\ ch' = IF sessionName = NoSess THEN ch ELSE CloseSoftbusChannel(ch, k)
           \/ Step(c, "unsend", "unreceive")
              /\ ch' = UnRegisterChannelListener(ch, <<AvSync("sender"), SPECIAL>>)
           \/ Step(c, "unreceive", "new")
              /\ ch' = UnRegisterChannelListener(ch, <<AvSync("receiver"), SPECIAL>>)
        /\ UNCHANGED <<idVars, callbackMap, devVars>>

-----------------------------------------------------------------------------
(* Events *)

\* HandleChannelEvent with EVENT_CHANNEL_OPENED: sessionName_ is set, and the
\* device is listed in a second step.
ChannelOpened(t) ==
    /\ t.type = "OPENED"
    /\ \/ /\ t.at = "call"
          /\ sessionName' = t.about
          /\ \E ok \in BOOLEAN :
                ch' = IF t.about = AvSync("receiver")
                      THEN StartDeviceTimeSync(MoveThread(ch, t, "then"), <<t.about, t.dev>>, ok)
                      ELSE MoveThread(ch, t, "then")
          /\ UNCHANGED connected
       \/ /\ t.at = "then" /\ BagCardinality(connected) < MaxSock
          /\ connected' = connected (+) SetToBag({t.dev})
          /\ ch' = EndThread(ch, t)
          /\ UNCHANGED sessionName

\* OnChannelEvent. With the other two events of a channel HandleChannelEvent
\* changes nothing, a closed channel stays listed; HandleDataReceived goes on in
\* AVSync.
OnChannelEvent(t) ==
    /\ \/ ChannelOpened(t)
       \/ t.type # "OPENED" /\ t.at = "call" /\ ch' = EndThread(ch, t) /\ UNCHANGED <<sessionName, connected>>
    /\ UNCHANGED <<idVars, ctl, callbackMap, engine2Dev>>

Softbus ==
    /\ \/ \E d \in Dev : PeerOpens(AvSync("sender"), d)
       \/ \E s \in Socks : PeerCloses(s) \/ PeerSends(s, "start")
       \/ SendChannelEvent
    /\ UNCHANGED <<idVars, ctl, callbackMap, devVars>>

Initialize(c) ==
    InitializeAVCenter(c) \/ InitializeListen(c) \/ InitializeBump(c) \/ RegisterCtlCenterCallback(c)
Create(c) == CreateControlChannel(c) \/ CreateChannelStep(c)
Release(c) == ReleaseAVCenter(c) \/ ReleaseEntry(c) \/ ReleaseDevice(c) \/ ReleaseChannel(c)

Next ==
    \/ \E c \in Client : Initialize(c) \/ Create(c) \/ Release(c)
    \/ Softbus
    \/ \E t \in BagToSet(ch.threads) : OnChannelEvent(t)

Spec == Init /\ [][Next]_vars

-----------------------------------------------------------------------------
(* Properties *)

\* The maps hold engines that are in use only: a callback is that of a client
\* which goes by that id and has not been released, and so is an entry, up to the
\* step of ReleaseAVCenter that takes it out. An entry that outlives its engine
\* would keep the channel open for good, since no release finds the device unused.
\* Two clients that were given the same id share the slots of the maps.
MapsHoldEngines ==
    \A i \in Ids :
       /\ callbackMap[i] # NoClient => id[callbackMap[i]] = i /\ ctl[callbackMap[i]].at \in InUse
       /\ engine2Dev[i] # "" => \E c \in Client : id[c] = i /\ ctl[c].at \in InUse \cup {"entry"}

\* A device leaves the list of connected ones, and its channel is closed, only
\* with the last engine that uses it. The code does not rule it out: the engines
\* are looked for under engineIdMutex_ and the device removed under devIdMutex_.
ReleaseSparesSiblings ==
    [][\A d \in Dev : BagIn(d, connected) /\ ~BagIn(d, connected') =>
          \A i \in Ids : engine2Dev'[i] # d]_vars

=============================================================================
