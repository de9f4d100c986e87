--------------------------- MODULE SoftbusChannel ---------------------------
(***************************************************************************)
(* SoftbusChannelAdapter of av_transport: the sessions a process keeps     *)
(* with its peers, and the listeners that are told about them.             *)
(*                                                                         *)
(* The adapter is a singleton whose maps are each guarded by a mutex of    *)
(* their own. Its state is one record, and an operation is a function from *)
(* that record to the next, so that the modules that use the adapter can   *)
(* say in one action all that a handler does to it. OpenSoftbusChannel     *)
(* lets go of the map while it binds, and is two operations.               *)
(*                                                                         *)
(* Every event is handed to a detached thread of its own (SendChannelEvent)*)
(* which looks the listener up and then calls it without the lock; threads *)
(* run in any order. A key of the maps is the string                       *)
(* sessionName_peerDevId; here it is the pair. No session name of the      *)
(* repository contains another one, so that "find(sessName) != npos" says  *)
(* that the session of the key is sessName.                                *)
(***************************************************************************)
EXTENDS Naturals, FiniteSets, Bags

CONSTANTS Owner,      \* prefixes of the session names
          Dev,        \* the peers
          SPECIAL,    \* AV_TRANS_SPECIAL_DEVICE_ID
          Listener,   \* the objects that may be registered
          NoListener, \* nullptr
          MaxSock,    \* bound on the sockets created
          MaxThread   \* bound on the event threads that exist at once

VARIABLE ch           \* the adapter, and the sockets of the softbus below it

Role == {"sender", "receiver"}
Sess == Owner \X Role
Key == Sess \X (Dev \cup {SPECIAL})
Socks == 1 .. MaxSock
NoSock == 0           \* -1 in the code: no entry in devId2SessIdMap_

\* A message is the engine whose SendMessage produced it, or what a peer sent.
EventType == {"OPENED", "CLOSED", "DATA"}

Thread == [key : Key, type : EventType, about : Sess, dev : Dev \cup {""}, msg : {"", "start", "stop"},
           at : {"lookup", "call", "then"}, to : Listener \cup {NoListener}]

AdapterType ==
    /\ ch.serverMap \in [Sess -> Socks \cup {NoSock}]
    /\ ch.listenerMap \in [Key -> Listener \cup {NoListener}]
    /\ ch.idMap \in [Key -> Socks \cup {NoSock}]
    /\ ch.timeSync \subseteq Key
    /\ ch.created \in 0 .. MaxSock
    /\ ch.peer \in [Socks -> Dev \cup {""}]
    /\ IsABag(ch.threads) /\ BagToSet(ch.threads) \subseteq Thread

\* The constructor; "peer" is the device at the other end of an open socket.
AdapterInit ==
    ch = [serverMap |-> [s \in Sess |-> NoSock], listenerMap |-> [k \in Key |-> NoListener],
          idMap |-> [k \in Key |-> NoSock], timeSync |-> {}, created |-> 0,
          peer |-> [s \in Socks |-> ""], threads |-> EmptyBag]

-----------------------------------------------------------------------------
(* The softbus *)

\* Socket: a new id, always positive.
Socket(c) == [c EXCEPT !.created = @ + 1]

Shutdown(c, sock) == IF sock = NoSock THEN c ELSE [c EXCEPT !.peer[sock] = ""]

\* LOCAL_TO_PEER_SESSION_NAME_MAP: the session at this end of a session that
\* a peer opened.
FindSessNameByPeerSessName(s) == <<s[1], IF s[2] = "sender" THEN "receiver" ELSE "sender">>

-----------------------------------------------------------------------------
(* Maps and events *)

GetSessIdBySessName(c, k) == c.idMap[k]

KeysOfSession(c, sock) == {k \in Key : c.idMap[k] = sock}

\* The first key in the order of the map that names a device; any of them here.
PeerDevIds(c, sock) ==
    LET named == {k[2] : k \in KeysOfSession(c, sock)} \ {SPECIAL}
    IN  IF named = {} THEN {""} ELSE named

\* The keys of a session that have a listener.
ListenedKeys(c, s) == {k \in Key : k[1] = s /\ c.listenerMap[k] # NoListener}

Spawn(c, keys, type, s, dev, msg) ==
    [c EXCEPT !.threads = @ (+) SetToBag({[key |-> k, type |-> type, about |-> s, dev |-> dev,
                                           msg |-> msg, at |-> "lookup", to |-> NoListener]
                                          : k \in keys})]

RegisterChannelListener(c, k, l) == [c EXCEPT !.listenerMap[k] = l]

UnRegisterChannelListener(c, k) == [c EXCEPT !.listenerMap[k] = NoListener]

-----------------------------------------------------------------------------
(* Servers and channels *)

\* A socket whose Listen fails is not shut down.
CreateChannelServer(c, s, out) ==
    IF c.serverMap[s] # NoSock \/ out = "nosocket" THEN c
    ELSE IF out = "nolisten" THEN Socket(c)
    ELSE [Socket(c) EXCEPT !.serverMap[s] = c.created + 1]

\* Also shuts down one session of that name, the first in the order of the map.
RemoveChannelServer(c, s, k) ==
    LET d == [c EXCEPT !.serverMap[s] = NoSock]
    IN  IF k[1] = s THEN [Shutdown(d, c.idMap[k]) EXCEPT !.idMap[k] = NoSock] ELSE d

\* OpenSoftbusChannel up to Bind. A socket whose Bind fails is not shut down.
OpenBind(c, k, ok) ==
    [Socket(c) EXCEPT !.peer[c.created + 1] = IF ok THEN k[2] ELSE ""]

\* Seeded fault: only the listener under the special device id is told.
OpenInsertQuiet(c, k, sock) ==
    Spawn([c EXCEPT !.idMap[k] = IF @ = NoSock THEN sock ELSE @],
          {l \in ListenedKeys(c, k[1]) : l[2] = SPECIAL}, "OPENED", k[1], k[2], "")

\* The rest of it: insert leaves an entry that is there, and every listener of
\* the session name is told (SendEventChannelOPened).
OpenInsert(c, k, sock) ==
    Spawn([c EXCEPT !.idMap[k] = IF @ = NoSock THEN sock ELSE @],
          ListenedKeys(c, k[1]), "OPENED", k[1], k[2], "")

CloseSoftbusChannel(c, k) == [Shutdown(c, c.idMap[k]) EXCEPT !.idMap[k] = NoSock]

-----------------------------------------------------------------------------
(* Device time synchronisation *)

StartDeviceTimeSync(c, k, ok) == IF ok THEN [c EXCEPT !.timeSync = @ \cup {k}] ELSE c

StopDeviceTimeSync(c, k, ok) == IF ok THEN [c EXCEPT !.timeSync = @ \ {k}] ELSE c

\* The listeners called with a result that has an error code; with 0 none is.
OnSoftbusTimeSyncResult(c, result) ==
    IF result = 0 THEN {} ELSE {c.listenerMap[k] : k \in c.timeSync} \ {NoListener}

-----------------------------------------------------------------------------
(* Callbacks of the softbus *)

\* A peer has opened session sock: every listener of the session name is told,
\* and the entry of each of their keys is replaced.
OnSoftbusChannelOpened(c, s, dev, sock) ==
    LET keys == ListenedKeys(c, s)
        told == Spawn(c, keys, "OPENED", s, dev, "")
    IN  [told EXCEPT !.idMap = [k \in Key |-> IF k \in keys \/ (k = <<s, dev>> /\ @[k] = NoSock)
                                              THEN sock ELSE @[k]]]

OnSoftbusChannelClosed(c, sock, dev) ==
    LET keys == KeysOfSession(c, sock)
        spawned == [c EXCEPT !.threads = @ (+) SetToBag(
                       {[key |-> k, type |-> "CLOSED", about |-> k[1], dev |-> dev, msg |-> "",
                         at |-> "lookup", to |-> NoListener] : k \in keys})]
    IN  [spawned EXCEPT !.idMap = [k \in Key |-> IF k \in keys THEN NoSock ELSE @[k]]]

OnSoftbusBytesReceived(c, sock, dev, msg) ==
    [c EXCEPT !.threads = @ (+) SetToBag(
        {[key |-> k, type |-> "DATA", about |-> k[1], dev |-> dev, msg |-> msg,
          at |-> "lookup", to |-> NoListener] : k \in KeysOfSession(c, sock)})]

-----------------------------------------------------------------------------
(* SendChannelEvent, on its own thread *)

\* The lookup, under listenerMtx_; a thread that finds nullptr ends.
LookUpListener(c, t) ==
    LET l == c.listenerMap[t.key]
        rest == c.threads (-) SetToBag({t})
    IN  [c EXCEPT !.threads = IF l = NoListener THEN rest
                              ELSE rest (+) SetToBag({[t EXCEPT !.at = "call", !.to = l]})]

EndThread(c, t) == [c EXCEPT !.threads = @ (-) SetToBag({t})]

\* The listener that the thread has called goes on to its next critical section.
MoveThread(c, t, at) ==
    [c EXCEPT !.threads = (@ (-) SetToBag({t})) (+) SetToBag({[t EXCEPT !.at = at]})]

\* The thread that runs the lookup.
SendChannelEvent ==
    \E t \in BagToSet(ch.threads) : t.at = "lookup" /\ ch' = LookUpListener(ch, t)

\* What the softbus may do on its own account: a peer opens a session to a
\* server of ours or shuts one down, and a session that has gone is reported.
PeerOpens(peerSess, dev) ==
    LET s == FindSessNameByPeerSessName(peerSess)
    IN  /\ ch.serverMap[s] # NoSock
        /\ ch.created < MaxSock
        /\ BagCardinality(ch.threads) + Cardinality(ListenedKeys(ch, s)) <= MaxThread
        /\ ch' = OnSoftbusChannelOpened([Socket(ch) EXCEPT !.peer[ch.created + 1] = dev],
                                        s, dev, ch.created + 1)

PeerCloses(sock) ==
    /\ ch.peer[sock] # ""
    /\ BagCardinality(ch.threads) + Cardinality(KeysOfSession(ch, sock)) <= MaxThread
    /\ \E dev \in PeerDevIds(ch, sock) : ch' = OnSoftbusChannelClosed(Shutdown(ch, sock), sock, dev)

PeerSends(sock, msg) ==
    /\ ch.peer[sock] # ""
    /\ BagCardinality(ch.threads) + Cardinality(KeysOfSession(ch, sock)) <= MaxThread
    /\ \E dev \in PeerDevIds(ch, sock) : ch' = OnSoftbusBytesReceived(ch, sock, dev, msg)

=============================================================================
