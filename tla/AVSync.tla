------------------------------- MODULE AVSync -------------------------------
(***************************************************************************)
(* AVSyncManager in the service process: the streams that engines send,    *)
(* the memory that the engines of a group share, and SetParam2Engines of   *)
(* AVTransControlCenter, which hands it to them.                           *)
(*                                                                         *)
(* Clients are the engines of other processes. The calls of one come in on *)
(* two threads: "ctl" makes those of Initialize, Stop and Release one      *)
(* after the other, and "data" the one of PushData, which may overtake or  *)
(* outlast them. Messages of peers come on the adapter's detached threads. *)
(* listMutex_ is held for one look at the list, callbackMutex_ for one     *)
(* loop over the callbacks, and nothing guards the memories: a call is one *)
(* step per critical section, or per access to a memory, and all calls     *)
(* interleave. START_AV_SYNC and STOP_AV_SYNC for the engines, which       *)
(* change the mode of OutputControl, and the messages to peers leave this  *)
(* state as it is.                                                         *)
(***************************************************************************)
EXTENDS Naturals, FiniteSets, Bags

CONSTANTS Client,    \* the engines
          SceneOf,   \* the scene type of an engine's stream
          DevOf,     \* its peer
          Handler,   \* the threads that handle messages of peers
          MaxStream, \* bound on the streams listed at once
          MaxMem     \* bound on the memories in use at once

ASSUME SyncAssumption ==
    SceneOf \in [Client -> {"mic", "speaker", "screen", "camera"}] /\ MaxMem \in Nat

VARIABLES ctl,        \* where the client's calls stand
          data,       \* where its EVENT_ADD_STREAM stands
          handler,    \* where a message stands
          registered, \* the clients with a callback in callbackMap_
          streams,    \* streamInfoList_
          sending,    \* the clients that have added their stream, and neither removed
                      \* it nor been released since
          srcMem,     \* sourceMemory_, 0 when invalid
          sinkMem,    \* sinkMemory_
          given       \* what each client was last given: a memory, 0 for none, or
                      \* LOST when the call did not reach it

vars == <<ctl, data, handler, registered, streams, sending, srcMem, sinkMem, given>>
listVars == <<streams, sending>>
memVars == <<srcMem, sinkMem>>

Stream == {<<SceneOf[c], DevOf[c]>> : c \in Client}
AV_SYNC_STREAM_COUNT == 2

Mem == 1 .. MaxMem
LOST == MaxMem + 1

\* Where the calls of an engine stand that is initialised, and not released.
InUse == {"idle", "disable", "close", "none"}

SyncTypeOK ==
    /\ ctl \in [Client -> InUse \cup {"fresh", "released"}]
    /\ data \in [Client -> {"idle", "merge", "create", "give"}]
    /\ handler \in [Handler -> {"idle", "give", "none"}]
    /\ registered \subseteq Client /\ sending \subseteq Client
    /\ IsABag(streams) /\ BagToSet(streams) \subseteq Stream
    /\ srcMem \in Mem \cup {0} /\ sinkMem \in Mem \cup {0}
    /\ given \in [Client -> 0 .. LOST]

Init ==
    /\ ctl = [c \in Client |-> "fresh"] /\ data = [c \in Client |-> "idle"]
    /\ handler = [h \in Handler |-> "idle"]
    /\ registered = {} /\ streams = EmptyBag /\ sending = {}
    /\ srcMem = 0 /\ sinkMem = 0 /\ given = [c \in Client |-> 0]

-----------------------------------------------------------------------------
(* Callbacks and memories *)

\* InitializeAVCenter and RegisterCtlCenterCallback. The callback is not entered
\* if another engine has been given the same id (see AVCenter).
RegisterCtlCenterCallback(c) ==
    /\ ctl[c] \in {"fresh", "released"} /\ ctl' = [ctl EXCEPT ![c] = "idle"]
    /\ registered' \in {registered, registered \cup {c}}
    /\ UNCHANGED <<data, handler, listVars, memVars, given>>

\* ReleaseAVCenter, as far as the callbacks go: an engine with the same id loses
\* its own. The engine is gone, with what it was given.
ReleaseAVCenter(c) ==
    /\ ctl[c] = "idle" /\ ctl' = [ctl EXCEPT ![c] = "released"]
    /\ \E other \in Client : registered' = registered \ {c, other}
    /\ sending' = sending \ {c}
    /\ given' = [given EXCEPT ![c] = 0]
    /\ UNCHANGED <<data, handler, streams, memVars>>

\* SetParam2Engines with a memory, under callbackMutex_ from the first callback
\* to the last. A call that fails is not made again.
SetMemory2Engines(m) ==
    \E failing \in SUBSET registered :
       given' = [c \in Client |-> IF c \in failing THEN LOST ELSE IF c \in registered THEN m ELSE given[c]]

\* CreateAVTransSharedMemory makes a memory unlike any that is in use, or fails
\* and returns one that is not valid.
CreateAVTransSharedMemory ==
    LET free == Mem \ ({srcMem, sinkMem} \cup {given[c] : c \in Client})
    IN  {0} \cup {m \in free : \A n \in free : m <= n}

-----------------------------------------------------------------------------
(* A sender adds its stream *)

\* MergeGroupInfo: the streams form a group that can be synchronised.
MergeGroupInfo(list) ==
    LET scenes == {s[1] : s \in BagToSet(list)}
    IN  /\ Cardinality(scenes) >= AV_SYNC_STREAM_COUNT
        /\ ~({"mic", "speaker"} \subseteq scenes)
        /\ {"screen", "speaker"} \subseteq scenes \/ {"camera", "mic"} \subseteq scenes

\* The list holds AV_SYNC_STREAM_COUNT streams or more, which is two.
EnoughStreams(list) == \E s, t \in BagToSet(list) : s # t \/ list[s] >= AV_SYNC_STREAM_COUNT

DataStep(c, from, to) == data[c] = from /\ data' = [data EXCEPT ![c] = to]

\* AddStreamInfo: NotifyAVCenter with EVENT_ADD_STREAM, from the first PushData
\* of a sender. The id is only compared with the range of ids given out, so that
\* the call of an engine that has been released in the meantime is served too.
AddStreamInfo(c) ==
    LET list == streams (+) SetToBag({<<SceneOf[c], DevOf[c]>>})
    IN  /\ ctl[c] # "fresh" /\ BagCardinality(streams) < MaxStream
        /\ DataStep(c, "idle", IF EnoughStreams(list) THEN "merge" ELSE "idle")
        /\ streams' = list
        /\ sending' = IF ctl[c] \in InUse THEN sending \cup {c} ELSE sending
        /\ UNCHANGED <<ctl, handler, registered, memVars, given>>

\* Seeded fault: a group that is synchronised already is left alone.
MergeStreamsOnce(c) ==
    /\ DataStep(c, "merge", IF MergeGroupInfo(streams) /\ srcMem = 0 THEN "create" ELSE "idle")
    /\ UNCHANGED <<ctl, handler, registered, listVars, memVars, given>>

\* EnableSenderAVSync goes on if the streams of the list, read again, can be merged.
MergeStreams(c) ==
    /\ DataStep(c, "merge", IF MergeGroupInfo(streams) THEN "create" ELSE "idle")
    /\ UNCHANGED <<ctl, handler, registered, listVars, memVars, given>>

\* A new memory takes the place of the one before, which stays open.
CreateSenderMemory(c) ==
    /\ DataStep(c, "create", "give")
    /\ srcMem' \in CreateAVTransSharedMemory
    /\ UNCHANGED <<ctl, handler, registered, listVars, sinkMem, given>>

\* sourceMemory_, passed by reference, goes to all engines as it is by now.
GiveSenderMemory(c) ==
    /\ DataStep(c, "give", "idle")
    /\ SetMemory2Engines(srcMem)
    /\ UNCHANGED <<ctl, handler, registered, listVars, memVars>>

-----------------------------------------------------------------------------
(* A sender removes its stream *)

CtlStep(c, from, to) == ctl[c] = from /\ ctl' = [ctl EXCEPT ![c] = to]

\* RemoveStreamInfo: NotifyAVCenter with EVENT_REMOVE_STREAM, from Stop. All the
\* streams of that scene and device leave the list.
RemoveStreamInfo(c) ==
    /\ CtlStep(c, "idle", "disable")
    /\ streams' = [s \in BagToSet(streams) \ {<<SceneOf[c], DevOf[c]>>} |-> streams[s]]
    /\ sending' = sending \ {c}
    /\ UNCHANGED <<data, handler, registered, memVars, given>>

\* DisableSenderAVSync returns if the list, read again, has streams enough.
DisableSenderAVSync(c) ==
    /\ CtlStep(c, "disable", IF EnoughStreams(streams) THEN "idle" ELSE "close")
    /\ UNCHANGED <<data, handler, registered, listVars, memVars, given>>

\* CloseAVTransSharedMemory: sourceMemory_ keeps its descriptor, and is closed by
\* every later removal too.
CloseSenderMemory(c) ==
    /\ CtlStep(c, "close", "none")
    /\ UNCHANGED <<data, handler, registered, listVars, memVars, given>>

GiveNoMemory(c) ==
    /\ CtlStep(c, "none", "idle")
    /\ SetMemory2Engines(0)
    /\ UNCHANGED <<data, handler, registered, listVars, memVars>>

-----------------------------------------------------------------------------
(* HandleDataReceived: messages of peers *)

\* START_AV_SYNC: a memory for the receivers is created.
EnableReceiverAVSync(h) ==
    /\ handler[h] = "idle" /\ handler' = [handler EXCEPT ![h] = "give"]
    /\ sinkMem' \in CreateAVTransSharedMemory
    /\ UNCHANGED <<ctl, data, registered, listVars, srcMem, given>>

\* STOP_AV_SYNC: it is closed, and sinkMemory_ keeps its descriptor.
DisableReceiverAVSync(h) ==
    /\ handler[h] = "idle" /\ handler' = [handler EXCEPT ![h] = "none"]
    /\ UNCHANGED <<ctl, data, registered, listVars, memVars, given>>

\* sinkMemory_, as it is by now, or none goes to all engines, senders too.
GiveReceiverMemory(h) ==
    /\ handler[h] # "idle" /\ handler' = [handler EXCEPT ![h] = "idle"]
    /\ SetMemory2Engines(IF handler[h] = "give" THEN sinkMem ELSE 0)
    /\ UNCHANGED <<ctl, data, registered, listVars, memVars>>

Add(c) == AddStreamInfo(c) \/ MergeStreams(c) \/ CreateSenderMemory(c) \/ GiveSenderMemory(c)
Remove(c) == RemoveStreamInfo(c) \/ DisableSenderAVSync(c) \/ CloseSenderMemory(c) \/ GiveNoMemory(c)

Next ==
    \/ \E c \in Client : RegisterCtlCenterCallback(c) \/ ReleaseAVCenter(c) \/ Add(c) \/ Remove(c)
    \/ \E h \in Handler : EnableReceiverAVSync(h) \/ DisableReceiverAVSync(h) \/ GiveReceiverMemory(h)

Spec == Init /\ [][Next]_vars

-----------------------------------------------------------------------------
(* Properties *)

\* No engine sends from a microphone where another one plays on a speaker: the
\* scenes are those of one group.
OneGroup == ~({"mic", "speaker"} \subseteq {SceneOf[c] : c \in Client})

\* The senders that have a callback and that what was last given has reached.
Synchronised == {c \in sending \cap registered : given[c] # LOST}

\* The senders of a group that can be synchronised have all been handed the same
\* memory, or all been told that there is none, unless a call that is to hand one
\* to all of them is still under way: AddStreamInfo gives a new one to every
\* engine whenever a stream joins, so that none that joined later keeps none, or
\* an older one, beside the others. That there is one is not promised: a
\* RemoveStreamInfo that has read a shorter list takes it from all of them, a
\* message of a peer replaces it, and the creation may fail. It is not so with
\* the scenes of both groups at once: the last speaker leaving makes a group of
\* those that stay, and RemoveStreamInfo hands nothing to them.
StreamsShareClock ==
    OneGroup /\ MergeGroupInfo(streams) /\ (\A c \in Client : data[c] = "idle")
       => \A a, b \in Synchronised : given[a] = given[b]

=============================================================================
