------------------------------ MODULE CompOps ------------------------------
(***************************************************************************)
(* ComponentManager::Enable and Disable of one hardware, down to the calls *)
(* of the component that drives it.                                        *)
(*                                                                         *)
(* A call collects the parameters (Enable only), then registers or         *)
(* unregisters the hardware with the component and waits for the           *)
(* component's callback. A request that is refused, fails or times out is  *)
(* repeated a few times while the device is still online (Enable) or still *)
(* offline (Disable). All tries of a call share one ComponentEnable or     *)
(* ComponentDisable object, and with it one status_.                       *)
(*                                                                         *)
(* Calls are made by EnableTask and DisableTask, each on its own thread;   *)
(* the component answers when it likes, or never.                          *)
(***************************************************************************)
EXTENDS Naturals, SequencesExt

CONSTANTS Call,                     \* the calls that are made
          ENABLE_RETRY_MAX_TIMES,
          DISABLE_RETRY_MAX_TIMES,
          InOrder                   \* the component serves requests in the order sent

ASSUME CompOpsAssumption ==
    /\ ENABLE_RETRY_MAX_TIMES \in Nat /\ DISABLE_RETRY_MAX_TIMES \in Nat
    /\ InOrder \in BOOLEAN

VARIABLES pc,          \* where a call is
          op,          \* "enable" or "disable"
          paramTries,  \* GetEnableParam calls repeated
          tries,       \* requests sent to the component
          status,      \* status_ of the call's ComponentEnable or ComponentDisable
          result,      \* the outcome of the first try, then what the call returned
          own,         \* the callback of the latest try has come
          requests,    \* requests the component has accepted and not answered
          registered,  \* the component has the hardware registered
          online,      \* DHContext::IsDeviceOnline
          overlapped,  \* calls that ran while another one did
          lastDone     \* the latest call to return, if it succeeded on its own

callVars == <<pc, op, paramTries, tries, status, result, own>>
compVars == <<requests, registered>>
historyVars == <<overlapped, lastDone>>
vars == <<callVars, compVars, online, historyVars>>

-----------------------------------------------------------------------------
(* Types *)

Result == {"none", "ok", "param", "resource", "refused", "timeout", "failed"}

\* A capability in the cache or saved from a full exchange, meta information,
\* the version of the local component and that of the peer's.
Info == {"cap", "localcap", "meta", "sourceVersion", "sinkVersion"}

Request == [call : Call, try : Nat]

RetryMax(o) == IF o = "enable" THEN ENABLE_RETRY_MAX_TIMES ELSE DISABLE_RETRY_MAX_TIMES

TypeOK ==
    /\ pc \in [Call -> {"new", "param", "paramRetry", "resource", "register", "wait", "retry",
                        "done"}]
    /\ op \in [Call -> {"enable", "disable"}]
    /\ paramTries \in [Call -> 0 .. ENABLE_RETRY_MAX_TIMES]
    /\ \A c \in Call : tries[c] \in 0 .. 1 + RetryMax(op[c])
    /\ status \in [Call -> {"none", "ok", "fail"}]
    /\ result \in [Call -> Result]
    /\ own \in [Call -> BOOLEAN]
    /\ requests \in Seq(Request)
    /\ registered \in BOOLEAN
    /\ online \in BOOLEAN
    /\ overlapped \subseteq Call
    /\ lastDone \in {"none", "enable", "disable"}

-----------------------------------------------------------------------------
(* Parameters *)

\* GetEnableParam, with what the databases hold at that moment: from a
\* capability and the versions, and if that fails from meta information, which
\* carries the peer's version itself.
GetEnableParam(known) ==
    /\ "sourceVersion" \in known
    /\ \/ known \cap {"cap", "localcap"} # {} /\ known \cap {"sinkVersion", "meta"} # {}
       \/ "meta" \in known

Goto(c, step) == pc' = [pc EXCEPT ![c] = step]

\* A call returns r.
Return(c, r) ==
    /\ Goto(c, "done")
    /\ result' = [result EXCEPT ![c] = r]
    /\ lastDone' = IF r = "ok" /\ c \notin overlapped THEN op[c] ELSE "none"

Running == {c \in Call : pc[c] \notin {"new", "done"}}

\* A task calls Enable or Disable. The component of the hardware's type is
\* loaded: without it both return at once and nothing happens.
Begin(c, o) ==
    /\ pc[c] = "new"
    /\ op' = [op EXCEPT ![c] = o]
    /\ Goto(c, IF o = "enable" THEN "param" ELSE "register")
    /\ overlapped' = IF Running = {} THEN overlapped ELSE overlapped \cup Running \cup {c}
    /\ UNCHANGED <<paramTries, tries, status, result, own, compVars, online, lastDone>>

\* The databases synchronise and forget on their own, so each lookup may find
\* anything.
LookUp(c) ==
    \E known \in SUBSET Info :
        Goto(c, IF GetEnableParam(known) THEN "resource" ELSE "paramRetry")

FirstParam(c) ==
    /\ pc[c] = "param"
    /\ LookUp(c)
    /\ UNCHANGED <<op, paramTries, tries, status, result, own, compVars, online, historyVars>>

\* One round of RetryGetEnableParam. When the rounds are used up it returns
\* success all the same.
RetryGetEnableParam(c) ==
    /\ pc[c] = "paramRetry"
    /\ \/ /\ paramTries[c] < ENABLE_RETRY_MAX_TIMES /\ online
          /\ paramTries' = [paramTries EXCEPT ![c] = @ + 1]
          /\ LookUp(c)
          /\ UNCHANGED <<result, lastDone>>
       \/ /\ paramTries[c] < ENABLE_RETRY_MAX_TIMES /\ ~online
          /\ Return(c, "param")
          /\ UNCHANGED paramTries
       \/ /\ paramTries[c] = ENABLE_RETRY_MAX_TIMES
          /\ Goto(c, "resource")
          /\ UNCHANGED <<paramTries, result, lastDone>>
    /\ UNCHANGED <<op, tries, status, own, compVars, online, overlapped>>

\* Privacy resources need the same account, in a build with DHARDWARE_CHECK_RESOURCE.
CheckSubtypeResource(c) ==
    /\ pc[c] = "resource"
    /\ \/ Goto(c, "register") /\ UNCHANGED <<result, lastDone>>
       \/ Return(c, "resource")
    /\ UNCHANGED <<op, paramTries, tries, status, own, compVars, online, overlapped>>

-----------------------------------------------------------------------------
(* The tries: ComponentEnable::Enable and ComponentDisable::Disable *)

\* What follows a try: success is returned, the error of the first try is kept.
AfterTry(c, r) ==
    IF r = "ok" THEN Return(c, r)
    ELSE /\ Goto(c, "retry")
         /\ result' = IF tries'[c] = 1 THEN [result EXCEPT ![c] = r] ELSE result
         /\ UNCHANGED lastDone

\* RegisterDistributedHardware or UnregisterDistributedHardware.
SendRequest(c) ==
    /\ pc[c] = "register"
    /\ tries' = [tries EXCEPT ![c] = @ + 1]
    /\ \/ /\ requests' = Append(requests, [call |-> c, try |-> tries'[c]])
          /\ Goto(c, "wait")
          /\ UNCHANGED <<result, lastDone>>
       \/ AfterTry(c, "refused") /\ UNCHANGED requests
    /\ own' = [own EXCEPT ![c] = FALSE]
    /\ UNCHANGED <<op, paramTries, status, registered, online, overlapped>>

\* Seeded fault: a callback that reports an error ends the wait with success.
WaitCallbackBlind(c) ==
    /\ pc[c] = "wait"
    /\ status[c] # "none"
    /\ UNCHANGED tries
    /\ AfterTry(c, "ok")
    /\ UNCHANGED <<op, paramTries, status, own, compVars, online, overlapped>>

\* The wait ends as soon as status_ has been set, by whichever try.
WaitCallback(c) ==
    /\ pc[c] = "wait"
    /\ status[c] # "none"
    /\ UNCHANGED tries
    /\ AfterTry(c, IF status[c] = "ok" THEN "ok" ELSE "failed")
    /\ UNCHANGED <<op, paramTries, status, own, compVars, online, overlapped>>

\* Seeded fault: the wait has no timeout.
WaitTimeoutNever(c) == FALSE /\ UNCHANGED vars

WaitTimeout(c) ==
    /\ pc[c] = "wait"
    /\ status[c] = "none"
    /\ UNCHANGED tries
    /\ AfterTry(c, "timeout")
    /\ UNCHANGED <<op, paramTries, status, own, compVars, online, overlapped>>

\* The loop of Enable goes on while the device is online, that of Disable while
\* it is offline; a loop that ends returns the first error.
Retry(c) ==
    /\ pc[c] = "retry"
    /\ IF tries[c] <= RetryMax(op[c]) /\ (online <=> op[c] = "enable")
       THEN Goto(c, "register") /\ UNCHANGED <<result, lastDone>>
       ELSE Return(c, result[c])
    /\ UNCHANGED <<op, paramTries, tries, status, own, compVars, online, overlapped>>

CallStep(c) ==
    \/ FirstParam(c) \/ RetryGetEnableParam(c) \/ CheckSubtypeResource(c)
    \/ SendRequest(c) \/ WaitCallback(c) \/ WaitTimeout(c) \/ Retry(c)

-----------------------------------------------------------------------------
(* The component (external) and its callbacks *)

CanServe(i) == i \in 1 .. Len(requests) /\ (InOrder => i = 1)

\* The component has done what was asked, or failed to, and calls
\* OnRegisterResult or OnUnregisterResult, which set status_.
OnResult(i, ok) ==
    /\ CanServe(i)
    /\ LET r == requests[i] IN
       /\ registered' = IF ok THEN op[r.call] = "enable" ELSE registered
       /\ status' = [status EXCEPT ![r.call] = IF ok THEN "ok" ELSE "fail"]
       /\ own' = IF r.try = tries[r.call] THEN [own EXCEPT ![r.call] = TRUE] ELSE own
    /\ requests' = RemoveAt(requests, i)
    /\ UNCHANGED <<pc, op, paramTries, tries, result, online, historyVars>>

\* A request is lost with no effect and no callback.
Forget(i) ==
    /\ CanServe(i)
    /\ requests' = RemoveAt(requests, i)
    /\ UNCHANGED <<callVars, registered, online, historyVars>>

-----------------------------------------------------------------------------
(* The rest of the service *)

\* The device leaves or joins.
OnlineChange ==
    /\ Running # {}
    /\ online' = ~online
    /\ UNCHANGED <<callVars, compVars, historyVars>>

-----------------------------------------------------------------------------
(* Specification *)

Init ==
    /\ pc = [c \in Call |-> "new"]
    /\ op = [c \in Call |-> "enable"]
    /\ paramTries = [c \in Call |-> 0]
    /\ tries = [c \in Call |-> 0]
    /\ status = [c \in Call |-> "none"]
    /\ result = [c \in Call |-> "none"]
    /\ own = [c \in Call |-> FALSE]
    /\ requests = <<>>
    /\ registered = FALSE
    /\ online = TRUE
    /\ overlapped = {}
    /\ lastDone = "none"

Next ==
    \/ \E c \in Call : CallStep(c) \/ (\E o \in {"enable", "disable"} : Begin(c, o))
    \/ \E i \in 1 .. Len(requests) : Forget(i) \/ (\E ok \in BOOLEAN : OnResult(i, ok))
    \/ OnlineChange

Spec == Init /\ [][Next]_vars

\* The threads of the tasks run, and a wait that is not notified times out. The
\* component may never answer.
FairSpec == Spec /\ \A c \in Call : WF_vars(CallStep(c))

-----------------------------------------------------------------------------
(* Properties *)

\* When no call runs, the component has nothing left to do and the latest call
\* reported success and had no other beside it, the hardware is registered if that was Enable and not if it
\* was Disable, whatever requests were repeated, lost or answered late.
SuccessAgrees ==
    Running = {} /\ requests = <<>> =>
        /\ lastDone = "enable" => registered
        /\ lastDone = "disable" => ~registered

\* Every call of Enable or Disable returns, also when the component never
\* answers: OffLineTask waits for its DisableTasks without a timeout of its own.
EveryCallReturns == \A c \in Call : (pc[c] # "new") ~> (pc[c] = "done")

\* A wait that will end without a timeout has had the callback of its own try
\* ("wait for callback until timeout", ComponentEnable::Enable).
WaitsForOwnCallback ==
    \A c \in Call : pc[c] = "wait" /\ status[c] # "none" => own[c]
=============================================================================
