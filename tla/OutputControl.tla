--------------------------- MODULE OutputControl ---------------------------
(***************************************************************************)
(* OutputController, the pacing of video frames on their way to the        *)
(* application, with the DscreenOutputPlugin and the AVOutputFilter that   *)
(* own it.                                                                 *)
(*                                                                         *)
(* Three threads: the caller (the filter's mutex makes its calls one       *)
(* thread), the control thread (LooperControl), which takes a frame, waits *)
(* for its time and posts it, and the handler thread, which runs what is   *)
(* posted and calls the application. Durations are not modelled: every     *)
(* timed wait may end at any time. A frame is its number in the order of   *)
(* PushData.                                                               *)
(***************************************************************************)
EXTENDS Naturals, Sequences

CONSTANTS QUEUE_MAX_SIZE, \* of dataQueue_
          MaxFrame,       \* bound on the frames pushed
          MaxLives        \* bound on the plugins created

ASSUME OutputAssumption == QUEUE_MAX_SIZE \in Nat /\ MaxFrame \in Nat /\ MaxLives \in Nat

VARIABLES plugin,    \* state of the plugin, "none" when the filter has none
          caller,    \* where the caller is in AVOutputFilter::Stop
          status,    \* status_
          mode,      \* mode_
          queue,     \* dataQueue_
          pc,        \* the control thread
          data,      \* the frame it has taken, 0 for none
          balance,   \* isInDynamicBalance_
          mem,       \* sharedMem_ and what is in it: "invalid", "empty", "ready"
          looper,    \* the handler thread's runner: "none", "run", "stopped"
          posted,    \* the tasks posted to it
          callback,  \* dataCb_ is set
          listener,  \* listener_ is set
          pushed,    \* the last frame pushed
          output,    \* the last frame the application got
          got,       \* how often it got one
          lives,     \* plugins created
          fault      \* the undefined behaviour that has happened

vars == <<plugin, caller, status, mode, queue, pc, data, balance, mem, looper, posted,
          callback, listener, pushed, output, got, lives, fault>>
own == <<plugin, caller, lives>>
ctl == <<status, mode, balance>>
con == <<pc, data>>
han == <<looper, posted>>
cbs == <<callback, listener>>
frm == <<pushed, output, got>>

Frame == 1 .. MaxFrame
ConPc == {"none", "check", "take", "block", "wait", "clock", "reread", "balance", "sleep", "post", "pop", "done"}
CallerPc == {"idle", "stop", "stopped", "reset", "notified", "joinControl"}

TypeOK ==
    /\ plugin \in {"none", "INITIALIZED", "PREPARED", "RUNNING"}
    /\ caller \in CallerPc
    /\ status \in {"START", "STOP", "RELEASE"}
    /\ mode \in {"SMOOTH", "SYNC"}
    /\ queue \in Seq(Frame) /\ posted \in Seq(Frame)
    /\ pc \in ConPc /\ data \in Frame \cup {0}
    /\ balance \in BOOLEAN /\ callback \in BOOLEAN /\ listener \in BOOLEAN
    /\ mem \in {"invalid", "empty", "ready"}
    /\ looper \in {"none", "run", "stopped"}
    /\ pushed \in 0 .. MaxFrame /\ output \in 0 .. MaxFrame /\ got \in 0 .. MaxFrame
    /\ lives \in 0 .. MaxLives
    /\ fault \in {"none", "emptyQueue", "emptyCallback"}

Init ==
    /\ plugin = "none" /\ caller = "idle" /\ status = "RELEASE" /\ mode = "SMOOTH"
    /\ queue = <<>> /\ pc = "none" /\ data = 0 /\ balance = TRUE /\ mem = "invalid"
    /\ looper = "none" /\ posted = <<>> /\ callback = FALSE /\ listener = FALSE
    /\ pushed = 0 /\ output = 0 /\ got = 0 /\ lives = 0 /\ fault = "none"

Alive == fault = "none"

\* queueMutex_ is free: between the predicate of a wait, or of the take, and
\* what follows the control thread holds it.
QueueUnlocked == pc \notin {"take", "block"}

\* controlCon_.notify_one(): a thread that has not begun to wait is not woken.
Notified == IF pc = "wait" THEN "check" ELSE pc

-----------------------------------------------------------------------------
(* The caller *)

\* CreatePlugin and Init: a plugin with a controller of its own.
InitPlugin ==
    /\ Alive /\ plugin = "none" /\ caller = "idle" /\ lives < MaxLives
    /\ plugin' = "INITIALIZED" /\ lives' = lives + 1
    /\ status' = "RELEASE" /\ mode' = "SMOOTH" /\ queue' = <<>> /\ mem' = "invalid"
    /\ pc' = "none" /\ data' = 0 /\ balance' = TRUE
    /\ looper' = "none" /\ posted' = <<>>
    /\ listener' = TRUE /\ callback' = TRUE
    /\ UNCHANGED <<frm, caller, fault>>

\* What the two modes start from, PrepareControl. The thresholds and factors
\* they set are durations.
PrepareSync == balance' = TRUE
PrepareSmooth == balance' = FALSE
PrepareControl(m) == IF m = "SMOOTH" THEN PrepareSmooth ELSE PrepareSync

PreparePlugin ==
    /\ Alive /\ plugin = "INITIALIZED" /\ caller = "idle"
    /\ plugin' = "PREPARED" /\ PrepareControl(mode)
    /\ UNCHANGED <<con, han, cbs, frm, caller, status, mode, queue, mem, lives, fault>>

\* The handler thread creates its runner and handler_; StartControl waits for it.
LooperHandle == looper' = "run"

\* Start and StartControl, which starts both threads.
StartControl ==
    /\ Alive /\ plugin = "PREPARED" /\ caller = "idle"
    /\ plugin' = "RUNNING" /\ status' = "START"
    /\ LooperHandle /\ pc' = "check"
    /\ UNCHANGED <<cbs, frm, caller, mode, queue, data, balance, mem, posted, lives, fault>>

\* Seeded fault: the thread that waits is not told of the frame.
PushDataSilently(sync) ==
    /\ Alive /\ plugin # "none" /\ caller = "idle" /\ pushed < MaxFrame
    /\ pushed' = pushed + 1
    /\ \/ status # "START" /\ UNCHANGED <<queue, mode, balance, pc>>
       \/ /\ status = "START" /\ QueueUnlocked
          /\ queue' = Append(queue, pushed + 1)
          /\ UNCHANGED <<mode, balance, pc>>
    /\ UNCHANGED <<own, han, cbs, status, data, mem, output, got, fault>>

\* SetControlMode, which prepares the new mode.
SetControlMode(m) == mode' = m /\ PrepareControl(m)

\* CheckSyncInfo: a frame that has audio information while the mode is SMOOTH,
\* or none while it is SYNC, changes the mode and clears the queue.
CheckSyncInfo(sync, kept) ==
    IF sync = (mode = "SYNC") THEN queue' = Append(kept, pushed + 1) /\ UNCHANGED <<mode, balance>>
    ELSE queue' = <<pushed + 1>> /\ SetControlMode(IF sync THEN "SYNC" ELSE "SMOOTH")

\* PushData. A queue above its limit loses the oldest frame.
PushData(sync) ==
    LET kept == IF Len(queue) > QUEUE_MAX_SIZE THEN Tail(queue) ELSE queue
    IN  /\ Alive /\ plugin # "none" /\ caller = "idle" /\ pushed < MaxFrame
        /\ pushed' = pushed + 1
        /\ \/ status # "START" /\ UNCHANGED <<queue, mode, balance, pc>>
           \/ status = "START" /\ QueueUnlocked /\ CheckSyncInfo(sync, kept) /\ pc' = Notified
        /\ UNCHANGED <<own, han, cbs, status, data, mem, output, got, fault>>

\* AVOutputFilter::Stop, which stops a plugin that runs and resets any.
Stop ==
    /\ Alive /\ plugin # "none" /\ caller = "idle"
    /\ \/ plugin = "RUNNING" /\ plugin' = "PREPARED" /\ caller' = "stop"
       \/ plugin # "RUNNING" /\ caller' = "stopped" /\ UNCHANGED plugin
    /\ UNCHANGED <<ctl, con, han, cbs, frm, queue, mem, lives, fault>>

\* StopControl clears the queue without its mutex.
StopControl ==
    /\ Alive /\ caller = "stop"
    /\ status' = "STOP" /\ queue' = <<>> /\ caller' = "stopped"
    /\ UNCHANGED <<con, han, cbs, frm, plugin, mode, balance, mem, lives, fault>>

\* Reset, up to the call of ReleaseControl.
Reset ==
    /\ Alive /\ caller = "stopped"
    /\ plugin' = "INITIALIZED" /\ callback' = FALSE
    /\ \/ status = "RELEASE" /\ caller' = "joinControl" /\ UNCHANGED status
       \/ status # "RELEASE" /\ caller' = "reset" /\ status' = "RELEASE"
    /\ UNCHANGED <<con, han, frm, mode, queue, balance, mem, listener, lives, fault>>

\* ReleaseControl: the listener goes, controlCon_ is notified, the runner is
\* told to stop and joined.
ReleaseNotify ==
    /\ Alive /\ caller = "reset" /\ caller' = "notified"
    /\ listener' = FALSE /\ pc' = Notified
    /\ UNCHANGED <<ctl, han, frm, plugin, queue, data, mem, callback, lives, fault>>

StopRunner ==
    /\ Alive /\ caller = "notified" /\ caller' = "joinControl"
    /\ looper' = "stopped" /\ posted' = <<>>
    /\ UNCHANGED <<ctl, con, cbs, frm, plugin, lives, queue, mem, fault>>

\* Seeded fault: the control thread is detached in place of joined.
JoinControlDetached ==
    /\ Alive /\ caller = "joinControl"
    /\ caller' = "idle" /\ plugin' = "none" /\ queue' = <<>>
    /\ UNCHANGED <<ctl, con, han, cbs, frm, mem, lives, fault>>

\* The control thread is joined and the filter drops the plugin.
JoinControl ==
    /\ Alive /\ caller = "joinControl" /\ pc \in {"none", "done"}
    /\ caller' = "idle" /\ plugin' = "none" /\ queue' = <<>>
    /\ UNCHANGED <<ctl, con, han, cbs, frm, mem, lives, fault>>

\* SetParameter with USER_SHARED_MEMORY_FD, on the thread of a center event.
SetSharedMemory ==
    /\ Alive /\ plugin # "none" /\ mem' \in {"invalid", "empty"} /\ mem' # mem
    /\ UNCHANGED <<own, ctl, con, han, cbs, frm, queue, fault>>

\* The audio engine writes its clock, or resets it when it is paused.
MasterClock ==
    /\ Alive /\ mem # "invalid" /\ mem' \in {"empty", "ready"} /\ mem' # mem
    /\ UNCHANGED <<own, ctl, con, han, cbs, frm, queue, fault>>

-----------------------------------------------------------------------------
(* The control thread, LooperControl *)

\* The condition of the loop and the predicate of the wait, under queueMutex_.
LoopCheck ==
    /\ Alive /\ pc = "check"
    /\ pc' = IF status = "RELEASE" THEN "done"
             ELSE IF status = "START" /\ queue # <<>> THEN "take" ELSE "block"
    /\ UNCHANGED <<own, ctl, han, cbs, frm, queue, data, mem, fault>>

Block ==
    /\ Alive /\ pc = "block" /\ pc' = "wait"
    /\ UNCHANGED <<own, ctl, han, cbs, frm, queue, data, mem, fault>>

\* The frame at the front. It is undefined what front() is of a queue that
\* StopControl has just cleared.
TakeFront ==
    /\ Alive /\ pc = "take"
    /\ \/ status = "RELEASE" /\ pc' = "done" /\ UNCHANGED <<data, fault>>
       \/ status # "RELEASE" /\ queue = <<>> /\ fault' = "emptyQueue" /\ UNCHANGED con
       \/ status # "RELEASE" /\ queue # <<>> /\ data' = Head(queue) /\ pc' = "clock" /\ UNCHANGED fault
    /\ UNCHANGED <<own, ctl, han, cbs, frm, queue, mem>>

\* AcquireSyncClockTime, by what it returns.
AcquireSyncClockTime ==
    CASE mem = "invalid" -> "failed" [] mem = "empty" -> "not ready" [] mem = "ready" -> "success"

\* CheckIsClockInvalid: where a frame under control goes.
CheckIsClockInvalid ==
    CASE mode = "SMOOTH" \/ AcquireSyncClockTime = "success" -> "balance"
      [] mode = "SYNC" /\ AcquireSyncClockTime = "not ready" -> "reread"
      [] mode = "SYNC" /\ AcquireSyncClockTime = "failed" -> "post"

\* ControlOutput: a frame without a time stamp is output at once.
ControlOutput ==
    /\ Alive /\ pc = "clock" /\ pc' \in {"post", CheckIsClockInvalid}
    /\ UNCHANGED <<own, ctl, han, cbs, frm, queue, data, mem, fault>>

\* WaitRereadClockFailed: until the clock can be read, the mode is SMOOTH or the
\* queue is full; the status is not looked at.
WaitRereadClockFailed ==
    /\ Alive /\ pc = "reread"
    /\ \/ Len(queue) >= QUEUE_MAX_SIZE /\ pc' = "post"
       \/ Len(queue) < QUEUE_MAX_SIZE /\ (AcquireSyncClockTime = "success" \/ mode = "SMOOTH") /\ pc' = "balance"
    /\ UNCHANGED <<own, ctl, han, cbs, frm, queue, data, mem, fault>>

\* CheckIsProcessInDynamicBalance: when a smooth stream first reaches balance
\* the queue is cleared; until then its frames are not held.
CheckIsProcessInDynamicBalance ==
    /\ Alive /\ pc = "balance"
    /\ \/ (mode = "SYNC" \/ balance) /\ pc' = "sleep" /\ UNCHANGED <<queue, balance>>
       \/ mode = "SMOOTH" /\ ~balance /\ pc' = "post" /\ UNCHANGED <<queue, balance>>
       \/ mode = "SMOOTH" /\ ~balance /\ pc' = "sleep" /\ queue' = <<>> /\ balance' = TRUE
    /\ UNCHANGED <<own, han, cbs, frm, status, mode, data, mem, fault>>

\* CalSleepTime and SyncClock: the frame is held for its time, or until the
\* status is no longer START.
SyncClock ==
    /\ Alive /\ pc = "sleep" /\ pc' = "post"
    /\ UNCHANGED <<own, ctl, han, cbs, frm, queue, data, mem, fault>>

\* PostOutputEvent. A frame that cannot be posted stays in the queue.
PostOutputEvent ==
    /\ Alive /\ pc = "post"
    /\ \/ looper = "run" /\ posted' = Append(posted, data) /\ pc' = "pop"
       \/ looper # "run" /\ pc' \in {"pop", "check"} /\ UNCHANGED posted
    /\ UNCHANGED <<own, ctl, cbs, frm, queue, data, looper, mem, fault>>

\* Seeded fault: the frame stays in the queue after it was posted.
PopHandledKept ==
    /\ Alive /\ pc = "pop" /\ pc' = "check" /\ data' = 0
    /\ UNCHANGED queue
    /\ UNCHANGED <<own, ctl, han, cbs, frm, mem, fault>>

\* The end of HandleControlResult: the frame is removed if it is still in front.
PopHandled ==
    /\ Alive /\ pc = "pop" /\ pc' = "check" /\ data' = 0
    /\ queue' = IF queue # <<>> /\ Head(queue) = data THEN Tail(queue) ELSE queue
    /\ UNCHANGED <<own, ctl, han, cbs, frm, mem, fault>>

-----------------------------------------------------------------------------
(* The handler thread *)

\* NotifyOutput, OutputControllerListener and DscreenOutputPlugin::OnOutput,
\* which calls dataCb_ without asking whether there is one.
OnOutput ==
    /\ Alive /\ looper = "run" /\ posted # <<>>
    /\ posted' = Tail(posted)
    /\ output' = IF listener /\ callback THEN Head(posted) ELSE output
    /\ got' = IF listener /\ callback THEN got + 1 ELSE got
    /\ fault' = IF listener /\ ~callback THEN "emptyCallback" ELSE fault
    /\ UNCHANGED <<own, ctl, con, cbs, queue, mem, looper, pushed>>

-----------------------------------------------------------------------------

Caller ==
    \/ InitPlugin \/ PreparePlugin \/ StartControl \/ Stop
    \/ \E sync \in BOOLEAN : PushData(sync)

Stopping == StopControl \/ Reset \/ ReleaseNotify \/ StopRunner \/ JoinControl

Control ==
    \/ LoopCheck \/ Block \/ TakeFront \/ ControlOutput \/ WaitRereadClockFailed
    \/ CheckIsProcessInDynamicBalance \/ SyncClock \/ PostOutputEvent \/ PopHandled

Next == Caller \/ Stopping \/ Control \/ OnOutput \/ SetSharedMemory \/ MasterClock

Spec == Init /\ [][Next]_vars

\* The threads run; nobody has to call, and the audio need not play.
FairSpec == Spec /\ WF_vars(Control) /\ WF_vars(OnOutput) /\ WF_vars(Stopping)

-----------------------------------------------------------------------------
(* Properties *)

Fifo == INSTANCE LossyFifo WITH in <- pushed, out <- output, got <- got

\* The application gets frames in the order of PushData and none twice, though
\* the control thread keeps a frame that the queue may lose meanwhile (overflow,
\* a change of mode, StopControl), and removes it only after it was posted.
OutputsInOrder == Fifo!Spec

\* A frame in the queue of a controller that runs does not stay there: PushData
\* wakes the control thread. Only a clock that cannot be read holds it up.
FramesMoveOn ==
    \A f \in Frame :
        (status = "START" /\ \E i \in DOMAIN queue : queue[i] = f)
            ~> (pc = "reread" \/ ~Alive \/ ~\E i \in DOMAIN queue : queue[i] = f)

\* When AVOutputFilter::Stop has returned both threads have ended, so that
\* nothing touches the controller that is destroyed then.
NoThreadLeft == plugin = "none" => pc \in {"none", "done"} /\ looper # "run"

\* The plugin can be reset at any time: Reset returns OK.
ResetReturns == caller = "stopped" ~> caller = "idle"

\* A posted frame finds the application's callback.
CallbackThere == fault # "emptyCallback"

=============================================================================
