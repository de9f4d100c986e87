------------------------ MODULE OutputControlProofs ------------------------
(***************************************************************************)
(* That no thread outlives the plugin and that the controller implements   *)
(* LossyFifo, for every length of the queue, every number of frames and    *)
(* every number of plugins.                                                *)
(*                                                                         *)
(* The order of the output rests on one chain: what the application got,   *)
(* what is posted, the frame the control thread holds, what is queued and  *)
(* what was pushed come in this order, strictly but for the moment between *)
(* PostOutputEvent and PopHandled, when the frame is in both.              *)
(***************************************************************************)
EXTENDS OutputControl, TLAPS

Rising(s) == \A i, j \in 1 .. Len(s) : i < j => s[i] < s[j]
Above(s, x) == \A i \in 1 .. Len(s) : x < s[i]
AtLeast(s, x) == \A i \in 1 .. Len(s) : x <= s[i]
AtMost(s, x) == \A i \in 1 .. Len(s) : s[i] <= x

\* The last frame posted, or else the last one that was output.
High == IF posted = <<>> THEN output ELSE posted[Len(posted)]

\* The control thread has taken a frame it has not posted yet.
Holding == pc \in {"clock", "reread", "balance", "sleep", "post"}

Order ==
    /\ Rising(queue) /\ AtMost(queue, pushed)
    /\ Rising(posted) /\ AtMost(posted, pushed) /\ Above(posted, output)
    /\ output <= pushed /\ got <= output /\ data <= pushed
    /\ pc # "pop" => Above(queue, High)
    /\ Holding => High < data /\ AtLeast(queue, data)
    /\ pc = "pop" => High <= data /\ AtLeast(queue, data)

\* Who may run when: a controller that was not started has no threads, and the
\* runner is stopped before the control thread is waited for.
Threads ==
    /\ plugin = "none" => caller = "idle" /\ pc \in {"none", "done"} /\ looper # "run"
    /\ plugin \in {"INITIALIZED", "PREPARED"} /\ caller = "idle" => pc = "none" /\ looper = "none"
    /\ looper = "run" => status # "RELEASE" \/ caller \in {"reset", "notified"}
    /\ caller = "joinControl" => looper # "run"

OutputInv == TypeOK /\ Order /\ Threads

-----------------------------------------------------------------------------
(* Sequences of frames *)

\* An empty sequence has every order (a queue that was cleared).
LEMMA EmptyOrdered ==
    ASSUME NEW x \in Nat
    PROVE  Rising(<<>>) /\ Above(<<>>, x) /\ AtLeast(<<>>, x) /\ AtMost(<<>>, x)
  BY DEF Rising, Above, AtLeast, AtMost

\* The queue of one frame that CheckSyncInfo leaves.
LEMMA SingleOrdered ==
    ASSUME NEW f \in Nat, NEW x \in Nat
    PROVE  /\ Rising(<<f>>)
           /\ x < f => Above(<<f>>, x)
           /\ x <= f => AtLeast(<<f>>, x)
           /\ f <= x => AtMost(<<f>>, x)
  BY DEF Rising, Above, AtLeast, AtMost

\* Append of a frame above all others, as PushData and PostOutputEvent do it.
LEMMA AppendOrdered ==
    ASSUME NEW s \in Seq(Nat), NEW f \in Nat, NEW x \in Nat
    PROVE  /\ Rising(s) /\ (\A i \in 1 .. Len(s) : s[i] < f) => Rising(Append(s, f))
           /\ Above(s, x) /\ x < f => Above(Append(s, f), x)
           /\ AtLeast(s, x) /\ x <= f => AtLeast(Append(s, f), x)
           /\ AtMost(s, x) /\ f <= x => AtMost(Append(s, f), x)
  <1> DEFINE t == Append(s, f)
  <1>1. /\ Len(t) = Len(s) + 1 /\ Len(s) \in Nat
        /\ \A i \in 1 .. Len(s) : t[i] = s[i] /\ s[i] \in Nat
        /\ t[Len(s) + 1] = f
    OBVIOUS
  <1>2. \A i \in 1 .. Len(t) : i \in 1 .. Len(s) \/ i = Len(s) + 1
    BY <1>1
  <1> HIDE DEF t
  <1>3. ASSUME Rising(s), \A i \in 1 .. Len(s) : s[i] < f
        PROVE  Rising(t)
    <2> SUFFICES ASSUME NEW i \in 1 .. Len(t), NEW j \in 1 .. Len(t), i < j
                 PROVE  t[i] < t[j]
      BY DEF Rising
    <2>1. i \in 1 .. Len(s)
      BY <1>1
    <2>2. CASE j \in 1 .. Len(s)
      BY <1>1, <1>3, <2>1, <2>2 DEF Rising
    <2>3. CASE j = Len(s) + 1
      BY <1>1, <1>3, <2>1, <2>3
    <2> QED BY <1>2, <2>2, <2>3
  <1>4. /\ Above(s, x) /\ x < f => Above(t, x)
        /\ AtLeast(s, x) /\ x <= f => AtLeast(t, x)
        /\ AtMost(s, x) /\ f <= x => AtMost(t, x)
    BY <1>1, <1>2 DEF Above, AtLeast, AtMost
  <1> QED
    BY <1>3, <1>4 DEF t

\* Removal of the first frame, as PushData, PopHandled and OnOutput do it.
LEMMA TailOrdered ==
    ASSUME NEW s \in Seq(Nat), s # <<>>, NEW x \in Nat
    PROVE  /\ Tail(s) \in Seq(Nat) /\ Head(s) \in Nat
           /\ Rising(s) => Rising(Tail(s)) /\ Above(Tail(s), Head(s)) /\ AtLeast(s, Head(s))
           /\ Above(s, x) => Above(Tail(s), x) /\ x < Head(s)
           /\ AtLeast(s, x) => AtLeast(Tail(s), x) /\ x <= Head(s)
           /\ AtMost(s, x) => AtMost(Tail(s), x) /\ Head(s) <= x
  <1> DEFINE t == Tail(s)
  <1>1. /\ Len(s) \in Nat /\ 1 <= Len(s) /\ Len(t) = Len(s) - 1 /\ t \in Seq(Nat)
        /\ \A i \in 1 .. Len(t) : t[i] = s[i + 1]
        /\ Head(s) = s[1]
        /\ \A i \in 1 .. Len(s) : s[i] \in Nat
    OBVIOUS
  <1> HIDE DEF t
  <1>2. \A i \in 1 .. Len(t) : i + 1 \in 1 .. Len(s) /\ 1 < i + 1
    BY <1>1
  <1>3. 1 \in 1 .. Len(s) /\ \A i \in 1 .. Len(s) : i = 1 \/ 1 < i
    BY <1>1
  <1>4. ASSUME Rising(s) PROVE Rising(t) /\ Above(t, Head(s)) /\ AtLeast(s, Head(s))
    <2>1. Rising(t)
      <3> SUFFICES ASSUME NEW i \in 1 .. Len(t), NEW j \in 1 .. Len(t), i < j
                   PROVE  t[i] < t[j]
        BY DEF Rising
      <3>1. i + 1 < j + 1
        BY <1>1
      <3>2. s[i + 1] < s[j + 1]
        BY <1>2, <1>4, <3>1 DEF Rising
      <3> QED
        BY <1>1, <3>2
    <2>2. Above(t, Head(s))
      BY <1>1, <1>2, <1>3, <1>4 DEF Rising, Above
    <2>3. AtLeast(s, Head(s))
      BY <1>1, <1>3, <1>4 DEF Rising, AtLeast
    <2> QED
      BY <2>1, <2>2, <2>3
  <1>5. /\ Above(s, x) => Above(t, x) /\ x < Head(s)
        /\ AtLeast(s, x) => AtLeast(t, x) /\ x <= Head(s)
        /\ AtMost(s, x) => AtMost(t, x) /\ Head(s) <= x
    BY <1>1, <1>2, <1>3 DEF Above, AtLeast, AtMost
  <1> QED
    BY <1>1, <1>4, <1>5 DEF t

\* The bounds are monotone.
LEMMA BoundsMonotone ==
    ASSUME NEW s \in Seq(Nat), NEW x \in Nat, NEW y \in Nat
    PROVE  /\ Above(s, y) /\ x <= y => Above(s, x)
           /\ AtLeast(s, y) /\ x < y => Above(s, x)
           /\ AtMost(s, x) /\ x <= y => AtMost(s, y)
           /\ AtMost(s, x) /\ x < y => \A i \in 1 .. Len(s) : s[i] < y
  <1>1. \A i \in 1 .. Len(s) : s[i] \in Nat
    OBVIOUS
  <1> QED
    BY <1>1 DEF Above, AtLeast, AtMost

\* A rising sequence that starts at or above x and does not start with x is above x.
LEMMA HeadDecides ==
    ASSUME NEW s \in Seq(Nat), NEW x \in Nat, s # <<>>, Rising(s), x < Head(s)
    PROVE  Above(s, x)
  <1>1. /\ Len(s) \in Nat /\ 1 \in 1 .. Len(s) /\ Head(s) = s[1]
        /\ \A i \in 1 .. Len(s) : s[i] \in Nat /\ (i = 1 \/ 1 < i)
    OBVIOUS
  <1> QED
    BY <1>1 DEF Rising, Above

-----------------------------------------------------------------------------
(* The inductive invariant *)

\* What has been posted or output lies between the output and the last frame pushed.
LEMMA HighBetween ==
    ASSUME TypeOK, Order
    PROVE  High \in Nat /\ output <= High /\ High <= pushed
  <1>1. CASE posted = <<>>
    BY <1>1, OutputAssumption DEF TypeOK, Order, High
  <1>2. CASE posted # <<>>
    <2>1. Len(posted) \in 1 .. Len(posted) /\ posted[Len(posted)] \in Nat
      BY <1>2, OutputAssumption DEF TypeOK, Frame
    <2> QED
      BY <1>2, <2>1, OutputAssumption DEF TypeOK, Order, High, Above, AtMost
  <1> QED
    BY <1>1, <1>2

\* The sequences hold numbers.
LEMMA FramesAreNumbers ==
    ASSUME TypeOK
    PROVE  /\ queue \in Seq(Nat) /\ posted \in Seq(Nat) /\ data \in Nat
           /\ pushed \in Nat /\ output \in Nat /\ got \in Nat
  BY OutputAssumption DEF TypeOK, Frame

\* Initially nothing was pushed and no thread runs.
LEMMA OutputInit == Init => OutputInv
  <1> SUFFICES ASSUME Init PROVE OutputInv
    OBVIOUS
  <1>1. TypeOK
    <2>1. queue \in Seq(Frame) /\ posted \in Seq(Frame)
      BY DEF Init
    <2>2. balance \in BOOLEAN /\ callback \in BOOLEAN /\ listener \in BOOLEAN
      BY Zenon DEF Init
    <2>3. /\ pushed \in 0 .. MaxFrame /\ output \in 0 .. MaxFrame /\ got \in 0 .. MaxFrame
          /\ lives \in 0 .. MaxLives
      BY OutputAssumption DEF Init
    <2> QED
      BY <2>1, <2>2, <2>3, Zenon DEF Init, TypeOK, ConPc, CallerPc
  <1>2. Order
    BY EmptyOrdered DEF Init, Order, High, Holding
  <1>3. Threads
    BY DEF Init, Threads
  <1> QED
    BY <1>1, <1>2, <1>3 DEF OutputInv

\* The threads start and end as Threads says, whatever is called when.
LEMMA ThreadsStep == OutputInv /\ [Next]_vars => Threads'
  <1> SUFFICES ASSUME OutputInv, [Next]_vars PROVE Threads'
    OBVIOUS
  <1> USE DEF OutputInv, Threads, TypeOK, ConPc, CallerPc
  <1>1. CASE Caller
    <2>1. CASE InitPlugin
      BY <2>1 DEF InitPlugin
    <2>2. CASE PreparePlugin
      BY <2>2 DEF PreparePlugin, con, han
    <2>3. CASE StartControl
      BY <2>3 DEF StartControl, LooperHandle
    <2>4. CASE Stop
      BY <2>4 DEF Stop, ctl, con, han
    <2>5. ASSUME NEW sync \in BOOLEAN, PushData(sync) PROVE Threads'
      BY <2>5 DEF PushData, Notified, own, han
    <2> QED
      BY <1>1, <2>1, <2>2, <2>3, <2>4, <2>5 DEF Caller
  <1>2. CASE Stopping
    BY <1>2 DEF Stopping, StopControl, Reset, ReleaseNotify, StopRunner, JoinControl, Notified,
                con, han
  <1>3. CASE Control
    <2>1. pc \notin {"none", "done"} /\ UNCHANGED <<plugin, caller, looper, status>>
      BY <1>3 DEF Control, LoopCheck, Block, TakeFront, ControlOutput, WaitRereadClockFailed,
                  CheckIsProcessInDynamicBalance, SyncClock, PostOutputEvent, PopHandled, own, ctl, han
    <2> QED
      BY <2>1
  <1>4. CASE OnOutput \/ SetSharedMemory \/ MasterClock \/ UNCHANGED vars
    BY <1>4 DEF OnOutput, SetSharedMemory, MasterClock, vars, own, ctl, con, han
  <1> QED
    BY <1>1, <1>2, <1>3, <1>4 DEF Next

\* What is left of a sequence of frames is one.
LEMMA ShorterIsSeq ==
    <<>> \in Seq(Frame) /\ \A s \in Seq(Frame) : s # <<>> => Tail(s) \in Seq(Frame)
  OBVIOUS

\* Types are kept; the frames handed out stay in range because of their order.
LEMMA TypeStep == OutputInv /\ [Next]_vars => TypeOK'
  <1> SUFFICES ASSUME OutputInv, [Next]_vars PROVE TypeOK'
    OBVIOUS
  <1> USE OutputAssumption
  <1>0. TypeOK /\ Order
    BY DEF OutputInv
  <1>1. queue' \in Seq(Frame) /\ pushed' \in 0 .. MaxFrame
    <2>1. ASSUME NEW sync \in BOOLEAN, PushData(sync)
          PROVE  queue' \in Seq(Frame) /\ pushed' \in 0 .. MaxFrame
      <3>1. pushed' \in 0 .. MaxFrame /\ pushed + 1 \in Frame
        BY <1>0, <2>1 DEF PushData, TypeOK, Frame
      <3> DEFINE kept == IF Len(queue) > QUEUE_MAX_SIZE THEN Tail(queue) ELSE queue
      <3>2. kept \in Seq(Frame)
        BY <1>0 DEF TypeOK
      <3>3. UNCHANGED queue \/ CheckSyncInfo(sync, kept)
        BY <2>1 DEF PushData
      <3> HIDE DEF kept
      <3>4. queue' \in {queue, Append(kept, pushed + 1), <<pushed + 1>>}
        BY <3>3 DEF CheckSyncInfo
      <3>5. Append(kept, pushed + 1) \in Seq(Frame) /\ <<pushed + 1>> \in Seq(Frame)
        BY <3>1, <3>2
      <3> QED
        BY <1>0, <3>1, <3>4, <3>5 DEF TypeOK
    <2>2. CASE ~\E sync \in BOOLEAN : PushData(sync)
      <3>1. UNCHANGED pushed
        BY <2>2 DEF Next, vars, frm, Caller, InitPlugin, PreparePlugin, StartControl, Stop,
                  Stopping, StopControl, Reset, ReleaseNotify, StopRunner, JoinControl, SetSharedMemory,
                  MasterClock, OnOutput, Control, LoopCheck, Block, TakeFront, ControlOutput,
                  WaitRereadClockFailed, CheckIsProcessInDynamicBalance, SyncClock, PostOutputEvent,
                  PopHandled
      <3>2. queue' = queue \/ queue' = <<>> \/ (queue # <<>> /\ queue' = Tail(queue))
        BY <2>2 DEF Next, vars, Caller, InitPlugin, PreparePlugin, StartControl, Stop,
                  Stopping, StopControl, Reset, ReleaseNotify, StopRunner, JoinControl, SetSharedMemory,
                  MasterClock, OnOutput, Control, LoopCheck, Block, TakeFront, ControlOutput,
                  WaitRereadClockFailed, CheckIsProcessInDynamicBalance, SyncClock, PostOutputEvent,
                  PopHandled
      <3>3. queue' \in Seq(Frame)
        BY <1>0, <3>2, ShorterIsSeq DEF TypeOK
      <3> QED
        BY <1>0, <3>1, <3>3 DEF TypeOK
    <2> QED
      BY <2>1, <2>2
  <1>2. posted' \in Seq(Frame) /\ data' \in Frame \cup {0}
    <2>1. CASE PostOutputEvent
      <3>1. data \in Frame
        BY <1>0, <2>1, HighBetween DEF PostOutputEvent, Order, Holding, TypeOK, Frame
      <3> QED
        BY <1>0, <2>1, <3>1 DEF PostOutputEvent, TypeOK
    <2>2. CASE ~PostOutputEvent
      <3>1. posted' = posted \/ posted' = <<>> \/ (posted # <<>> /\ posted' = Tail(posted))
        BY <2>2 DEF Next, vars, han, Caller, InitPlugin, PreparePlugin, StartControl, Stop, PushData,
                  Stopping, StopControl, Reset, ReleaseNotify, StopRunner, JoinControl, SetSharedMemory,
                  MasterClock, OnOutput, Control, LoopCheck, Block, TakeFront, ControlOutput,
                  WaitRereadClockFailed, CheckIsProcessInDynamicBalance, SyncClock, PopHandled
      <3>2. data' \in {data, 0} \/ (queue # <<>> /\ data' = Head(queue))
        BY <2>2 DEF Next, vars, con, Caller, InitPlugin, PreparePlugin, StartControl, Stop, PushData,
                  Stopping, StopControl, Reset, ReleaseNotify, StopRunner, JoinControl, SetSharedMemory,
                  MasterClock, OnOutput, Control, LoopCheck, Block, TakeFront, ControlOutput,
                  WaitRereadClockFailed, CheckIsProcessInDynamicBalance, SyncClock, PopHandled
      <3>3. posted' \in Seq(Frame)
        BY <1>0, <3>1, ShorterIsSeq DEF TypeOK
      <3>4. data' \in Frame \cup {0}
        BY <1>0, <3>2 DEF TypeOK
      <3> QED
        BY <3>3, <3>4
    <2> QED
      BY <2>1, <2>2
  <1>3. output' \in 0 .. MaxFrame /\ got' \in 0 .. MaxFrame
    <2>1. CASE OnOutput
      <3>1. /\ Head(posted) \in Nat /\ output < Head(posted) /\ Head(posted) <= pushed
        BY <1>0, <2>1, FramesAreNumbers, TailOrdered DEF OnOutput, Order
      <3> QED
        BY <1>0, <2>1, <3>1 DEF OnOutput, Order, TypeOK
    <2>2. CASE ~OnOutput
      <3>1. UNCHANGED <<output, got>>
        BY <2>2 DEF Next, vars, frm, Caller, InitPlugin, PreparePlugin, StartControl, Stop, PushData,
                  Stopping, StopControl, Reset, ReleaseNotify, StopRunner, JoinControl, SetSharedMemory,
                  MasterClock, Control, LoopCheck, Block, TakeFront, ControlOutput,
                  WaitRereadClockFailed, CheckIsProcessInDynamicBalance, SyncClock, PostOutputEvent,
                  PopHandled
      <3> QED
        BY <1>0, <3>1 DEF TypeOK
    <2> QED
      BY <2>1, <2>2
  <1>4. balance' \in BOOLEAN /\ callback' \in BOOLEAN /\ listener' \in BOOLEAN
    BY <1>0, Zenon DEF Next, vars, cbs, ctl, Caller, InitPlugin, PreparePlugin, StartControl, Stop,
              PushData, CheckSyncInfo, SetControlMode, PrepareControl, PrepareSync, PrepareSmooth,
              Stopping, StopControl, Reset, ReleaseNotify, StopRunner, JoinControl, SetSharedMemory,
              MasterClock, OnOutput, Control, LoopCheck, Block, TakeFront, ControlOutput,
              WaitRereadClockFailed, CheckIsProcessInDynamicBalance, SyncClock, PostOutputEvent,
              PopHandled, TypeOK
  <1>5. plugin' \in {"none", "INITIALIZED", "PREPARED", "RUNNING"} /\ caller' \in CallerPc
    BY <1>0 DEF TypeOK, CallerPc, Next, vars, own, Caller, InitPlugin, PreparePlugin, StartControl, Stop,
              PushData, Stopping, StopControl, Reset, ReleaseNotify, StopRunner, JoinControl,
              SetSharedMemory, MasterClock, OnOutput, Control, LoopCheck, Block, TakeFront,
              ControlOutput, WaitRereadClockFailed, CheckIsProcessInDynamicBalance, SyncClock,
              PostOutputEvent, PopHandled
  <1>6. status' \in {"START", "STOP", "RELEASE"} /\ mode' \in {"SMOOTH", "SYNC"}
    BY <1>0 DEF TypeOK, Next, vars, ctl, Caller, InitPlugin, PreparePlugin, StartControl, Stop,
              PushData, CheckSyncInfo, SetControlMode, Stopping, StopControl, Reset, ReleaseNotify,
              StopRunner, JoinControl, SetSharedMemory, MasterClock, OnOutput, Control, LoopCheck,
              Block, TakeFront, ControlOutput, WaitRereadClockFailed, CheckIsProcessInDynamicBalance,
              SyncClock, PostOutputEvent, PopHandled
  <1>7. pc' \in ConPc
    <2>1. CheckIsClockInvalid \in {"balance", "reread", "post"}
      BY <1>0 DEF TypeOK, CheckIsClockInvalid, AcquireSyncClockTime
    <2> QED
      BY <1>0, <2>1 DEF TypeOK, ConPc, Next, vars, con, Caller, InitPlugin, PreparePlugin, StartControl, Stop,
              PushData, Notified, Stopping, StopControl, Reset, ReleaseNotify, StopRunner, JoinControl,
              SetSharedMemory, MasterClock, OnOutput, Control, LoopCheck, Block, TakeFront,
              ControlOutput, WaitRereadClockFailed,
              CheckIsProcessInDynamicBalance, SyncClock, PostOutputEvent, PopHandled
  <1>8. /\ mem' \in {"invalid", "empty", "ready"} /\ looper' \in {"none", "run", "stopped"}
        /\ lives' \in 0 .. MaxLives /\ fault' \in {"none", "emptyQueue", "emptyCallback"}
    BY <1>0 DEF TypeOK, Next, vars, own, han, Caller, InitPlugin, PreparePlugin, StartControl,
              LooperHandle, Stop, PushData, Stopping, StopControl, Reset, ReleaseNotify, StopRunner,
              JoinControl, SetSharedMemory, MasterClock, OnOutput, Control, LoopCheck, Block,
              TakeFront, ControlOutput, WaitRereadClockFailed, CheckIsProcessInDynamicBalance,
              SyncClock, PostOutputEvent, PopHandled
  <1> QED
    BY <1>1, <1>2, <1>3, <1>4, <1>5, <1>6, <1>7, <1>8, Zenon DEF TypeOK

\* A step of the control thread, or of nobody, that moves no frame: it holds one
\* before and after, or neither.
PcMoves == pc' = pc \/ (pc # "pop" /\ pc' # "pop" /\ ~Holding') \/ (Holding /\ Holding')

\* Such a step keeps the order.
LEMMA QuietStep ==
    ASSUME Order, UNCHANGED <<queue, posted, data, pushed, output, got>>, PcMoves
    PROVE  Order'
  BY DEF Order, Holding, High, PcMoves

\* So does one that clears the queue (a change of mode, StopControl, the balance).
LEMMA ClearStep ==
    ASSUME TypeOK, Order, queue' = <<>>, UNCHANGED <<posted, data, pushed, output, got>>, PcMoves
    PROVE  Order'
  <1>1. \A x \in Nat : Rising(queue') /\ Above(queue', x) /\ AtLeast(queue', x) /\ AtMost(queue', x)
    BY EmptyOrdered
  <1>2. High' = High /\ High \in Nat /\ data \in Nat /\ pushed \in Nat
    BY HighBetween, FramesAreNumbers DEF High
  <1> QED
    BY <1>1, <1>2 DEF Order, Holding, PcMoves

\* PushData offers the highest frame, in whatever state the control thread is.
LEMMA PushStep ==
    ASSUME TypeOK, Order, NEW sync \in BOOLEAN, PushData(sync)
    PROVE  Order'
  <1> DEFINE kept == IF Len(queue) > QUEUE_MAX_SIZE THEN Tail(queue) ELSE queue
             f == pushed + 1
  <1>1. /\ queue \in Seq(Nat) /\ posted \in Seq(Nat) /\ data \in Nat
        /\ pushed \in Nat /\ output \in Nat /\ got \in Nat /\ f \in Nat
        /\ High \in Nat /\ High <= pushed
    BY HighBetween, FramesAreNumbers
  <1>2. /\ UNCHANGED <<posted, data, output, got>> /\ pushed' = f
        /\ pc' = pc \/ (pc # "pop" /\ ~Holding /\ pc' # "pop" /\ ~Holding')
    BY DEF PushData, Notified, Holding, han
  <1>3. High' = High
    BY <1>2 DEF High
  <1>4. queue' = queue \/ queue' = Append(kept, f) \/ queue' = <<f>>
    BY DEF PushData, CheckSyncInfo
  <1>5. /\ kept \in Seq(Nat) /\ Rising(kept) /\ AtMost(kept, pushed)
        /\ \A x \in Nat : (Above(queue, x) => Above(kept, x)) /\ (AtLeast(queue, x) => AtLeast(kept, x))
    <2>1. CASE kept = queue
      BY <1>1, <2>1 DEF Order
    <2>2. CASE kept = Tail(queue) /\ Len(queue) > QUEUE_MAX_SIZE
      <3>1. queue # <<>>
        BY <1>1, <2>2, OutputAssumption
      <3> HIDE DEF kept
      <3> QED
        BY <1>1, <2>2, <3>1, TailOrdered DEF Order
    <2> QED
      BY <2>1, <2>2
  <1> HIDE DEF kept
  <1>6. \A i \in 1 .. Len(kept) : kept[i] < f
    BY <1>1, <1>5, BoundsMonotone
  <1>7. /\ Rising(queue') /\ AtMost(queue', f)
        /\ \A x \in Nat : (Above(queue, x) /\ x <= pushed => Above(queue', x))
                          /\ (AtLeast(queue, x) /\ x <= pushed => AtLeast(queue', x))
    <2>1. CASE queue' = queue
      BY <1>1, <2>1, BoundsMonotone DEF Order
    <2>2. CASE queue' = Append(kept, f)
      <3>1. Rising(queue')
        BY <1>1, <1>5, <1>6, <2>2, AppendOrdered
      <3>2. AtMost(kept, f)
        BY <1>1, <1>5, BoundsMonotone
      <3>3. AtMost(queue', f)
        BY <1>1, <1>5, <2>2, <3>2, AppendOrdered
      <3>4. ASSUME NEW x \in Nat, x <= pushed
            PROVE  (Above(queue, x) => Above(queue', x)) /\ (AtLeast(queue, x) => AtLeast(queue', x))
        <4>1. x < f /\ x <= f
          BY <1>1, <3>4
        <4> QED
          BY <1>1, <1>5, <2>2, <4>1, AppendOrdered
      <3> QED
        BY <3>1, <3>3, <3>4
    <2>3. CASE queue' = <<f>>
      BY <1>1, <2>3, SingleOrdered
    <2> QED
      BY <1>4, <2>1, <2>2, <2>3
  <1>8. AtMost(posted, f)
    BY <1>1, BoundsMonotone DEF Order
  <1>9. output <= f /\ data <= f
    BY <1>1 DEF Order
  <1> HIDE DEF f
  <1>10. /\ Rising(queue') /\ AtMost(queue', pushed')
         /\ Rising(posted') /\ AtMost(posted', pushed') /\ Above(posted', output')
         /\ output' <= pushed' /\ got' <= output' /\ data' <= pushed'
    BY <1>2, <1>7, <1>8, <1>9 DEF Order
  <1>11. pc' # "pop" => Above(queue', High')
    BY <1>1, <1>2, <1>3, <1>7 DEF Order
  <1>12. Holding' => High' < data' /\ AtLeast(queue', data')
    BY <1>1, <1>2, <1>3, <1>7 DEF Order, Holding
  <1>13. pc' = "pop" => High' <= data' /\ AtLeast(queue', data')
    BY <1>1, <1>2, <1>3, <1>7 DEF Order, Holding
  <1> QED
    BY <1>10, <1>11, <1>12, <1>13 DEF Order

\* The control thread takes the lowest frame of the queue, which is above all
\* that were posted.
LEMMA TakeStep ==
    ASSUME TypeOK, Order, TakeFront
    PROVE  Order'
  <1>1. UNCHANGED <<queue, posted, pushed, output, got>> /\ pc = "take"
    BY DEF TakeFront, han, frm
  <1>2. CASE UNCHANGED data /\ PcMoves
    BY <1>1, <1>2, QuietStep
  <1>3. CASE queue # <<>> /\ data' = Head(queue) /\ pc' = "clock"
    <2>1. /\ queue \in Seq(Nat) /\ pushed \in Nat /\ High \in Nat /\ Above(queue, High)
      BY <1>1, HighBetween, FramesAreNumbers DEF Order
    <2>2. High < Head(queue) /\ Head(queue) <= pushed /\ AtLeast(queue, Head(queue))
      BY <1>3, <2>1, TailOrdered DEF Order
    <2>3. High' = High
      BY <1>1 DEF High
    <2> QED
      BY <1>1, <1>3, <2>1, <2>2, <2>3 DEF Order, Holding
  <1> QED
    BY <1>2, <1>3 DEF TakeFront, PcMoves, Holding, con

\* PostOutputEvent makes the frame held the last one posted, or nothing.
LEMMA PostStep ==
    ASSUME TypeOK, Order, PostOutputEvent
    PROVE  Order'
  <1>1. /\ queue \in Seq(Nat) /\ posted \in Seq(Nat) /\ data \in Nat
        /\ pushed \in Nat /\ output \in Nat /\ High \in Nat /\ output <= High
    BY HighBetween, FramesAreNumbers
  <1>2. UNCHANGED <<queue, data, pushed, output, got>> /\ High < data /\ AtLeast(queue, data)
    BY DEF PostOutputEvent, Order, Holding, frm
  <1>3. CASE UNCHANGED posted /\ pc' = "check"
    BY <1>2, <1>3, QuietStep DEF PostOutputEvent, PcMoves, Holding
  <1>4. CASE UNCHANGED posted /\ pc' = "pop"
    BY <1>1, <1>2, <1>4 DEF PostOutputEvent, Order, Holding, High
  <1>5. CASE posted' = Append(posted, data) /\ pc' = "pop"
    <2>1. posted' # <<>> /\ posted'[Len(posted')] = data
      <3>1. /\ Len(Append(posted, data)) = Len(posted) + 1 /\ Len(posted) \in Nat
            /\ Append(posted, data)[Len(posted) + 1] = data
        BY <1>1
      <3> QED
        BY <1>5, <3>1
    <2>2. High' = data
      BY <2>1 DEF High
    <2>3. \A i \in 1 .. Len(posted) : posted[i] < data
      <3>1. CASE posted = <<>>
        BY <3>1
      <3>2. CASE posted # <<>>
        <4>1. Len(posted) \in Nat /\ Len(posted) \in 1 .. Len(posted) /\ posted[Len(posted)] = High
          BY <1>1, <3>2 DEF High
        <4>2. \A i \in 1 .. Len(posted) : posted[i] \in Nat /\ (i < Len(posted) \/ i = Len(posted))
          BY <1>1, <4>1
        <4> QED
          BY <1>1, <1>2, <4>1, <4>2 DEF Order, Rising
      <3> QED
        BY <3>1, <3>2
    <2>4. Rising(posted') /\ AtMost(posted', pushed) /\ Above(posted', output)
      <3>1. output < data
        BY <1>1, <1>2
      <3> QED
        BY <1>1, <1>5, <2>3, <3>1, AppendOrdered DEF Order
    <2> QED
      BY <1>1, <1>2, <1>5, <2>2, <2>4 DEF Order, Holding
  <1> QED
    BY <1>3, <1>4, <1>5 DEF PostOutputEvent

\* PopHandled leaves only frames above the one it handled: the queue still
\* begins with that frame, or with a later one.
LEMMA PopStep ==
    ASSUME TypeOK, Order, PopHandled
    PROVE  Order'
  <1>1. /\ queue \in Seq(Nat) /\ posted \in Seq(Nat) /\ data \in Nat
        /\ pushed \in Nat /\ output \in Nat /\ High \in Nat
    BY HighBetween, FramesAreNumbers
  <1>2. /\ UNCHANGED <<posted, pushed, output, got>> /\ data' = 0 /\ pc' = "check"
        /\ High <= data /\ AtLeast(queue, data)
    BY DEF PopHandled, Order, han, frm
  <1>3. High' = High
    BY <1>2 DEF High
  <1>4. Rising(queue') /\ AtMost(queue', pushed) /\ Above(queue', data) /\ queue' \in Seq(Nat)
    <2>1. CASE queue = <<>>
      BY <1>1, <2>1, EmptyOrdered DEF PopHandled
    <2>2. CASE queue # <<>> /\ Head(queue) = data
      BY <1>1, <2>2, TailOrdered DEF PopHandled, Order
    <2>3. CASE queue # <<>> /\ Head(queue) # data
      <3>1. Head(queue) \in Nat /\ data <= Head(queue)
        BY <1>1, <1>2, <2>3, TailOrdered
      <3>2. Above(queue, data)
        BY <1>1, <2>3, <3>1, HeadDecides DEF Order
      <3> QED
        BY <1>1, <2>3, <3>2 DEF PopHandled, Order
    <2> QED
      BY <2>1, <2>2, <2>3
  <1>5. Above(queue', High)
    BY <1>1, <1>2, <1>4, BoundsMonotone
  <1> QED
    BY <1>1, <1>2, <1>3, <1>4, <1>5 DEF Order, Holding

\* OnOutput delivers the lowest posted frame, or drops it.
LEMMA DeliverStep ==
    ASSUME TypeOK, Order, OnOutput
    PROVE  Order'
  <1>1. /\ queue \in Seq(Nat) /\ posted \in Seq(Nat) /\ posted # <<>> /\ data \in Nat
        /\ pushed \in Nat /\ output \in Nat /\ got \in Nat /\ High \in Nat
    BY HighBetween, FramesAreNumbers DEF OnOutput
  <1>2. /\ UNCHANGED <<queue, pc, data, pushed>> /\ posted' = Tail(posted)
        /\ (output' = output /\ got' = got) \/ (output' = Head(posted) /\ got' = got + 1)
    BY DEF OnOutput, con
  <1>3. /\ Head(posted) \in Nat /\ output < Head(posted) /\ Head(posted) <= pushed
        /\ Rising(posted') /\ AtMost(posted', pushed)
        /\ Above(posted', output) /\ Above(posted', Head(posted)) /\ AtLeast(posted, Head(posted))
    BY <1>1, <1>2, TailOrdered DEF Order
  <1>4. High' \in Nat /\ High' <= High
    <2>1. Len(posted) \in Nat /\ Len(posted) \in 1 .. Len(posted) /\ High = posted[Len(posted)]
      BY <1>1 DEF High
    <2>2. Head(posted) <= High
      BY <1>1, <1>3, <2>1 DEF AtLeast
    <2>3. CASE posted' = <<>>
      BY <1>1, <1>2, <1>3, <2>2, <2>3 DEF High
    <2>4. CASE posted' # <<>>
      <3>1. posted'[Len(posted')] = posted[Len(posted)]
        BY <1>1, <1>2, <2>4
      <3> QED
        BY <1>1, <2>1, <2>4, <3>1 DEF High
    <2> QED
      BY <2>3, <2>4
  <1>5. output' \in Nat /\ output' <= pushed /\ got' <= output' /\ Above(posted', output')
    BY <1>1, <1>2, <1>3 DEF Order
  <1>6. Above(queue, High) => Above(queue', High')
    BY <1>1, <1>2, <1>4, BoundsMonotone
  <1>7. (High < data => High' < data) /\ (High <= data => High' <= data)
    BY <1>1, <1>4
  <1> QED
    BY <1>2, <1>3, <1>5, <1>6, <1>7 DEF Order, Holding

\* Every step keeps the order of the frames.
LEMMA OrderStep == OutputInv /\ [Next]_vars => Order'
  <1> SUFFICES ASSUME OutputInv, [Next]_vars PROVE Order'
    OBVIOUS
  <1>0. TypeOK /\ Order /\ Threads
    BY DEF OutputInv
  <1>1. CASE InitPlugin
    <2>1. /\ queue' = <<>> /\ posted' = <<>> /\ pc' = "none" /\ data' = 0
          /\ UNCHANGED <<pushed, output, got>>
      BY <1>1 DEF InitPlugin, frm
    <2>2. High' = output /\ output \in Nat /\ pushed \in Nat
      BY <1>0, <2>1, FramesAreNumbers DEF High
    <2>3. \A x \in Nat : Rising(<<>>) /\ Above(<<>>, x) /\ AtLeast(<<>>, x) /\ AtMost(<<>>, x)
      BY EmptyOrdered
    <2> QED
      BY <1>0, <2>1, <2>2, <2>3 DEF Order, Holding
  <1>2. CASE PreparePlugin \/ Stop \/ SetSharedMemory \/ MasterClock \/ Reset \/ UNCHANGED vars
    <2>1. UNCHANGED <<queue, posted, data, pushed, output, got, pc>>
      BY <1>2 DEF PreparePlugin, Stop, SetSharedMemory, MasterClock, Reset, vars, con, han, frm
    <2> QED
      BY <1>0, <2>1, QuietStep DEF PcMoves
  <1>3. CASE StartControl
    BY <1>0, <1>3, QuietStep DEF StartControl, PcMoves, Holding, Threads, frm
  <1>4. ASSUME NEW sync \in BOOLEAN, PushData(sync) PROVE Order'
    BY <1>0, <1>4, PushStep
  <1>5. CASE StopControl \/ JoinControl
    BY <1>0, <1>5, ClearStep DEF StopControl, JoinControl, PcMoves, con, han, frm
  <1>6. CASE ReleaseNotify
    BY <1>0, <1>6, QuietStep DEF ReleaseNotify, Notified, PcMoves, Holding, han, frm
  <1>7. CASE StopRunner
    <2>1. posted' = <<>> /\ UNCHANGED <<queue, pc, data, pushed, output, got>>
      BY <1>7 DEF StopRunner, con, frm
    <2>2. /\ queue \in Seq(Nat) /\ pushed \in Nat /\ output \in Nat /\ data \in Nat
          /\ High \in Nat /\ output <= High
      BY <1>0, HighBetween, FramesAreNumbers
    <2>3. High' = output
      BY <2>1 DEF High
    <2>4. Rising(posted') /\ Above(posted', output) /\ AtMost(posted', pushed)
      BY <2>1, <2>2, EmptyOrdered
    <2>5. Above(queue, High) => Above(queue, output)
      BY <2>2, BoundsMonotone
    <2>6. (High < data => output < data) /\ (High <= data => output <= data)
      BY <2>2
    <2> QED
      BY <1>0, <2>1, <2>3, <2>4, <2>5, <2>6 DEF Order, Holding
  <1>8. CASE LoopCheck \/ Block
    BY <1>0, <1>8, QuietStep DEF LoopCheck, Block, PcMoves, Holding, han, frm
  <1>9. CASE TakeFront
    BY <1>0, <1>9, TakeStep
  <1>10. CASE ControlOutput
    <2>1. CheckIsClockInvalid \in {"balance", "reread", "post"}
      BY <1>0 DEF TypeOK, CheckIsClockInvalid, AcquireSyncClockTime
    <2> QED
      BY <1>0, <1>10, <2>1, QuietStep DEF ControlOutput, PcMoves, Holding, han, frm
  <1>11. CASE WaitRereadClockFailed \/ SyncClock
    BY <1>0, <1>11, QuietStep DEF WaitRereadClockFailed, SyncClock, PcMoves, Holding, han, frm
  <1>12. CASE CheckIsProcessInDynamicBalance
    <2>1. /\ UNCHANGED <<posted, data, pushed, output, got>> /\ PcMoves
          /\ queue' = queue \/ queue' = <<>>
      BY <1>12 DEF CheckIsProcessInDynamicBalance, PcMoves, Holding, han, frm
    <2> QED
      BY <1>0, <2>1, QuietStep, ClearStep
  <1>13. CASE PostOutputEvent
    BY <1>0, <1>13, PostStep
  <1>14. CASE PopHandled
    BY <1>0, <1>14, PopStep
  <1>15. CASE OnOutput
    BY <1>0, <1>15, DeliverStep
  <1> QED
    BY <1>1, <1>2, <1>3, <1>4, <1>5, <1>6, <1>7, <1>8, <1>9, <1>10, <1>11, <1>12, <1>13, <1>14, <1>15
       DEF Next, Caller, Stopping, Control

-----------------------------------------------------------------------------
(* Theorems *)

\* The invariant holds always.
THEOREM OutputInvariant == Spec => []OutputInv
  <1>1. OutputInv /\ [Next]_vars => OutputInv'
    BY TypeStep, OrderStep, ThreadsStep DEF OutputInv
  <1> QED
    BY <1>1, OutputInit, PTL DEF Spec

\* When AVOutputFilter::Stop has returned both threads of the controller have
\* ended, whatever they were doing and however often plugins come and go.
THEOREM ThreadsEndFirst == Spec => []NoThreadLeft
  <1>1. OutputInv => NoThreadLeft
    BY DEF OutputInv, Threads, NoThreadLeft
  <1> QED
    BY <1>1, OutputInvariant, PTL

\* The controller implements LossyFifo: frames reach the application in the
\* order of PushData and none twice.
THEOREM OutputRefines == Spec => OutputsInOrder
  <1>1. Init => Fifo!Init
    BY DEF Init, Fifo!Init
  <1>2. OutputInv /\ [Next]_vars => [Fifo!Next]_<<pushed, output, got>>
    <2> SUFFICES ASSUME OutputInv, [Next]_vars PROVE [Fifo!Next]_<<pushed, output, got>>
      OBVIOUS
    <2>0. TypeOK /\ Order
      BY DEF OutputInv
    <2>1. ASSUME NEW sync \in BOOLEAN, PushData(sync) PROVE Fifo!Offer
      BY <2>1 DEF PushData, Fifo!Offer
    <2>2. CASE OnOutput
      <3>1. /\ posted \in Seq(Nat) /\ posted # <<>> /\ pushed \in Nat /\ output \in Nat
        BY <2>0, <2>2, FramesAreNumbers DEF OnOutput
      <3>2. Head(posted) \in (output + 1) .. pushed
        BY <2>0, <3>1, TailOrdered DEF Order
      <3> QED
        BY <2>2, <3>2 DEF OnOutput, Fifo!Next, Fifo!Deliver
    <2>3. CASE ~OnOutput /\ ~\E sync \in BOOLEAN : PushData(sync)
      BY <2>3 DEF Next, vars, frm, Caller, InitPlugin, PreparePlugin, StartControl, Stop,
                Stopping, StopControl, Reset, ReleaseNotify, StopRunner, JoinControl, SetSharedMemory,
                MasterClock, Control, LoopCheck, Block, TakeFront, ControlOutput,
                WaitRereadClockFailed, CheckIsProcessInDynamicBalance, SyncClock, PostOutputEvent,
                PopHandled
    <2> QED
      BY <2>1, <2>2, <2>3 DEF Fifo!Next
  <1> QED
    BY <1>1, <1>2, OutputInvariant, PTL DEF Spec, OutputsInOrder, Fifo!Spec

=============================================================================
