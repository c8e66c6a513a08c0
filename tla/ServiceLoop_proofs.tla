------------------------- MODULE ServiceLoop_proofs --------------------------
(***************************************************************************)
(* What is proved of the two modules that drive the service loop by the    *)
(* clock of the USB stack: UsbLifecycle and PacedTransport.                *)
(*                                                                         *)
(* UsbLifecycle: what the reconciliation of the host's events guarantees   *)
(* for every ring, block, packet and FIFO size, in both formats.  That a   *)
(* ring is Stopped exactly while the bus sleeps, and restarts              *)
(* before it is used, holds when a pass drains one event at most: two that *)
(* cancel out within one tud_task leave no edge, and a change recorded     *)
(* before a suspend is served after it.  That silence is blamed on its     *)
(* cause holds for any number of events, but not across a bus reset, which *)
(* leaves the callbacks' flags as they were.  That no frame is garbled     *)
(* holds for any number of events and across bus resets, but for a host    *)
(* that changes the format only with nothing on its way, and a sink that   *)
(* takes what it has room for: the invariant is that the bytes in both     *)
(* FIFOs are whole frames in the one format on record.                     *)
(*                                                                         *)
(* PacedTransport: at the host's pace nothing is lost or starved, for      *)
(* every size, rate and jitter that the rings have room for.  The          *)
(* invariant says what each FIFO and ring may hold at each place of the    *)
(* loop's round and of the host's frame.                                   *)
(***************************************************************************)
EXTENDS UsbLifecycle, PacedTransport, SequenceTheorems, TLAPS

-----------------------------------------------------------------------------
(* The inductive invariants                                                *)

\* A direction that streams and did not at the last pass.
Edge(d) == streaming[d] /\ ~previously[d]

\* Nothing is left for the control services to do.
Reconciled == previously = streaming /\ ~formatLatch /\ ~rateLatch

IsRing(ring) == ring = [held |-> ring.held, state |-> ring.state]

FlagTypes ==
  /\ alt \in [Direction -> {0, 1, 2}]
  /\ streaming \in [Direction -> BOOLEAN] /\ previously \in [Direction -> BOOLEAN]
  /\ asleep \in BOOLEAN /\ formatLatch \in BOOLEAN /\ rateLatch \in BOOLEAN
  /\ drained \in 0..MaxEvents /\ owed \subseteq Direction
  /\ IsRing(inputRing) /\ IsRing(outputRing)

\* What each control service leaves for the next.
ServedInTurn ==
  /\ turn \in {"task", "lifecycle", "rate", "format", "OUT", "DSP", "IN"}
  /\ turn = "task" /\ drained = 0 => Reconciled
  /\ turn \in {"rate", "format"} => previously = streaming
  /\ turn = "format" => ~rateLatch
  /\ DataTurn => Reconciled

\* A sleeping bus has nothing left that could restart a ring.
SleepsReconciled == asleep => Reconciled

LifecycleInv == FlagTypes /\ ServedInTurn /\ SleepsReconciled /\ StoppedIffAsleep

\* A ring that must restart still has the reason to.
Payable ==
  /\ turn \in {"task", "lifecycle"} =>
       \A d \in owed : formatLatch \/ rateLatch \/ Edge(d)
  /\ turn = "rate" => (owed # {} => formatLatch \/ rateLatch)
  /\ turn = "format" => (owed # {} => formatLatch)
  /\ turn = "task" /\ drained = 0 => owed = {}
  /\ RestartBeforeUse

\* The callbacks' flags are the stack's alternate settings.
FlagsFollow == \A d \in Direction : streaming[d] <=> alt[d] # 0

-----------------------------------------------------------------------------
(* What a step does to the rings                                           *)

\* Writing to a ring and drawing from it neither stops it nor starts it.
LEMMA RingOperations ==
  ASSUME NEW ring, IsRing(ring)
  PROVE  /\ \A src : /\ IsRing(Written(ring, src))
                     /\ Written(ring, src).state = "Stopped" <=> ring.state = "Stopped"
         /\ \A n : /\ IsRing(Drained(ring, n))
                   /\ Drained(ring, n).state = ring.state
<1>1. ASSUME NEW src
      PROVE  /\ IsRing(Written(ring, src))
             /\ Written(ring, src).state = "Stopped" <=> ring.state = "Stopped"
  BY DEF Written, IsRing, Promoted
<1>2. ASSUME NEW n
      PROVE  IsRing(Drained(ring, n)) /\ Drained(ring, n).state = ring.state
  BY DEF Drained, IsRing
<1> QED
  BY <1>1, <1>2

\* So do the data services.
LEMMA DataKeepsRings ==
  ASSUME IsRing(inputRing), IsRing(outputRing), NEW captureOnly \in BOOLEAN, NEW f,
         ServiceOut(f) \/ ServiceDsp \/ ServiceIn(captureOnly, f)
  PROVE  /\ IsRing(inputRing') /\ IsRing(outputRing')
         /\ inputRing'.state = "Stopped" <=> inputRing.state = "Stopped"
         /\ outputRing'.state = "Stopped" <=> outputRing.state = "Stopped"
<1>1. CASE ServiceOut(f)
  BY <1>1, RingOperations DEF ServiceOut
<1>2. CASE ServiceDsp
  BY <1>2, RingOperations DEF ServiceDsp, RunBlock, SkipBlock, loopVars
<1>3. CASE ServiceIn(captureOnly, f)
  BY <1>3, RingOperations DEF ServiceIn, SupplySilence, FlushCarryover, AwaitRunning, AwaitRoom,
     PullFrames, loopVars
<1> QED
  BY <1>1, <1>2, <1>3

LEMMA EmptiedIsRing ==
  ASSUME NEW s
  PROVE  IsRing(Emptied(s)) /\ Emptied(s).state = s
BY DEF IsRing, Emptied

-----------------------------------------------------------------------------
(* The rings are Stopped exactly while the bus sleeps                      *)

LEMMA InitiallyLifecycleInv ==
  ASSUME Init
  PROVE  LifecycleInv
<1>1. FlagTypes
  <2>1. IsRing(inputRing) /\ IsRing(outputRing)
    BY EmptiedIsRing DEF Init, LoopInit
  <2>2. drained \in 0..MaxEvents /\ owed \subseteq Direction
    BY LifecycleAssumption DEF LifecycleConstants, Init
  <2> QED
    BY <2>1, <2>2 DEF FlagTypes, Init
<1>2. ServedInTurn
  BY LifecycleAssumption DEF LifecycleConstants, ServedInTurn, Init, Reconciled, DataTurn
<1>3. SleepsReconciled /\ StoppedIffAsleep
  BY EmptiedIsRing DEF SleepsReconciled, StoppedIffAsleep, Init, LoopInit
<1> QED
  BY <1>1, <1>2, <1>3 DEF LifecycleInv

LEMMA TaskKeepsLifecycleInv ==
  ASSUME MaxEvents = 1, LifecycleInv, TaskEvent
  PROVE  LifecycleInv'
<1>1. drained = 0 /\ Reconciled /\ turn' = "task" /\ drained' = 1
  BY DEF TaskEvent, LifecycleInv, ServedInTurn, FlagTypes
<1>2. ServedInTurn'
  BY <1>1 DEF ServedInTurn, DataTurn
<1>3. CASE \E d \in Direction, a \in Alts \cup {0} : SetInterface(d, a)
  <2>1. PICK d \in Direction, a \in Alts \cup {0} : SetInterface(d, a)
    BY <1>3
  <2>2. FlagTypes'
    <3>1. /\ alt' \in [Direction -> {0, 1, 2}] /\ streaming' \in [Direction -> BOOLEAN]
      BY <2>1, LifecycleAssumption DEF SetInterface, LifecycleInv, FlagTypes, LifecycleConstants
    <3>2. owed' \subseteq Direction
      BY <2>1 DEF SetInterface, LifecycleInv, FlagTypes
    <3> QED
      BY <1>1, <2>1, <3>1, <3>2 DEF SetInterface, LifecycleInv, FlagTypes
  <2>3. SleepsReconciled' /\ StoppedIffAsleep'
    BY <2>1 DEF SetInterface, LifecycleInv, SleepsReconciled, StoppedIffAsleep
  <2> QED
    BY <1>2, <2>2, <2>3 DEF LifecycleInv
<1>4. CASE SetRate
  BY <1>1, <1>2, <1>4 DEF SetRate, loopVars, LifecycleInv, FlagTypes, SleepsReconciled, StoppedIffAsleep
<1>5. CASE Suspend
  <2>1. inputRing' = Emptied("Stopped") /\ outputRing' = inputRing'
    BY <1>5 DEF Suspend, Restarted, Direction
  <2>2. IsRing(inputRing') /\ IsRing(outputRing') /\ StoppedIffAsleep'
    BY <1>5, <2>1, EmptiedIsRing DEF Suspend, StoppedIffAsleep
  <2>3. FlagTypes'
    BY <1>1, <1>5, <2>2 DEF Suspend, LifecycleInv, FlagTypes
  <2>4. SleepsReconciled'
    BY <1>1, <1>5 DEF Suspend, SleepsReconciled, Reconciled
  <2> QED
    BY <1>2, <2>2, <2>3, <2>4 DEF LifecycleInv
<1>6. CASE Resume
  <2>1. inputRing' = Emptied("Priming") /\ outputRing' = inputRing'
    BY <1>6 DEF Resume, Restarted, Direction
  <2>2. IsRing(inputRing') /\ IsRing(outputRing') /\ StoppedIffAsleep'
    BY <1>6, <2>1, EmptiedIsRing DEF Resume, StoppedIffAsleep
  <2>3. FlagTypes'
    <3>1. asleep' \in BOOLEAN /\ alt' \in [Direction -> {0, 1, 2}]
      BY <1>6 DEF Resume, LifecycleInv, FlagTypes
    <3> QED
      BY <1>1, <1>6, <2>2, <3>1 DEF Resume, LifecycleInv, FlagTypes
  <2>4. SleepsReconciled'
    BY <1>1, <1>6 DEF Resume, SleepsReconciled, Reconciled
  <2> QED
    BY <1>2, <2>2, <2>3, <2>4 DEF LifecycleInv
<1>7. CASE BusReset
  <2>1. inputRing' = Emptied("Priming") /\ outputRing' = inputRing'
    BY <1>7 DEF BusReset, Restarted, Direction
  <2>2. IsRing(inputRing') /\ IsRing(outputRing') /\ StoppedIffAsleep'
    BY <1>7, <2>1, EmptiedIsRing DEF BusReset, StoppedIffAsleep
  <2>3. FlagTypes'
    <3>1. asleep' \in BOOLEAN /\ alt' \in [Direction -> {0, 1, 2}]
      BY <1>7 DEF BusReset, LifecycleInv, FlagTypes
    <3> QED
      BY <1>1, <1>7, <2>2, <3>1 DEF BusReset, LifecycleInv, FlagTypes
  <2>4. SleepsReconciled'
    BY <1>1, <1>7 DEF BusReset, SleepsReconciled, Reconciled
  <2> QED
    BY <1>2, <2>2, <2>3, <2>4 DEF LifecycleInv
<1> QED
  BY <1>3, <1>4, <1>5, <1>6, <1>7 DEF TaskEvent

\* A control service restarts nothing while the bus sleeps.
LEMMA ReprimingKeepsRings ==
  ASSUME LifecycleInv, NEW dirs \in SUBSET Direction, Repriming(dirs), asleep => dirs = {}
  PROVE  /\ IsRing(inputRing)' /\ IsRing(outputRing)' /\ StoppedIffAsleep'
         /\ owed' \subseteq owed
<1>1. inputRing' = inputRing \/ (~asleep /\ inputRing' = Emptied("Priming"))
  BY DEF Repriming, Restarted
<1>2. outputRing' = outputRing \/ (~asleep /\ outputRing' = Emptied("Priming"))
  BY DEF Repriming, Restarted
<1>3. asleep' = asleep /\ owed' \subseteq owed
  BY DEF Repriming
<1> QED
  BY <1>1, <1>2, <1>3, EmptiedIsRing DEF LifecycleInv, FlagTypes, StoppedIffAsleep

LEMMA ControlKeepsLifecycleInv ==
  ASSUME LifecycleInv, ServiceUsbLifecycle \/ ServiceRateChange \/ ServiceFormatChange
  PROVE  LifecycleInv'
<1>1. CASE ServiceUsbLifecycle
  <2> DEFINE dirs == {d \in Direction : streaming[d] /\ ~previously[d]}
  <2>1. Repriming(dirs) /\ (asleep => dirs = {})
    BY <1>1 DEF ServiceUsbLifecycle, LifecycleInv, SleepsReconciled, Reconciled
  <2>2. IsRing(inputRing)' /\ IsRing(outputRing)' /\ StoppedIffAsleep' /\ owed' \subseteq owed
    BY <2>1, ReprimingKeepsRings
  <2> QED
    BY <1>1, <2>2 DEF ServiceUsbLifecycle, Repriming, Step, LifecycleInv, FlagTypes, ServedInTurn,
       SleepsReconciled, Reconciled, DataTurn
<1>2. CASE ServiceRateChange
  <2> DEFINE dirs == IF rateLatch THEN Direction ELSE {}
  <2>1. Repriming(dirs) /\ (asleep => dirs = {})
    BY <1>2 DEF ServiceRateChange, LifecycleInv, SleepsReconciled, Reconciled
  <2>2. IsRing(inputRing)' /\ IsRing(outputRing)' /\ StoppedIffAsleep' /\ owed' \subseteq owed
    BY <2>1, ReprimingKeepsRings
  <2> QED
    BY <1>2, <2>2 DEF ServiceRateChange, Repriming, Step, LifecycleInv, FlagTypes, ServedInTurn,
       SleepsReconciled, Reconciled, DataTurn
<1>3. CASE ServiceFormatChange
  <2> DEFINE dirs == IF formatLatch THEN Direction ELSE {}
  <2>1. Repriming(dirs) /\ (asleep => dirs = {})
    BY <1>3 DEF ServiceFormatChange, LifecycleInv, SleepsReconciled, Reconciled
  <2>2. IsRing(inputRing)' /\ IsRing(outputRing)' /\ StoppedIffAsleep' /\ owed' \subseteq owed
    BY <2>1, ReprimingKeepsRings
  <2> QED
    BY <1>3, <2>2 DEF ServiceFormatChange, Repriming, Step, LifecycleInv, FlagTypes, ServedInTurn,
       SleepsReconciled, Reconciled, DataTurn
<1> QED
  BY <1>1, <1>2, <1>3

LEMMA DataKeepsLifecycleInv ==
  ASSUME LifecycleInv, DataOut \/ DataDsp \/ DataIn
  PROVE  LifecycleInv'
<1>1. CaptureOnly \in BOOLEAN
  BY DEF CaptureOnly
<1>2. ServiceOut(format) \/ ServiceDsp \/ ServiceIn(CaptureOnly, format)
  BY DEF DataOut, DataDsp, DataIn
<1>3. /\ IsRing(inputRing') /\ IsRing(outputRing')
      /\ inputRing'.state = "Stopped" <=> inputRing.state = "Stopped"
      /\ outputRing'.state = "Stopped" <=> outputRing.state = "Stopped"
  BY <1>1, <1>2, DataKeepsRings DEF LifecycleInv, FlagTypes
<1>4. UNCHANGED busVars /\ UNCHANGED drained /\ DataTurn /\ turn' \in {"DSP", "IN", "task"}
  BY DEF DataOut, DataDsp, DataIn, Step, DataTurn
<1> QED
  BY <1>3, <1>4 DEF busVars, LifecycleInv, FlagTypes, ServedInTurn, SleepsReconciled, Reconciled,
     StoppedIffAsleep, DataTurn

LEMMA StepKeepsLifecycleInv ==
  ASSUME MaxEvents = 1, LifecycleInv, [Next]_vars
  PROVE  LifecycleInv'
<1>1. CASE TaskEvent
  BY <1>1, TaskKeepsLifecycleInv
<1>2. CASE TaskDone
  BY <1>2, LifecycleAssumption DEF TaskDone, loopVars, busVars, LifecycleConstants, LifecycleInv, FlagTypes, ServedInTurn,
     DataTurn, SleepsReconciled, Reconciled, StoppedIffAsleep
<1>3. CASE ServiceUsbLifecycle \/ ServiceRateChange \/ ServiceFormatChange
  BY <1>3, ControlKeepsLifecycleInv
<1>4. CASE DataOut \/ DataDsp \/ DataIn
  BY <1>4, DataKeepsLifecycleInv
<1>5. CASE \E n \in 1..MaxPacket : SendPayload(n) \/ TakePayload(n)
  BY <1>5 DEF SendPayload, TakePayload, busVars, LifecycleInv, FlagTypes, ServedInTurn,
     DataTurn, SleepsReconciled, Reconciled, StoppedIffAsleep
<1>6. CASE UNCHANGED vars
  BY <1>6 DEF vars, loopVars, busVars, LifecycleInv, FlagTypes, ServedInTurn,
     DataTurn, SleepsReconciled, Reconciled, StoppedIffAsleep
<1> QED
  BY <1>1, <1>2, <1>3, <1>4, <1>5, <1>6 DEF Next, Services

LEMMA LifecycleInvariant ==
  ASSUME MaxEvents = 1
  PROVE  Spec => []LifecycleInv
BY InitiallyLifecycleInv, StepKeepsLifecycleInv, PTL DEF Spec

\* FR-051 and FR-052, bus resets included: applySuspend stops both rings, no
\* control service wakes one before the bus does, and a wake-up leaves neither
\* stopped (usb-lifecycle-callbacks.cpp:58-80).
THEOREM RingsSleepWithTheBus ==
  ASSUME MaxEvents = 1
  PROVE  Spec => []StoppedIffAsleep
<1>1. LifecycleInv => StoppedIffAsleep
  BY DEF LifecycleInv
<1> QED
  BY <1>1, LifecycleInvariant, PTL

-----------------------------------------------------------------------------
(* A ring restarts before it is used                                       *)

\* A callback that makes a restart necessary leaves the reason where the
\* control services look for it.
LEMMA TaskKeepsPayable ==
  ASSUME MaxEvents = 1, ~BusResets, LifecycleInv, FlagsFollow, Payable, TaskEvent
  PROVE  Payable'
<1>1. drained = 0 /\ Reconciled /\ turn = "task" /\ turn' = "task" /\ drained' = 1 /\ owed = {}
  BY DEF TaskEvent, LifecycleInv, ServedInTurn, FlagTypes, Payable
<1>2. SUFFICES ASSUME NEW d \in owed' PROVE formatLatch' \/ rateLatch' \/ Edge(d)'
  BY <1>1 DEF Payable, RestartBeforeUse, DataTurn
<1>3. CASE \E e \in Direction, a \in Alts \cup {0} : SetInterface(e, a)
  <2>1. PICK e \in Direction, a \in Alts \cup {0} : SetInterface(e, a)
    BY <1>3
  <2>2. CASE formatLatch'
    BY <2>2
  <2>3. CASE ~formatLatch'
    <3>1. owed' \subseteq {e} /\ (owed' # {} => a # 0 /\ alt[e] = 0)
      BY <1>1, <2>1, <2>3 DEF SetInterface
    <3>2. streaming'[e] /\ ~previously'[e]
      BY <1>1, <2>1, <3>1 DEF SetInterface, Reconciled, FlagsFollow, LifecycleInv, FlagTypes
    <3> QED
      BY <3>1, <3>2 DEF Edge
  <2> QED
    BY <2>2, <2>3
<1>4. CASE SetRate
  BY <1>4 DEF SetRate
<1>5. CASE Suspend \/ Resume \/ BusReset
  BY <1>5 DEF Suspend, Resume, BusReset
<1> QED
  BY <1>3, <1>4, <1>5 DEF TaskEvent

\* A service pays what it restarts.
LEMMA RestartsPay ==
  ASSUME NEW dirs \in SUBSET Direction, Repriming(dirs), owed \subseteq Direction
  PROVE  owed' \subseteq owed \ dirs
BY DEF Repriming, Restarted, Restarts, Direction

LEMMA ControlKeepsPayable ==
  ASSUME LifecycleInv, Payable, ServiceUsbLifecycle \/ ServiceRateChange \/ ServiceFormatChange
  PROVE  Payable'
<1>1. owed \subseteq Direction
  BY DEF LifecycleInv, FlagTypes
<1>2. CASE ServiceUsbLifecycle
  <2>1. owed' \subseteq owed \ {d \in Direction : streaming[d] /\ ~previously[d]}
    BY <1>1, <1>2, RestartsPay DEF ServiceUsbLifecycle
  <2> QED
    BY <1>1, <1>2, <2>1 DEF ServiceUsbLifecycle, Step, Payable, Edge, RestartBeforeUse, DataTurn
<1>3. CASE ServiceRateChange
  <2>1. owed' \subseteq owed \ (IF rateLatch THEN Direction ELSE {})
    BY <1>1, <1>3, RestartsPay DEF ServiceRateChange
  <2> QED
    BY <1>1, <1>3, <2>1 DEF ServiceRateChange, Step, Payable, RestartBeforeUse, DataTurn
<1>4. CASE ServiceFormatChange
  <2>1. owed' \subseteq owed \ (IF formatLatch THEN Direction ELSE {})
    BY <1>1, <1>4, RestartsPay DEF ServiceFormatChange
  <2> QED
    BY <1>1, <1>4, <2>1 DEF ServiceFormatChange, Step, Payable, RestartBeforeUse, DataTurn
<1> QED
  BY <1>2, <1>3, <1>4

LEMMA StepKeepsPayable ==
  ASSUME MaxEvents = 1, ~BusResets, LifecycleInv, FlagsFollow, Payable, [Next]_vars
  PROVE  Payable'
<1>1. CASE TaskEvent
  BY <1>1, TaskKeepsPayable
<1>2. CASE TaskDone
  BY <1>2 DEF TaskDone, busVars, Payable, Edge, RestartBeforeUse, DataTurn
<1>3. CASE ServiceUsbLifecycle \/ ServiceRateChange \/ ServiceFormatChange
  BY <1>3, ControlKeepsPayable
<1>4. CASE DataOut \/ DataDsp \/ DataIn
  BY <1>4 DEF DataOut, DataDsp, DataIn, Step, busVars, Payable, Edge, RestartBeforeUse, DataTurn
<1>5. CASE \E n \in 1..MaxPacket : SendPayload(n) \/ TakePayload(n)
  BY <1>5 DEF SendPayload, TakePayload, busVars, Payable, Edge, RestartBeforeUse, DataTurn
<1>6. CASE UNCHANGED vars
  BY <1>6 DEF vars, busVars, Payable, Edge, RestartBeforeUse, DataTurn
<1> QED
  BY <1>1, <1>2, <1>3, <1>4, <1>5, <1>6 DEF Next, Services

\* Without a bus reset the flags of the callbacks are the alternate settings the
\* stack is in, however many events a pass drains.
LEMMA FlagsFollowAlways ==
  ASSUME ~BusResets
  PROVE  Spec => [](FlagsFollow /\ streaming \in [Direction -> BOOLEAN] /\ alt \in [Direction -> {0, 1, 2}])
<1> DEFINE FlagInv == /\ FlagsFollow
                      /\ streaming \in [Direction -> BOOLEAN] /\ alt \in [Direction -> {0, 1, 2}]
<1>1. Init => FlagInv
  BY DEF Init, FlagsFollow
<1>2. FlagInv /\ [Next]_vars => FlagInv'
  <2> SUFFICES ASSUME FlagInv, [Next]_vars PROVE FlagInv'
    OBVIOUS
  <2>1. ASSUME NEW d \in Direction, NEW a \in Alts \cup {0}, SetInterface(d, a)
        PROVE  FlagInv'
    BY <2>1, LifecycleAssumption DEF SetInterface, FlagsFollow, LifecycleConstants
  <2>2. CASE SetRate \/ Suspend \/ Resume
    BY <2>2 DEF SetRate, Suspend, Resume, FlagsFollow
  <2>3. ~BusReset
    BY DEF BusReset
  <2>4. CASE Services
    BY <2>4 DEF Services, TaskDone, ServiceUsbLifecycle, ServiceRateChange, ServiceFormatChange, Repriming,
       DataOut, DataDsp, DataIn, busVars, FlagsFollow
  <2>5. CASE \E n \in 1..MaxPacket : SendPayload(n) \/ TakePayload(n)
    BY <2>5 DEF SendPayload, TakePayload, busVars, FlagsFollow
  <2>6. CASE UNCHANGED vars
    BY <2>6 DEF vars, busVars, FlagsFollow
  <2> QED
    BY <2>1, <2>2, <2>3, <2>4, <2>5, <2>6 DEF Next, TaskEvent
<1> QED
  BY <1>1, <1>2, PTL DEF Spec

\* AR9, FR-006, FR-050 to FR-055: when a data service looks at a ring, what made
\* its content stale has restarted it (usb-lifecycle-service.h:50-90,
\* rate-change-service.h:45-60, format-change-service.h:50-70).
THEOREM RingsRestartInTime ==
  ASSUME MaxEvents = 1, ~BusResets
  PROVE  Spec => []RingsRestart
<1>1. Init => Payable
  BY DEF Init, Payable, RestartBeforeUse, DataTurn
<1>2. LifecycleInv /\ FlagsFollow /\ Payable /\ [Next]_vars => Payable'
  BY StepKeepsPayable
<1>3. LifecycleInv /\ Payable => RingsRestart
  BY DEF LifecycleInv, Payable, RingsRestart
<1> QED
  BY <1>1, <1>2, <1>3, LifecycleInvariant, FlagsFollowAlways, PTL DEF Spec

-----------------------------------------------------------------------------
(* Silence is blamed on its cause                                          *)

\* A service other than IN leaves the two counters of silence alone.
LEMMA OnlyInCountsSilence ==
  ASSUME NEW f, ServiceOut(f) \/ ServiceDsp
  PROVE  /\ stats'["inputStarved"] = stats["inputStarved"]
         /\ stats'["outputUnderruns"] = stats["outputUnderruns"]
BY DEF ServiceOut, ServiceDsp, RunBlock, SkipBlock, loopVars, Counted, Counters, Event

\* FR-029a: a host that listens is told "starved" exactly when it has no playback
\* stream open and "underrun" exactly when it has, never both
\* (usb-in-path.h:268-330).
THEOREM SilenceHasItsCause ==
  ASSUME ~BusResets
  PROVE  Spec => SilenceIsAttributed
<1>1. FlagsFollow /\ streaming \in [Direction -> BOOLEAN] /\ [Next]_vars => [AttributesSilence]_vars
  <2> SUFFICES ASSUME FlagsFollow, streaming \in [Direction -> BOOLEAN], Next, alt["IN"] # 0
               PROVE  /\ stats'["inputStarved"] # stats["inputStarved"] => alt["OUT"] = 0
                      /\ stats'["outputUnderruns"] # stats["outputUnderruns"] => alt["OUT"] # 0
    BY DEF AttributesSilence
  <2>1. CaptureOnly <=> alt["OUT"] = 0
    BY DEF CaptureOnly, FlagsFollow, Direction
  <2>2. CASE DataIn
    <3>1. CASE SupplySilence(format) /\ CaptureOnly
      BY <2>1, <3>1 DEF SupplySilence, Counted, Counters, Event
    <3>2. CASE PullFrames(format) /\ ~CaptureOnly
      BY <2>1, <3>2 DEF PullFrames, Counted, Counters, Event
    <3>3. CASE FlushCarryover \/ AwaitRunning \/ AwaitRoom(format)
      BY <3>3 DEF FlushCarryover, AwaitRunning, AwaitRoom, loopVars
    <3> QED
      BY <2>2, <3>1, <3>2, <3>3 DEF DataIn, ServiceIn
  <2>3. CASE DataOut \/ DataDsp
    BY <2>3, OnlyInCountsSilence DEF DataOut, DataDsp
  <2>4. CASE \/ TaskEvent \/ TaskDone
             \/ ServiceUsbLifecycle \/ ServiceRateChange \/ ServiceFormatChange
             \/ \E n \in 1..MaxPacket : SendPayload(n) \/ TakePayload(n)
    BY <2>4 DEF TaskEvent, SetInterface, SetRate, Suspend, Resume, BusReset, TaskDone, ServiceUsbLifecycle,
       ServiceRateChange, ServiceFormatChange, Repriming, SendPayload, TakePayload, loopVars, restOfLoop
  <2> QED
    BY <2>2, <2>3, <2>4 DEF Next, Services
<1> QED
  BY <1>1, FlagsFollowAlways, PTL DEF Spec, SilenceIsAttributed

-----------------------------------------------------------------------------
(* Frames and their bytes                                                  *)

\* What a host that respects the formats can put into a ring.
Sound == {Pcm, Silence}
Byte == [frame : Sound, k : Nat, of : Nat]

LEMMA Sizes ==
  /\ \A f \in Format : BytesPerFrame(f) \in {2, 3}
  /\ Capacity \in Nat \ {0} /\ Block \in Nat \ {0} /\ MaxPacket \in Nat \ {0}
  /\ FifoDepth \in Nat \ {0}
BY LifecycleAssumption, CapacityAssumption DEF LifecycleConstants, LoopConstants, BytesPerFrame

LEMMA Behind ==
  ASSUME NEW S, NEW s \in Seq(S), NEW t \in Seq(S)
  PROVE  /\ s \o t \in Seq(S) /\ Len(s \o t) = Len(s) + Len(t) /\ Len(s) \in Nat /\ Len(t) \in Nat
         /\ \A j \in 1..Len(s) : (s \o t)[j] = s[j]
         /\ \A j \in 1..Len(t) : (s \o t)[Len(s) + j] = t[j]
OBVIOUS

LEMMA Slice ==
  ASSUME NEW S, NEW s \in Seq(S), NEW h \in Nat, NEW n \in Nat, h + n <= Len(s)
  PROVE  /\ DOMAIN SubSeq(s, h + 1, h + n) = 1..n /\ Len(SubSeq(s, h + 1, h + n)) = n
         /\ \A k \in 1..n : SubSeq(s, h + 1, h + n)[k] = s[h + k]
OBVIOUS

\* Byte k of frame i.
LEMMA Places ==
  ASSUME NEW n \in {2, 3}
  PROVE  /\ \A i \in Nat, k \in 1..n : /\ i * n + k \in Nat \ {0} /\ i * n \in Nat
                                       /\ (i * n + k - 1) % n = k - 1 /\ (i * n + k - 1) \div n = i
         /\ \A j \in Nat \ {0} : \E i \in Nat, k \in 1..n : j = i * n + k
         /\ \A m, i \in Nat, k \in 1..n : i < m <=> i * n + k <= m * n
         /\ \A m, i \in Nat : /\ m * n + i * n = (m + i) * n
                              /\ m <= i => m * n <= i * n
                              /\ i < m => i * n < m * n
         /\ \A m \in Nat : (m * n) \div n = m
<1>1. CASE n = 2
  <2>1. \A i \in Nat, k \in 1..2 : (i * 2 + k - 1) % 2 = k - 1 /\ (i * 2 + k - 1) \div 2 = i
    BY Z3
  <2>2. \A j \in Nat \ {0} : /\ (j - 1) \div 2 \in Nat /\ ((j - 1) % 2) + 1 \in 1..2
                             /\ j = ((j - 1) \div 2) * 2 + (((j - 1) % 2) + 1)
    BY Z3
  <2>3. \A m \in Nat : (m * 2) \div 2 = m
    BY Z3
  <2>4. \A j \in Nat \ {0} : \E i \in Nat, k \in 1..2 : j = i * 2 + k
    BY <2>2
  <2> QED
    BY <1>1, <2>1, <2>3, <2>4
<1>2. CASE n = 3
  <2>1. \A i \in Nat, k \in 1..3 : (i * 3 + k - 1) % 3 = k - 1 /\ (i * 3 + k - 1) \div 3 = i
    BY Z3
  <2>2. \A j \in Nat \ {0} : /\ (j - 1) \div 3 \in Nat /\ ((j - 1) % 3) + 1 \in 1..3
                             /\ j = ((j - 1) \div 3) * 3 + (((j - 1) % 3) + 1)
    BY Z3
  <2>3. \A m \in Nat : (m * 3) \div 3 = m
    BY Z3
  <2>4. \A j \in Nat \ {0} : \E i \in Nat, k \in 1..3 : j = i * 3 + k
    BY <2>2
  <2> QED
    BY <1>2, <2>1, <2>3, <2>4
<1> QED
  BY <1>1, <1>2

\* Every byte of the frames, at its place.
LEMMA EncodedBytes ==
  ASSUME NEW f \in Format, NEW fs \in Seq(Sound)
  PROVE  LET n == BytesPerFrame(f)
             b == Encode(fs, f)
         IN /\ b \in Seq(Byte) /\ Len(b) = Len(fs) * n
            /\ \A i \in Nat, k \in 1..n : i < Len(fs) => b[i * n + k] = WireByte(fs[i + 1], k, n)
<1> DEFINE n == BytesPerFrame(f)
           b == Encode(fs, f)
<1>1. n \in {2, 3} /\ Len(fs) \in Nat
  BY Sizes
<1>2. b = [j \in 1..Len(fs) * n |-> WireByte(fs[((j - 1) \div n) + 1], ((j - 1) % n) + 1, n)]
  BY DEF Encode
<1> HIDE DEF n, b
<1>3. ASSUME NEW i \in Nat, NEW k \in 1..n, i < Len(fs)
      PROVE  i * n + k \in 1..Len(fs) * n /\ b[i * n + k] = WireByte(fs[i + 1], k, n)
  <2> DEFINE j == i * n + k
  <2>1. j \in Nat \ {0} /\ j <= Len(fs) * n /\ Len(fs) * n \in Nat
        /\ (j - 1) % n = k - 1 /\ (j - 1) \div n = i
    BY <1>1, <1>3, Places
  <2>2. (k - 1) + 1 = k
    BY <1>1
  <2> HIDE DEF j
  <2>3. j \in 1..Len(fs) * n
    BY <2>1
  <2>4. b[j] = WireByte(fs[i + 1], k, n)
    BY <1>2, <2>1, <2>2, <2>3
  <2> QED
    BY <2>3, <2>4 DEF j
<1>4. ASSUME NEW j \in 1..Len(fs) * n PROVE b[j] \in Byte
  <2>1. j \in Nat \ {0} /\ Len(fs) * n \in Nat
    BY <1>1, Places
  <2>2. PICK i \in Nat, k \in 1..n : j = i * n + k
    BY <1>1, <2>1, Places
  <2>3. i < Len(fs)
    BY <1>1, <2>2, Places
  <2>4. b[j] = WireByte(fs[i + 1], k, n) /\ fs[i + 1] \in Sound /\ k \in Nat /\ n \in Nat
    BY <1>1, <1>3, <2>2, <2>3
  <2> QED
    BY <2>4 DEF WireByte, Byte
<1>5. Len(fs) * n \in Nat
  BY <1>1, Places
<1>6. b \in Seq(Byte) /\ Len(b) = Len(fs) * n
  BY <1>2, <1>4, <1>5
<1> QED
  BY <1>3, <1>6 DEF n, b

\* Nothing else has these bytes.
LEMMA Recognised ==
  ASSUME NEW f \in Format, NEW fs \in Seq(Sound), NEW c \in Seq(Byte),
         Len(c) = Len(fs) * BytesPerFrame(f),
         \A i \in Nat, k \in 1..BytesPerFrame(f) :
           i < Len(fs) => c[i * BytesPerFrame(f) + k] = WireByte(fs[i + 1], k, BytesPerFrame(f))
  PROVE  c = Encode(fs, f)
<1> DEFINE n == BytesPerFrame(f)
           b == Encode(fs, f)
<1>1. n \in {2, 3} /\ Len(fs) \in Nat
  BY Sizes
<1>2. b \in Seq(Byte) /\ Len(b) = Len(fs) * n
      /\ \A i \in Nat, k \in 1..n : i < Len(fs) => b[i * n + k] = WireByte(fs[i + 1], k, n)
  BY EncodedBytes
<1>3. Len(c) = Len(fs) * n
      /\ \A i \in Nat, k \in 1..n : i < Len(fs) => c[i * n + k] = WireByte(fs[i + 1], k, n)
  OBVIOUS
<1> HIDE DEF n, b
<1>4. ASSUME NEW j \in 1..Len(c) PROVE c[j] = b[j]
  <2>1. j \in Nat \ {0}
    OBVIOUS
  <2>2. PICK i \in Nat, k \in 1..n : j = i * n + k
    BY <1>1, <2>1, Places
  <2>3. i < Len(fs)
    BY <1>1, <1>3, <2>2, Places
  <2> QED
    BY <1>2, <1>3, <2>2, <2>3
<1>5. c = b
  BY <1>2, <1>3, <1>4, SeqEqual
<1> QED
  BY <1>5 DEF b

\* The converters are inverses.
LEMMA DecodeEncode ==
  ASSUME NEW f \in Format, NEW fs \in Seq(Sound)
  PROVE  Decode(Encode(fs, f), f) = fs
<1> DEFINE n == BytesPerFrame(f)
           b == Encode(fs, f)
<1>1. n \in {2, 3} /\ Len(fs) \in Nat
  BY Sizes
<1>2. b \in Seq(Byte) /\ Len(b) = Len(fs) * n
      /\ \A i \in Nat, k \in 1..n : i < Len(fs) => b[i * n + k] = WireByte(fs[i + 1], k, n)
  BY EncodedBytes
<1>3. Decode(b, f) = [i \in 1..Len(b) \div n |-> FrameOf(SubSeq(b, (i - 1) * n + 1, i * n))]
  BY DEF Decode
<1> HIDE DEF n, b
<1>4. Len(b) \div n = Len(fs)
  BY <1>1, <1>2, Places
<1>5. ASSUME NEW i \in 1..Len(fs)
      PROVE  FrameOf(SubSeq(b, (i - 1) * n + 1, i * n)) = fs[i]
  <2> DEFINE h == (i - 1) * n
             sub == SubSeq(b, h + 1, h + n)
  <2>1. i - 1 \in Nat /\ i - 1 < Len(fs) /\ (i - 1) + 1 = i /\ h \in Nat /\ i * n = h + n /\ h + n <= Len(b)
    <3>1. CASE n = 2
      BY <1>1, <1>2, <3>1
    <3>2. CASE n = 3
      BY <1>1, <1>2, <3>2
    <3> QED
      BY <1>1, <3>1, <3>2
  <2>2. \A k \in 1..n : b[h + k] = WireByte(fs[(i - 1) + 1], k, n)
    BY <1>2, <2>1
  <2> HIDE DEF h
  <2>3. DOMAIN sub = 1..n /\ Len(sub) = n /\ \A k \in 1..n : sub[k] = b[h + k]
    <3>1. n \in Nat /\ h \in Nat /\ h + n <= Len(b) /\ b \in Seq(Byte)
      BY <1>1, <1>2, <2>1
    <3> QED
      BY <3>1, Slice
  <2> HIDE DEF sub
  <2>4. \A k \in 1..n : sub[k] = WireByte(fs[i], k, n)
    BY <2>1, <2>2, <2>3
  <2>5. sub[1].frame = fs[i]
    <3>1. 1 \in 1..n
      BY <1>1
    <3>2. sub[1] = WireByte(fs[i], 1, n)
      BY <2>4, <3>1
    <3> QED
      BY <3>2 DEF WireByte
  <2>6. FrameOf(sub) = fs[i]
    BY <2>3, <2>4, <2>5 DEF FrameOf
  <2> QED
    BY <2>1, <2>6 DEF sub, h
<1>6. Decode(b, f) = [i \in 1..Len(fs) |-> fs[i]]
  BY <1>3, <1>4, <1>5
<1> QED
  BY <1>6 DEF b

\* Frames behind frames are bytes behind bytes.
LEMMA EncodeJoin ==
  ASSUME NEW f \in Format, NEW s \in Seq(Sound), NEW t \in Seq(Sound)
  PROVE  Encode(s, f) \o Encode(t, f) = Encode(s \o t, f)
<1> DEFINE n == BytesPerFrame(f)
           a == Encode(s, f)
           b == Encode(t, f)
           c == a \o b
           st == s \o t
<1>1. n \in {2, 3} /\ Len(s) \in Nat /\ Len(t) \in Nat
  BY Sizes
<1>2. a \in Seq(Byte) /\ Len(a) = Len(s) * n
      /\ \A i \in Nat, k \in 1..n : i < Len(s) => a[i * n + k] = WireByte(s[i + 1], k, n)
  BY EncodedBytes
<1>3. b \in Seq(Byte) /\ Len(b) = Len(t) * n
      /\ \A i \in Nat, k \in 1..n : i < Len(t) => b[i * n + k] = WireByte(t[i + 1], k, n)
  BY EncodedBytes
<1>4. st \in Seq(Sound) /\ Len(st) = Len(s) + Len(t)
      /\ (\A i \in 1..Len(s) : st[i] = s[i]) /\ (\A i \in 1..Len(t) : st[Len(s) + i] = t[i])
  OBVIOUS
<1> HIDE DEF a, b, n, st
<1>5. c \in Seq(Byte) /\ Len(c) = Len(a) + Len(b) /\ Len(a) \in Nat /\ Len(b) \in Nat
      /\ (\A j \in 1..Len(a) : c[j] = a[j]) /\ (\A j \in 1..Len(b) : c[Len(a) + j] = b[j])
  <2>1. a \in Seq(Byte) /\ b \in Seq(Byte)
    BY <1>2, <1>3
  <2> QED
    BY <2>1, Behind
<1> HIDE DEF c
<1>6. Len(c) = Len(st) * n
  BY <1>1, <1>2, <1>3, <1>4, <1>5, Places
<1>7. ASSUME NEW i \in Nat, NEW k \in 1..n, i < Len(st)
      PROVE  c[i * n + k] = WireByte(st[i + 1], k, n)
  <2>1. CASE i < Len(s)
    <3>1. i * n + k \in Nat \ {0} /\ i * n + k <= Len(a)
      BY <1>1, <1>2, <2>1, Places
    <3>2. i * n + k \in 1..Len(a) /\ i + 1 \in 1..Len(s)
      BY <1>1, <1>5, <2>1, <3>1
    <3> QED
      BY <1>2, <1>4, <1>5, <2>1, <3>2
  <2>2. CASE i >= Len(s)
    <3> DEFINE q == i - Len(s)
    <3>1. q \in Nat /\ q < Len(t) /\ i = Len(s) + q
      BY <1>1, <1>4, <1>7, <2>2
    <3>2. q + 1 \in 1..Len(t) /\ Len(s) + (q + 1) = i + 1
      BY <1>1, <3>1
    <3> HIDE DEF q
    <3> DEFINE h == q * n
    <3>3. h \in Nat /\ i * n = Len(a) + h
      BY <1>1, <1>2, <3>1, Places
    <3>4. h + k \in Nat \ {0} /\ h + k <= Len(b)
      BY <1>1, <1>3, <3>1, Places
    <3>5. b[h + k] = WireByte(t[q + 1], k, n)
      BY <1>3, <3>1
    <3> HIDE DEF h
    <3>6. k \in Nat
      BY <1>1
    <3>7. h + k \in 1..Len(b) /\ i * n + k = Len(a) + (h + k)
      BY <1>5, <3>3, <3>4, <3>6
    <3>8. c[Len(a) + (h + k)] = b[h + k]
      BY <1>5, <3>7
    <3>9. st[i + 1] = t[q + 1]
      BY <1>4, <3>2
    <3> QED
      BY <3>5, <3>7, <3>8, <3>9
  <2> QED
    BY <1>1, <2>1, <2>2
<1>8. c = Encode(st, f)
  BY <1>4, <1>5, <1>6, <1>7, Recognised DEF n
<1> QED
  BY <1>8 DEF a, b, c, st

\* What a request of m frames takes and what it leaves.
LEMMA Parted ==
  ASSUME NEW S, NEW s \in Seq(S), NEW n \in Int
  PROVE  /\ Oldest(s, n) \in Seq(S) /\ Rest(s, n) \in Seq(S)
         /\ Oldest(s, n) \o Rest(s, n) = s
         /\ Len(Oldest(s, n)) = Lesser(Positive(n), Len(s))
<1> DEFINE m == Lesser(Positive(n), Len(s))
<1>1. m \in 0..Len(s)
  BY DEF Lesser, Positive
<1>2. Oldest(s, n) = SubSeq(s, 1, m) /\ Rest(s, n) = SubSeq(s, m + 1, Len(s))
  BY DEF Oldest, Rest
<1> HIDE DEF m
<1>3. /\ SubSeq(s, 1, m) \in Seq(S) /\ Len(SubSeq(s, 1, m)) = m
      /\ SubSeq(s, m + 1, Len(s)) \in Seq(S)
  BY <1>1
<1>4. SubSeq(s, 1, m) \o SubSeq(s, m + 1, Len(s)) = SubSeq(s, 1, Len(s))
  <2>1. 1 \in 1..Len(s) + 1 /\ m \in 1 - 1..Len(s) /\ Len(s) \in m..Len(s)
    BY <1>1
  <2> QED
    BY <2>1, ConcatAdjacentSubSeq
<1>5. SubSeq(s, 1, Len(s)) = s
  OBVIOUS
<1> QED
  BY <1>2, <1>3, <1>4, <1>5 DEF m

LEMMA PartsOfJoin ==
  ASSUME NEW S, NEW s \in Seq(S), NEW t \in Seq(S)
  PROVE  /\ SubSeq(s \o t, 1, Len(s)) = s
         /\ SubSeq(s \o t, Len(s) + 1, Len(s \o t)) = t
<1> DEFINE c == s \o t
           x == SubSeq(c, 1, Len(s))
           y == SubSeq(c, Len(s) + 1, Len(c))
<1>1. c \in Seq(S) /\ Len(c) = Len(s) + Len(t) /\ Len(s) \in Nat /\ Len(t) \in Nat
      /\ (\A j \in 1..Len(s) : c[j] = s[j]) /\ (\A j \in 1..Len(t) : c[Len(s) + j] = t[j])
  BY Behind
<1> HIDE DEF c
<1>2. x \in Seq(S) /\ Len(x) = Len(s) /\ \A j \in 1..Len(s) : x[j] = s[j]
  BY <1>1
<1>3. y \in Seq(S) /\ Len(y) = Len(t) /\ \A j \in 1..Len(t) : y[j] = t[j]
  BY <1>1
<1> HIDE DEF x, y
<1>4. x = s
  BY <1>2, SeqEqual
<1>5. y = t
  BY <1>3, SeqEqual
<1> QED
  BY <1>4, <1>5 DEF c, x, y

\* The bytes of m frames are those of the m oldest.
LEMMA EncodeCut ==
  ASSUME NEW f \in Format, NEW fs \in Seq(Sound), NEW m \in Nat
  PROVE  /\ Oldest(Encode(fs, f), m * BytesPerFrame(f)) = Encode(Oldest(fs, m), f)
         /\ Rest(Encode(fs, f), m * BytesPerFrame(f)) = Encode(Rest(fs, m), f)
<1> DEFINE n == BytesPerFrame(f)
           old == Oldest(fs, m)
           new == Rest(fs, m)
           a == Encode(old, f)
           b == Encode(new, f)
           c == Encode(fs, f)
<1>1. n \in {2, 3} /\ Len(fs) \in Nat
  BY Sizes
<1>2. old \in Seq(Sound) /\ new \in Seq(Sound) /\ old \o new = fs /\ Len(old) = Lesser(m, Len(fs))
  <2>1. Positive(m) = m /\ m \in Int
    BY DEF Positive
  <2> HIDE DEF old, new
  <2> QED
    BY <2>1, Parted DEF old, new
<1> HIDE DEF old, new
<1>3. a \in Seq(Byte) /\ Len(a) = Len(old) * n /\ b \in Seq(Byte)
  BY <1>2, EncodedBytes
<1>4. a \o b = c
  <2>1. Encode(old, f) \o Encode(new, f) = Encode(old \o new, f)
    BY <1>2, EncodeJoin
  <2> QED
    BY <1>2, <2>1
<1>5. Len(c) = Len(fs) * n
  BY EncodedBytes
<1> HIDE DEF n, a, b, c
<1>6. Lesser(Positive(m * n), Len(c)) = Len(a)
  <2>1. m * n \in Nat /\ Len(fs) * n \in Nat /\ (m <= Len(fs) => m * n <= Len(fs) * n)
        /\ (Len(fs) <= m => Len(fs) * n <= m * n)
    BY <1>1, Places
  <2> DEFINE p == m * n
             q == Len(fs) * n
  <2>2. CASE m < Len(fs)
    <3>1. Len(old) = m
      BY <1>2, <2>2 DEF Lesser
    <3>2. Len(a) = p
      BY <1>3, <3>1
    <3>3. p \in Nat /\ q \in Nat /\ p <= q
      BY <1>1, <2>1, <2>2
    <3> HIDE DEF p, q
    <3>4. Lesser(Positive(p), q) = p
      BY <3>3 DEF Lesser, Positive
    <3> QED
      BY <1>5, <3>2, <3>4 DEF p, q
  <2>3. CASE ~(m < Len(fs))
    <3>1. Len(old) = Len(fs)
      BY <1>2, <2>3 DEF Lesser
    <3>2. Len(a) = q
      BY <1>3, <3>1
    <3>3. p \in Nat /\ q \in Nat /\ q <= p
      BY <1>1, <2>1, <2>3
    <3> HIDE DEF p, q
    <3>4. Lesser(Positive(p), q) = q
      BY <3>3 DEF Lesser, Positive
    <3> QED
      BY <1>5, <3>2, <3>4 DEF p, q
  <2> QED
    BY <2>2, <2>3
<1>7. SubSeq(c, 1, Len(a)) = a /\ SubSeq(c, Len(a) + 1, Len(c)) = b
  <2>1. SubSeq(a \o b, 1, Len(a)) = a /\ SubSeq(a \o b, Len(a) + 1, Len(a \o b)) = b
    BY <1>3, PartsOfJoin
  <2> QED
    BY <1>4, <2>1
<1>8. Oldest(c, m * n) = a /\ Rest(c, m * n) = b
  BY <1>6, <1>7 DEF Oldest, Rest
<1> QED
  BY <1>8 DEF n, a, b, c, old, new

LEMMA NothingEncoded ==
  ASSUME NEW f \in Format
  PROVE  <<>> \in Seq(Sound) /\ Encode(<<>>, f) = <<>>
<1>1. <<>> \in Seq(Sound) /\ Len(<<>>) = 0
  OBVIOUS
<1>2. Encode(<<>>, f) \in Seq(Byte) /\ Len(Encode(<<>>, f)) = 0 * BytesPerFrame(f)
  BY <1>1, EncodedBytes
<1>3. 0 * BytesPerFrame(f) = 0
  BY Sizes
<1> QED
  BY <1>1, <1>2, <1>3, EmptySeq

-----------------------------------------------------------------------------
(* Nothing is garbled                                                      *)

\* These bytes are whole frames in the one format on record.
Whole(bytes) ==
  LET frames == Decode(bytes, format)
  IN frames \in Seq(Sound) /\ bytes = Encode(frames, format)

SoundInv ==
  /\ format \in Format /\ alt \in [Direction -> {0, 1, 2}]
  /\ IsRing(inputRing) /\ inputRing.held \in Seq(Sound)
  /\ IsRing(outputRing) /\ outputRing.held \in Seq(Sound)
  /\ Whole(outFifo) /\ Whole(inFifo) /\ Len(inFifo) <= FifoDepth
  /\ pending = <<>>
  /\ \A d \in Direction : alt[d] # 0 => FormatOf(alt[d]) = format
  /\ alt["OUT"] = 0 => outFifo = <<>>

LEMMA WholeIsEncoded ==
  ASSUME format \in Format
  PROVE  /\ \A fs \in Seq(Sound) : Whole(Encode(fs, format))
         /\ \A bytes : Whole(bytes) => \E fs \in Seq(Sound) : bytes = Encode(fs, format)
         /\ Whole(<<>>)
<1>1. \A fs \in Seq(Sound) : Whole(Encode(fs, format))
  BY DecodeEncode DEF Whole
<1>2. Whole(<<>>)
  BY <1>1, NothingEncoded
<1> QED
  BY <1>1, <1>2 DEF Whole

\* What the FIFOs are to anyone who reads them.
LEMMA WholeFifo ==
  ASSUME format \in Format, NEW bytes, Whole(bytes), NEW m \in Nat
  PROVE  LET n == m * BytesPerFrame(format)
         IN /\ Whole(Oldest(bytes, n)) /\ Whole(Rest(bytes, n))
            /\ Decode(Oldest(bytes, n), format) \in Seq(Sound)
            /\ Len(bytes) \in Nat /\ Len(Rest(bytes, n)) <= Len(bytes)
<1> DEFINE n == m * BytesPerFrame(format)
<1>1. PICK fs \in Seq(Sound) : bytes = Encode(fs, format)
  BY WholeIsEncoded
<1>2. Oldest(bytes, n) = Encode(Oldest(fs, m), format) /\ Rest(bytes, n) = Encode(Rest(fs, m), format)
  BY <1>1, EncodeCut
<1>3. Oldest(fs, m) \in Seq(Sound) /\ Rest(fs, m) \in Seq(Sound)
  <2>1. m \in Int
    OBVIOUS
  <2> QED
    BY <2>1, Parted
<1>4. Whole(Oldest(bytes, n)) /\ Whole(Rest(bytes, n))
  BY <1>2, <1>3, WholeIsEncoded
<1>5. bytes \in Seq(Byte)
  BY <1>1, EncodedBytes
<1>6. Len(bytes) \in Nat /\ Len(Rest(bytes, n)) <= Len(bytes)
  <2>1. Lesser(Positive(n), Len(bytes)) \in 0..Len(bytes)
    <3>1. n \in Nat /\ Len(bytes) \in Nat
      BY <1>5, Sizes, Places
    <3> HIDE DEF n
    <3> QED
      BY <3>1 DEF Lesser, Positive
  <2> QED
    BY <1>5, <2>1 DEF Rest
<1> QED
  BY <1>4, <1>6 DEF Whole

LEMMA WholeJoin ==
  ASSUME format \in Format, NEW bytes, Whole(bytes), NEW fs \in Seq(Sound)
  PROVE  /\ Whole(bytes \o Encode(fs, format))
         /\ Len(bytes \o Encode(fs, format)) = Len(bytes) + Len(fs) * BytesPerFrame(format)
<1>1. PICK gs \in Seq(Sound) : bytes = Encode(gs, format)
  BY WholeIsEncoded
<1>2. bytes \o Encode(fs, format) = Encode(gs \o fs, format)
  BY <1>1, EncodeJoin
<1>3. gs \o fs \in Seq(Sound)
  OBVIOUS
<1>4. Whole(bytes \o Encode(fs, format))
  BY <1>2, <1>3, WholeIsEncoded
<1>5. bytes \in Seq(Byte) /\ Encode(fs, format) \in Seq(Byte)
      /\ Len(Encode(fs, format)) = Len(fs) * BytesPerFrame(format)
  BY <1>1, EncodedBytes
<1>6. Len(bytes \o Encode(fs, format)) = Len(bytes) + Len(Encode(fs, format))
  BY <1>5, Behind
<1> QED
  BY <1>4, <1>5, <1>6

\* Rings hold what is written to them, and hand it out with silence behind it.
LEMMA SoundRings ==
  ASSUME NEW ring, IsRing(ring), ring.held \in Seq(Sound)
  PROVE  /\ \A src \in Seq(Sound) : IsRing(Written(ring, src)) /\ Written(ring, src).held \in Seq(Sound)
         /\ \A n \in Nat : /\ IsRing(Drained(ring, n)) /\ Drained(ring, n).held \in Seq(Sound)
                           /\ Drawn(ring, n) \in Seq(Sound) /\ Len(Drawn(ring, n)) = n
<1>1. ASSUME NEW src \in Seq(Sound)
      PROVE  IsRing(Written(ring, src)) /\ Written(ring, src).held \in Seq(Sound)
  <2> DEFINE all == ring.held \o src
             p == Positive(Len(all) - Capacity)
  <2>1. all \in Seq(Sound)
    OBVIOUS
  <2> HIDE DEF all
  <2>2. p \in Nat
    BY <2>1, Sizes DEF Positive
  <2> HIDE DEF p
  <2>3. SubSeq(all, p + 1, Len(all)) \in Seq(Sound)
    BY <2>1, <2>2
  <2> QED
    BY <2>3 DEF Written, Newest, IsRing, all, p
<1>2. ASSUME NEW n \in Nat
      PROVE  /\ IsRing(Drained(ring, n)) /\ Drained(ring, n).held \in Seq(Sound)
             /\ Drawn(ring, n) \in Seq(Sound) /\ Len(Drawn(ring, n)) = n
  <2> DEFINE old == Oldest(ring.held, n)
             z == Quiet(Substituted(ring.held, n))
  <2>1. Rest(ring.held, n) \in Seq(Sound) /\ old \in Seq(Sound)
        /\ Len(old) = Lesser(Positive(n), Len(ring.held))
    <3>1. n \in Int
      OBVIOUS
    <3> QED
      BY <3>1, Parted
  <2> HIDE DEF old
  <2>2. Drained(ring, n) = [held |-> Rest(ring.held, n), state |-> ring.state]
    BY DEF Drained, IsRing
  <2>3. IsRing(Drained(ring, n)) /\ Drained(ring, n).held \in Seq(Sound)
    BY <2>1, <2>2 DEF IsRing
  <2>4. Len(ring.held) \in Nat
    OBVIOUS
  <2>5. Substituted(ring.held, n) \in Nat /\ Len(old) + Substituted(ring.held, n) = n
    BY <2>1, <2>4 DEF Substituted, Positive, Lesser
  <2>6. z \in Seq(Sound) /\ Len(z) = Substituted(ring.held, n)
    BY <2>5 DEF Quiet, Sound
  <2> HIDE DEF z
  <2>7. old \o z \in Seq(Sound) /\ Len(old \o z) = Len(old) + Len(z)
    BY <2>1, <2>6, Behind
  <2> QED
    BY <2>3, <2>5, <2>6, <2>7 DEF Drawn, old, z
<1> QED
  BY <1>1, <1>2

\* Room that was counted in frames has the frames' bytes in it.
LEMMA RoomIsEnough ==
  ASSUME SoundInv
  PROVE  /\ InRoom \in Nat /\ RoomFrames(format) \in Nat
         /\ \A fs \in Seq(Sound) : Len(fs) <= RoomFrames(format) =>
              Len(fs) * BytesPerFrame(format) <= InRoom
<1> DEFINE n == BytesPerFrame(format)
           room == InRoom
<1>1. format \in Format /\ n \in {2, 3} /\ Whole(inFifo) /\ Len(inFifo) <= FifoDepth
  BY Sizes DEF SoundInv
<1>2. Len(inFifo) \in Nat
  <2>1. PICK fs \in Seq(Sound) : inFifo = Encode(fs, format)
    BY <1>1, WholeIsEncoded
  <2>2. inFifo \in Seq(Byte)
    BY <1>1, <2>1, EncodedBytes
  <2> QED
    BY <2>2
<1>3. room \in Nat
  BY <1>1, <1>2, Sizes DEF InRoom
<1>4. RoomFrames(format) = Lesser(room \div n, MaxPacket)
  BY DEF RoomFrames
<1> HIDE DEF n, room
<1>5. room \div n \in Nat /\ \A m \in Nat : m <= room \div n => m * n <= room
  <2>1. CASE n = 2
    BY <1>3, <2>1, Z3
  <2>2. CASE n = 3
    BY <1>3, <2>2, Z3
  <2> QED
    BY <1>1, <2>1, <2>2
<1>6. RoomFrames(format) \in Nat /\ RoomFrames(format) <= room \div n
  BY <1>4, <1>5, Sizes DEF Lesser
<1>7. ASSUME NEW fs \in Seq(Sound), Len(fs) <= RoomFrames(format)
      PROVE  Len(fs) * n <= room
  <2>1. Len(fs) \in Nat /\ Len(fs) <= room \div n
    BY <1>5, <1>6, <1>7
  <2> QED
    BY <1>5, <2>1
<1> QED
  BY <1>3, <1>6, <1>7 DEF n, room

\* What is offered within the room is taken whole.
LEMMA TakenWhole ==
  ASSUME ~ShortAccepts, SoundInv, NEW fs \in Seq(Sound), Len(fs) <= RoomFrames(format),
         NEW n \in Accepted(Encode(fs, format))
  PROVE  LET b == Encode(fs, format)
         IN /\ Oldest(b, n) = b /\ Rest(b, n) = <<>>
            /\ Whole(inFifo \o b) /\ Len(inFifo \o b) <= FifoDepth
<1> DEFINE b == Encode(fs, format)
           most == Lesser(Len(b), InRoom)
<1>1. format \in Format /\ Whole(inFifo)
  BY DEF SoundInv
<1>2. b \in Seq(Byte) /\ Len(b) = Len(fs) * BytesPerFrame(format)
  BY <1>1, EncodedBytes
<1>3. InRoom \in Nat /\ Len(b) <= InRoom
  BY <1>2, RoomIsEnough
<1>4. n = most
  BY DEF Accepted
<1>5. Whole(inFifo \o b) /\ Len(inFifo \o b) = Len(inFifo) + Len(fs) * BytesPerFrame(format)
  BY <1>1, WholeJoin
<1>6. Len(inFifo) \in Nat
  <2>1. 0 \in Nat
    OBVIOUS
  <2> QED
    BY <1>1, <2>1, WholeFifo
<1> HIDE DEF b
<1>7. Len(b) \in Nat
  BY <1>2
<1>8. n = Len(b)
  BY <1>3, <1>4, <1>7 DEF Lesser
<1>9. Lesser(Positive(n), Len(b)) = Len(b)
  BY <1>7, <1>8 DEF Lesser, Positive
<1>10. SubSeq(b, 1, Len(b)) = b /\ SubSeq(b, Len(b) + 1, Len(b)) = <<>>
  BY <1>2
<1>11. Oldest(b, n) = b /\ Rest(b, n) = <<>>
  BY <1>9, <1>10 DEF Oldest, Rest
<1>12. Len(inFifo \o b) <= FifoDepth
  <2>1. Len(inFifo \o b) = Len(inFifo) + Len(b)
    BY <1>2, <1>5 DEF b
  <2> QED
    BY <1>3, <1>6, <1>7, <2>1, Sizes DEF InRoom
<1> QED
  BY <1>5, <1>11, <1>12 DEF b

\* A step that leaves the setting alone owes the data only.
LEMMA DataSound ==
  ASSUME SoundInv, UNCHANGED <<alt, format>>,
         IsRing(inputRing'), inputRing'.held \in Seq(Sound),
         IsRing(outputRing'), outputRing'.held \in Seq(Sound),
         Whole(outFifo'), Whole(inFifo'), Len(inFifo') <= FifoDepth, pending' = <<>>,
         alt["OUT"] = 0 => outFifo' = <<>>
  PROVE  SoundInv'
BY DEF SoundInv, Whole

LEMMA OutKeepsSound ==
  ASSUME SoundInv, ServiceOut(format), UNCHANGED <<alt, format>>
  PROVE  SoundInv'
<1> DEFINE n == MaxPacket * BytesPerFrame(format)
           frames == Decode(Oldest(outFifo, n), format)
<1>1. /\ frames \in Seq(Sound) /\ Whole(Rest(outFifo, n))
  <2>1. format \in Format /\ Whole(outFifo) /\ MaxPacket \in Nat
    BY Sizes DEF SoundInv
  <2> QED
    BY <2>1, WholeFifo
<1>2. alt["OUT"] = 0 => Rest(outFifo, n) = <<>>
  <2>1. alt["OUT"] = 0 => outFifo = <<>>
    BY DEF SoundInv
  <2>2. Rest(<<>>, n) = <<>>
    <3>1. Len(<<>>) = 0 /\ <<>> \in Seq(Byte) /\ n \in Nat
      BY Sizes, Places DEF SoundInv
    <3> HIDE DEF n
    <3>2. Lesser(Positive(n), Len(<<>>)) = 0
      BY <3>1 DEF Lesser, Positive
    <3>3. SubSeq(<<>>, 0 + 1, 0) = <<>>
      OBVIOUS
    <3> QED
      BY <3>1, <3>2, <3>3 DEF Rest
  <2> QED
    BY <2>1, <2>2
<1>3. /\ outFifo' = Rest(outFifo, n) /\ inputRing' = Written(inputRing, frames)
      /\ UNCHANGED <<inFifo, outputRing, pending>>
  BY DEF ServiceOut, MaxPayload
<1> HIDE DEF frames
<1>4. IsRing(inputRing') /\ inputRing'.held \in Seq(Sound)
  BY <1>1, <1>3, SoundRings DEF SoundInv
<1> HIDE DEF n
<1> QED
  BY <1>1, <1>2, <1>3, <1>4, DataSound DEF SoundInv

LEMMA DspKeepsSound ==
  ASSUME SoundInv, ServiceDsp, UNCHANGED <<alt, format>>
  PROVE  SoundInv'
<1>1. CASE SkipBlock
  BY <1>1 DEF SkipBlock, loopVars, SoundInv, Whole
<1>2. CASE RunBlock
  <2> DEFINE block == Drawn(inputRing, Block)
  <2>1. /\ IsRing(Drained(inputRing, Block)) /\ Drained(inputRing, Block).held \in Seq(Sound)
        /\ block \in Seq(Sound)
    BY Sizes, SoundRings DEF SoundInv
  <2> HIDE DEF block
  <2>2. IsRing(Written(outputRing, block)) /\ Written(outputRing, block).held \in Seq(Sound)
    BY <2>1, SoundRings DEF SoundInv
  <2>3. /\ inputRing' = Drained(inputRing, Block) /\ outputRing' = Written(outputRing, block)
        /\ UNCHANGED <<outFifo, inFifo, pending>>
    BY <1>2 DEF RunBlock, block
  <2> QED
    BY <2>1, <2>2, <2>3, DataSound DEF SoundInv
<1> QED
  BY <1>1, <1>2 DEF ServiceDsp

LEMMA InKeepsSound ==
  ASSUME ~ShortAccepts, SoundInv, NEW captureOnly \in BOOLEAN, ServiceIn(captureOnly, format),
         UNCHANGED <<alt, format>>
  PROVE  SoundInv'
<1>1. CASE SupplySilence(format)
  <2> DEFINE quiet == Quiet(RoomFrames(format))
             b == Encode(quiet, format)
  <2>1. quiet \in Seq(Sound) /\ Len(quiet) <= RoomFrames(format)
    BY RoomIsEnough DEF Quiet, Sound
  <2> HIDE DEF quiet
  <2>2. PICK n \in Accepted(b) : inFifo' = inFifo \o Oldest(b, n)
    BY <1>1 DEF SupplySilence, quiet
  <2>3. Oldest(b, n) = b /\ Whole(inFifo \o b) /\ Len(inFifo \o b) <= FifoDepth
    BY <2>1, TakenWhole
  <2>4. pending' = <<>> /\ UNCHANGED <<outFifo, inputRing, outputRing>>
    BY <1>1 DEF SupplySilence
  <2> HIDE DEF b
  <2> QED
    BY <2>2, <2>3, <2>4, DataSound DEF SoundInv
<1>2. CASE FlushCarryover
  BY <1>2 DEF FlushCarryover, SoundInv
<1>3. CASE AwaitRunning \/ AwaitRoom(format)
  BY <1>3 DEF AwaitRunning, AwaitRoom, loopVars, SoundInv, Whole
<1>4. CASE PullFrames(format)
  <2> DEFINE m == PullSize(format)
             frames == Drawn(outputRing, m)
             b == Encode(frames, format)
  <2>1. m \in Nat /\ m <= RoomFrames(format)
    <3>1. RoomFrames(format) \in Nat /\ Len(outputRing.held) \in Nat
      BY RoomIsEnough DEF SoundInv
    <3> QED
      BY <3>1 DEF PullSize, Lesser
  <2> HIDE DEF m
  <2>2. /\ frames \in Seq(Sound) /\ Len(frames) = m
        /\ IsRing(Drained(outputRing, m)) /\ Drained(outputRing, m).held \in Seq(Sound)
    BY <2>1, SoundRings DEF SoundInv
  <2> HIDE DEF frames
  <2>3. /\ outputRing' = Drained(outputRing, m) /\ Offer(b)
        /\ UNCHANGED <<outFifo, inputRing>>
    BY <1>4 DEF PullFrames, m, frames
  <2>4. PICK n \in Accepted(b) : inFifo' = inFifo \o Oldest(b, n) /\ pending' = Rest(b, n)
    BY <2>3 DEF Offer
  <2>5. /\ Oldest(b, n) = b /\ Rest(b, n) = <<>>
        /\ Whole(inFifo \o b) /\ Len(inFifo \o b) <= FifoDepth
    BY <2>1, <2>2, TakenWhole
  <2> HIDE DEF b
  <2> QED
    BY <2>2, <2>3, <2>4, <2>5, DataSound DEF SoundInv
<1> QED
  BY <1>1, <1>2, <1>3, <1>4 DEF ServiceIn

LEMMA EmptiedIsSound ==
  ASSUME NEW s
  PROVE  IsRing(Emptied(s)) /\ Emptied(s).held \in Seq(Sound)
BY DEF Emptied, IsRing

LEMMA EmptyIsWhole ==
  ASSUME format' \in Format
  PROVE  Whole(<<>>)'
BY NothingEncoded, DecodeEncode DEF Whole

LEMMA SettingKeepsSound ==
  ASSUME CleanSwitch, SoundInv, NEW d \in Direction, NEW a \in Alts \cup {0}, SetInterface(d, a)
  PROVE  SoundInv'
<1>1. a \in {0, 1, 2} /\ FormatOf(a) \in Format /\ "OUT" \in Direction /\ "IN" \in Direction
  BY LifecycleAssumption DEF LifecycleConstants, FormatOf, Format, Direction
<1>2. format' \in Format /\ alt' \in [Direction -> {0, 1, 2}] /\ alt' = [alt EXCEPT ![d] = a]
  BY <1>1 DEF SetInterface, SoundInv
<1>3. UNCHANGED <<inputRing, outputRing, pending>>
  BY DEF SetInterface, restOfLoop
<1>4. outFifo' \in {<<>>, outFifo} /\ inFifo' \in {<<>>, inFifo}
  BY DEF SetInterface, Flushed
<1>5. CASE format' = format
  <2>1. Whole(outFifo)' /\ Whole(inFifo)' /\ Len(inFifo') <= FifoDepth
    <3>1. Whole(<<>>)'
      BY <1>2, EmptyIsWhole
    <3>2. Len(<<>>) <= FifoDepth
      BY Sizes
    <3> QED
      BY <1>4, <1>5, <3>1, <3>2 DEF SoundInv, Whole
  <2>2. \A e \in Direction : alt'[e] # 0 => FormatOf(alt'[e]) = format'
    BY <1>2, <1>5 DEF SetInterface, SoundInv
  <2>3. alt'["OUT"] = 0 => outFifo' = <<>>
    BY <1>1, <1>2 DEF SetInterface, SoundInv, Flushed
  <2> QED
    BY <1>2, <1>3, <2>1, <2>2, <2>3 DEF SoundInv
<1>6. CASE format' # format
  <2>1. NothingInFlight(d) /\ format' = FormatOf(a)
    BY <1>6 DEF SetInterface
  <2>2. \A e \in Direction : e # d => e = Other(d)
    BY DEF Direction, Other
  <2>3. outFifo' = <<>> /\ inFifo' = <<>>
    BY <2>1 DEF NothingInFlight, SetInterface, Flushed, Direction
  <2>4. \A e \in Direction : alt'[e] # 0 => FormatOf(alt'[e]) = format'
    BY <1>2, <2>1, <2>2 DEF NothingInFlight, SoundInv
  <2>5. Whole(outFifo)' /\ Whole(inFifo)' /\ Len(inFifo') <= FifoDepth
    <3>1. Whole(<<>>)'
      BY <1>2, EmptyIsWhole
    <3>2. Len(<<>>) <= FifoDepth
      BY Sizes
    <3> QED
      BY <2>3, <3>1, <3>2 DEF Whole
  <2> QED
    BY <1>2, <1>3, <2>3, <2>4, <2>5 DEF SoundInv
<1> QED
  BY <1>5, <1>6

LEMMA HostKeepsSound ==
  ASSUME SoundInv, \E n \in 1..MaxPacket : SendPayload(n) \/ TakePayload(n)
  PROVE  SoundInv'
<1>0. "OUT" \in Direction /\ "IN" \in Direction
  BY DEF Direction
<1>1. ASSUME NEW n \in 1..MaxPacket, SendPayload(n)
      PROVE  SoundInv'
  <2> DEFINE fs == [i \in 1..n |-> Pcm]
  <2>1. fs \in Seq(Sound)
    BY Sizes DEF Sound
  <2> HIDE DEF fs
  <2>2. outFifo' = outFifo \o Encode(fs, format) /\ alt["OUT"] # 0
        /\ UNCHANGED <<inFifo, inputRing, outputRing, pending, alt, format>>
    BY <1>0, <1>1 DEF SendPayload, Talking, SoundInv, restOfLoop, busVars, fs
  <2>3. Whole(outFifo \o Encode(fs, format))
    BY <2>1, WholeJoin DEF SoundInv
  <2> QED
    BY <2>2, <2>3, DataSound DEF SoundInv
<1>2. ASSUME NEW n \in 1..MaxPacket, TakePayload(n)
      PROVE  SoundInv'
  <2> DEFINE bytes == n * BytesPerFrame(format)
  <2>1. inFifo' = Rest(inFifo, bytes)
        /\ UNCHANGED <<outFifo, inputRing, outputRing, pending, alt, format>>
    BY <1>0, <1>2 DEF TakePayload, Talking, SoundInv, restOfLoop, busVars
  <2>2. Whole(Rest(inFifo, bytes)) /\ Len(Rest(inFifo, bytes)) <= Len(inFifo) /\ Len(inFifo) \in Nat
    <3>1. n \in Nat
      BY Sizes
    <3> QED
      BY <3>1, WholeFifo DEF SoundInv
  <2>3. Len(Rest(inFifo, bytes)) <= FifoDepth
    <3>1. Rest(inFifo, bytes) \in Seq(Byte)
      <4>1. PICK fs \in Seq(Sound) : Rest(inFifo, bytes) = Encode(fs, format)
        BY <2>2, WholeIsEncoded DEF SoundInv
      <4> QED
        BY <4>1, EncodedBytes DEF SoundInv
    <3>2. Len(Rest(inFifo, bytes)) \in Nat
      BY <3>1
    <3> QED
      BY <2>2, <3>2, Sizes DEF SoundInv
  <2> HIDE DEF bytes
  <2> QED
    BY <2>1, <2>2, <2>3, DataSound DEF SoundInv
<1> QED
  BY <1>1, <1>2

LEMMA StepKeepsSound ==
  ASSUME CleanSwitch, ~ShortAccepts, SoundInv, [Next]_vars
  PROVE  SoundInv'
<1>1. ASSUME NEW d \in Direction, NEW a \in Alts \cup {0}, SetInterface(d, a)
      PROVE  SoundInv'
  BY <1>1, SettingKeepsSound
<1>2. CASE SetRate \/ TaskDone \/ UNCHANGED vars
  BY <1>2 DEF SetRate, TaskDone, vars, loopVars, busVars, SoundInv, Whole
<1>3. ASSUME NEW dirs, NEW s, Restarted(dirs, s)
      PROVE  /\ SoundInv => /\ IsRing(inputRing') /\ inputRing'.held \in Seq(Sound)
                            /\ IsRing(outputRing') /\ outputRing'.held \in Seq(Sound)
  BY <1>3, EmptiedIsSound DEF Restarted, SoundInv
<1>4. CASE Suspend \/ Resume
  <2>1. UNCHANGED <<outFifo, inFifo, pending, alt, format>>
    BY <1>4 DEF Suspend, Resume, restOfLoop
  <2>2. Restarted(Direction, "Stopped") \/ Restarted(Direction, "Priming")
    BY <1>4 DEF Suspend, Resume
  <2> QED
    BY <1>3, <2>1, <2>2, DataSound DEF SoundInv
<1>5. CASE BusReset
  <2>1. UNCHANGED <<pending, format>> /\ outFifo' = <<>> /\ inFifo' = <<>>
        /\ alt' = [d \in Direction |-> 0]
    BY <1>5 DEF BusReset, restOfLoop, Flushed, Direction
  <2>2. Restarted(Direction, "Priming")
    BY <1>5 DEF BusReset
  <2>3. Whole(<<>>)' /\ Len(<<>>) <= FifoDepth
    BY <2>1, EmptyIsWhole, Sizes DEF SoundInv
  <2> QED
    BY <1>3, <2>1, <2>2, <2>3 DEF SoundInv, Whole
<1>6. CASE ServiceUsbLifecycle \/ ServiceRateChange \/ ServiceFormatChange
  <2>1. PICK dirs : Repriming(dirs)
    BY <1>6 DEF ServiceUsbLifecycle, ServiceRateChange, ServiceFormatChange
  <2>2. Restarted(dirs, "Priming") /\ UNCHANGED <<outFifo, inFifo, pending, alt, format>>
    BY <2>1 DEF Repriming, restOfLoop
  <2> QED
    BY <1>3, <2>2, DataSound DEF SoundInv
<1>7. CASE DataOut \/ DataDsp \/ DataIn
  <2>1. UNCHANGED <<alt, format>>
    BY <1>7 DEF DataOut, DataDsp, DataIn, busVars
  <2>2. CaptureOnly \in BOOLEAN
    BY DEF CaptureOnly
  <2> QED
    BY <1>7, <2>1, <2>2, OutKeepsSound, DspKeepsSound, InKeepsSound DEF DataOut, DataDsp, DataIn
<1>8. CASE \E n \in 1..MaxPacket : SendPayload(n) \/ TakePayload(n)
  BY <1>8, HostKeepsSound
<1> QED
  BY <1>1, <1>2, <1>4, <1>5, <1>6, <1>7, <1>8 DEF Next, TaskEvent, Services

\* FR-005, for a host that changes the format only with nothing on its way and a
\* sink that takes what it has room for: no ring ever holds a frame read from the
\* bytes of two, and none is on its way to the host, however many events a pass
\* drains, bus resets included (usb-out-path.h and usb-in-path.h read the one
\* g_currentAudioFormat; tud_audio_set_itf_cb writes it).
THEOREM FramesArriveWhole ==
  ASSUME CleanSwitch, ~ShortAccepts
  PROVE  Spec => []NothingGarbled
<1>1. Init => SoundInv
  <2> SUFFICES ASSUME Init PROVE SoundInv
    OBVIOUS
  <2>1. format \in Format /\ outFifo = <<>> /\ inFifo = <<>> /\ pending = <<>>
        /\ alt = [d \in Direction |-> 0]
    BY DEF Init, LoopInit, Format
  <2>2. Whole(<<>>) /\ Len(<<>>) <= FifoDepth
    BY <2>1, WholeIsEncoded, Sizes
  <2> QED
    BY <2>1, <2>2, EmptiedIsSound DEF SoundInv, Init, LoopInit
<1>2. SoundInv /\ [Next]_vars => SoundInv'
  BY StepKeepsSound
<1>3. SoundInv => NothingGarbled
  <2> SUFFICES ASSUME SoundInv PROVE NothingGarbled
    OBVIOUS
  <2>1. Garbled \notin Sound
    BY LifecycleAssumption DEF LifecycleConstants, Sound
  <2>2. \A s \in Seq(Sound) : \A i \in DOMAIN s : s[i] # Garbled
    BY <2>1
  <2>3. alt["IN"] # 0 => Decode(inFifo, FormatOf(alt["IN"])) \in Seq(Sound)
    BY DEF SoundInv, Whole, Direction
  <2> QED
    BY <2>2, <2>3 DEF SoundInv, NothingGarbled
<1> QED
  BY <1>1, <1>2, <1>3, PTL DEF Spec

-----------------------------------------------------------------------------
(* The types of the lifecycle                                              *)

\* What may stand in a ring or be spread over bytes, noise included.
Heard == {Pcm, Silence, Garbled}
HeardByte == [frame : Heard, k : Nat, of : Nat]

\* A ring that keeps to its slots.
FitRing(ring) ==
  ring \in [held : Seq(Heard), state : RingState] /\ Len(ring.held) <= Capacity

DataTypes ==
  /\ FitRing(inputRing) /\ FitRing(outputRing)
  /\ outFifo \in Seq(HeardByte) /\ Len(outFifo) <= FifoDepth
  /\ inFifo \in Seq(HeardByte) /\ Len(inFifo) <= FifoDepth
  /\ pending = <<>>

BusTypes ==
  /\ turn \in {"task", "lifecycle", "rate", "format", "OUT", "DSP", "IN"}
  /\ drained \in 0..MaxEvents
  /\ alt \in [Direction -> {0, 1, 2}]
  /\ streaming \in [Direction -> BOOLEAN] /\ previously \in [Direction -> BOOLEAN]
  /\ format \in Format /\ owed \subseteq Direction
  /\ asleep \in BOOLEAN /\ formatLatch \in BOOLEAN /\ rateLatch \in BOOLEAN

\* Bytes of any frames.
LEMMA HeardEncoded ==
  ASSUME NEW f \in Format, NEW fs \in Seq(Heard)
  PROVE  Encode(fs, f) \in Seq(HeardByte) /\ Len(Encode(fs, f)) = Len(fs) * BytesPerFrame(f)
<1> DEFINE n == BytesPerFrame(f)
           b == Encode(fs, f)
           l == Len(fs) * n
<1>1. n \in {2, 3} /\ n \in Nat /\ Len(fs) \in Nat
  BY Sizes
<1>2. l \in Nat
  BY <1>1, Places
<1>3. b = [j \in 1..l |-> WireByte(fs[((j - 1) \div n) + 1], ((j - 1) % n) + 1, n)]
  BY DEF Encode
<1> HIDE DEF b, n
<1>4. ASSUME NEW j \in 1..l PROVE b[j] \in HeardByte
  <2>1. ((j - 1) \div n) + 1 \in 1..Len(fs) /\ ((j - 1) % n) + 1 \in Nat
    <3>1. CASE n = 2
      BY <1>1, <3>1, Z3
    <3>2. CASE n = 3
      BY <1>1, <3>2, Z3
    <3> QED
      BY <1>1, <3>1, <3>2
  <2> HIDE DEF l
  <2>2. fs[((j - 1) \div n) + 1] \in Heard
    BY <2>1
  <2>3. b[j] = WireByte(fs[((j - 1) \div n) + 1], ((j - 1) % n) + 1, n)
    BY <1>3
  <2> QED
    BY <1>1, <2>1, <2>2, <2>3 DEF WireByte, HeardByte
<1> HIDE DEF l
<1>5. b \in Seq(HeardByte) /\ Len(b) = l
  BY <1>2, <1>3, <1>4
<1> QED
  BY <1>5 DEF b, l, n

\* Frames of any bytes, whatever is left over.
LEMMA HeardDecoded ==
  ASSUME NEW f \in Format, NEW b \in Seq(HeardByte)
  PROVE  Decode(b, f) \in Seq(Heard)
<1> DEFINE n == BytesPerFrame(f)
           m == Len(b) \div n
           F(i) == FrameOf(SubSeq(b, (i - 1) * n + 1, i * n))
           d == Decode(b, f)
<1>1. n \in {2, 3} /\ n \in Nat /\ Len(b) \in Nat
  BY Sizes
<1>2. d = [i \in 1..m |-> F(i)]
  BY DEF Decode
<1> HIDE DEF n
<1>3. m \in Nat /\ m * n <= Len(b)
  <2>1. CASE n = 2
    BY <1>1, <2>1, Z3
  <2>2. CASE n = 3
    BY <1>1, <2>2, Z3
  <2> QED
    BY <1>1, <2>1, <2>2
<1> HIDE DEF m
<1>4. ASSUME NEW i \in 1..m PROVE F(i) \in Heard
  <2> DEFINE h == (i - 1) * n
             sub == SubSeq(b, h + 1, h + n)
  <2>1. h \in Nat /\ i * n = h + n /\ h + n <= Len(b)
    <3>1. CASE n = 2
      BY <1>1, <1>3, <3>1
    <3>2. CASE n = 3
      BY <1>1, <1>3, <3>2
    <3> QED
      BY <1>1, <3>1, <3>2
  <2> HIDE DEF h
  <2>2. sub[1] = b[h + 1]
    <3>1. 1 \in 1..n
      BY <1>1
    <3> QED
      BY <1>1, <2>1, <3>1, Slice
  <2>3. b[h + 1] \in HeardByte
    BY <1>1, <2>1
  <2> HIDE DEF sub
  <2>4. FrameOf(sub) \in Heard
    BY <2>2, <2>3 DEF FrameOf, Heard, HeardByte
  <2> QED
    BY <2>1, <2>4 DEF sub, h
<1> HIDE DEF F, d
<1>5. d \in Seq(Heard)
  BY <1>1, <1>2, <1>3, <1>4
<1> QED
  BY <1>5 DEF d

\* A write drops what does not fit, and a read leaves what it does not take.
LEMMA FitRings ==
  ASSUME NEW ring, FitRing(ring)
  PROVE  /\ \A src \in Seq(Heard) : FitRing(Written(ring, src))
         /\ \A n \in Nat : /\ FitRing(Drained(ring, n))
                           /\ Drawn(ring, n) \in Seq(Heard) /\ Len(Drawn(ring, n)) = n
<1>0. ring.held \in Seq(Heard) /\ Len(ring.held) \in Nat /\ Len(ring.held) <= Capacity
      /\ ring = [held |-> ring.held, state |-> ring.state] /\ ring.state \in RingState
  BY DEF FitRing
<1>1. ASSUME NEW src \in Seq(Heard)
      PROVE  FitRing(Written(ring, src))
  <2> DEFINE all == ring.held \o src
             p == Positive(Len(all) - Capacity)
             kept == SubSeq(all, p + 1, Len(all))
  <2>1. all \in Seq(Heard) /\ Len(all) \in Nat
    BY <1>0
  <2> HIDE DEF all
  <2>2. p \in Nat /\ p <= Len(all) /\ Len(all) - p <= Capacity
    BY <2>1, Sizes DEF Positive
  <2> HIDE DEF p
  <2>3. kept \in Seq(Heard) /\ Len(kept) <= Capacity
    BY <2>1, <2>2, Sizes
  <2>4. Written(ring, src) = [held |-> kept, state |-> Promoted(ring.state, Len(kept), StartupFill)]
    BY DEF Written, Newest, all, p
  <2> HIDE DEF kept
  <2>5. Promoted(ring.state, Len(kept), StartupFill) \in RingState
    BY <1>0 DEF Promoted, RingState
  <2> QED
    BY <2>3, <2>4, <2>5 DEF FitRing
<1>2. ASSUME NEW n \in Nat
      PROVE  /\ FitRing(Drained(ring, n))
             /\ Drawn(ring, n) \in Seq(Heard) /\ Len(Drawn(ring, n)) = n
  <2> DEFINE old == Oldest(ring.held, n)
             rest == Rest(ring.held, n)
             made == Substituted(ring.held, n)
             z == Quiet(made)
  <2>1. rest \in Seq(Heard) /\ old \in Seq(Heard) /\ old \o rest = ring.held
        /\ Len(old) = Lesser(Positive(n), Len(ring.held))
    <3>1. n \in Int
      OBVIOUS
    <3> QED
      BY <1>0, <3>1, Parted
  <2>2. Drained(ring, n) = [held |-> rest, state |-> ring.state]
    BY <1>0 DEF Drained
  <2> HIDE DEF old, rest
  <2>3. Len(rest) <= Capacity
    <3>1. Len(old \o rest) = Len(old) + Len(rest) /\ Len(old) \in Nat /\ Len(rest) \in Nat
      BY <2>1, Behind
    <3>2. Len(old \o rest) = Len(ring.held)
      BY <2>1
    <3> QED
      BY <1>0, <3>1, <3>2, Sizes
  <2>4. FitRing(Drained(ring, n))
    BY <1>0, <2>1, <2>2, <2>3 DEF FitRing
  <2>5. made \in Nat /\ Len(old) + made = n
    BY <1>0, <2>1 DEF Substituted, Positive, Lesser
  <2> HIDE DEF made
  <2>6. z \in Seq(Heard) /\ Len(z) = made
    BY <2>5 DEF Quiet, Heard
  <2> HIDE DEF z
  <2>7. old \o z \in Seq(Heard) /\ Len(old \o z) = Len(old) + Len(z)
    BY <2>1, <2>6, Behind
  <2> QED
    BY <2>4, <2>5, <2>6, <2>7 DEF Drawn, old, z, made
<1> QED
  BY <1>1, <1>2

LEMMA EmptiedFits ==
  ASSUME NEW s \in RingState
  PROVE  FitRing(Emptied(s))
BY Sizes DEF FitRing, Emptied

\* The sink takes what was counted as room.
LEMMA OfferFits ==
  ASSUME ~ShortAccepts, DataTypes, NEW f \in Format, NEW fs \in Seq(Heard), Len(fs) <= RoomFrames(f),
         NEW n \in Accepted(Encode(fs, f))
  PROVE  LET b == Encode(fs, f)
         IN /\ Rest(b, n) = <<>>
            /\ inFifo \o Oldest(b, n) \in Seq(HeardByte) /\ Len(inFifo \o Oldest(b, n)) <= FifoDepth
<1> DEFINE b == Encode(fs, f)
           w == BytesPerFrame(f)
           room == InRoom
<1>1. b \in Seq(HeardByte) /\ Len(b) = Len(fs) * w
  BY HeardEncoded
<1>2. w \in {2, 3} /\ Len(fs) \in Nat /\ Len(b) \in Nat
  BY <1>1, Sizes
<1>3. inFifo \in Seq(HeardByte) /\ Len(inFifo) \in Nat /\ room = FifoDepth - Len(inFifo) /\ room \in Nat
  BY Sizes DEF DataTypes, InRoom
<1>4. n = Lesser(Len(b), room)
  BY DEF Accepted
<1>5. Len(fs) <= Lesser(room \div w, MaxPacket)
  BY DEF RoomFrames
<1> HIDE DEF b, w, room
<1>6. Len(b) <= room
  <2>1. room \div w \in Nat /\ (room \div w) * w <= room
    <3>1. CASE w = 2
      BY <1>3, <3>1, Z3
    <3>2. CASE w = 3
      BY <1>3, <3>2, Z3
    <3> QED
      BY <1>2, <3>1, <3>2
  <2>2. Len(fs) <= room \div w
    BY <1>2, <1>5, <2>1, Sizes DEF Lesser
  <2>3. Len(fs) * w <= (room \div w) * w
    BY <1>2, <2>1, <2>2, Places
  <2>4. (room \div w) * w \in Nat /\ Len(fs) * w \in Nat
    BY <1>2, <2>1, Places
  <2> QED
    BY <1>1, <1>3, <2>1, <2>3, <2>4
<1>7. n = Len(b)
  BY <1>2, <1>3, <1>4, <1>6 DEF Lesser
<1>8. Lesser(Positive(n), Len(b)) = Len(b)
  BY <1>2, <1>7 DEF Lesser, Positive
<1>9. SubSeq(b, 1, Len(b)) = b /\ SubSeq(b, Len(b) + 1, Len(b)) = <<>>
  BY <1>1
<1>10. Oldest(b, n) = b /\ Rest(b, n) = <<>>
  BY <1>8, <1>9 DEF Oldest, Rest
<1>11. inFifo \o b \in Seq(HeardByte) /\ Len(inFifo \o b) = Len(inFifo) + Len(b)
  BY <1>1, <1>3, Behind
<1>12. Len(inFifo \o b) <= FifoDepth
  BY <1>2, <1>3, <1>6, <1>11, Sizes
<1> QED
  BY <1>10, <1>11, <1>12 DEF b

\* The data services keep to their rings and FIFOs.
LEMMA DataServicesFit ==
  ASSUME ~ShortAccepts, DataTypes, NEW f \in Format, NEW captureOnly \in BOOLEAN,
         ServiceOut(f) \/ ServiceDsp \/ ServiceIn(captureOnly, f)
  PROVE  DataTypes'
<1>1. CASE ServiceOut(f)
  <2> DEFINE n == MaxPayload(f)
             payload == Oldest(outFifo, n)
             rest == Rest(outFifo, n)
             frames == Decode(payload, f)
  <2>1. n \in Int
    BY Sizes, Places DEF MaxPayload
  <2> HIDE DEF n
  <2>2. /\ payload \in Seq(HeardByte) /\ rest \in Seq(HeardByte) /\ payload \o rest = outFifo
    BY <2>1, Parted DEF DataTypes
  <2> HIDE DEF payload, rest
  <2>3. Len(rest) <= FifoDepth
    <3>1. Len(payload \o rest) = Len(payload) + Len(rest) /\ Len(payload) \in Nat /\ Len(rest) \in Nat
      BY <2>2, Behind
    <3>2. Len(payload \o rest) <= FifoDepth
      BY <2>2 DEF DataTypes
    <3> QED
      BY <3>1, <3>2, Sizes
  <2>4. frames \in Seq(Heard)
    BY <2>2, HeardDecoded
  <2> HIDE DEF frames
  <2>5. /\ outFifo' = rest /\ inputRing' = Written(inputRing, frames)
        /\ UNCHANGED <<inFifo, outputRing, pending>>
    BY <1>1 DEF ServiceOut, n, payload, rest, frames
  <2>6. FitRing(Written(inputRing, frames))
    BY <2>4, FitRings DEF DataTypes
  <2> QED
    BY <2>2, <2>3, <2>5, <2>6 DEF DataTypes, FitRing
<1>2. CASE SkipBlock \/ AwaitRunning \/ AwaitRoom(f)
  BY <1>2 DEF SkipBlock, AwaitRunning, AwaitRoom, loopVars, DataTypes, FitRing
<1>3. CASE RunBlock
  <2> DEFINE block == Drawn(inputRing, Block)
  <2>1. FitRing(Drained(inputRing, Block)) /\ block \in Seq(Heard)
    BY Sizes, FitRings DEF DataTypes
  <2> HIDE DEF block
  <2>2. FitRing(Written(outputRing, block))
    BY <2>1, FitRings DEF DataTypes
  <2>3. /\ inputRing' = Drained(inputRing, Block) /\ outputRing' = Written(outputRing, block)
        /\ UNCHANGED <<outFifo, inFifo, pending>>
    BY <1>3 DEF RunBlock, block
  <2> QED
    BY <2>1, <2>2, <2>3 DEF DataTypes, FitRing
<1>4. RoomFrames(f) \in Nat
  <2>1. Len(inFifo) \in Nat /\ InRoom \in Nat /\ BytesPerFrame(f) \in {2, 3}
    BY Sizes DEF DataTypes, InRoom
  <2>2. InRoom \div BytesPerFrame(f) \in Nat
    BY <2>1
  <2> QED
    BY <2>2, Sizes DEF RoomFrames, Lesser
<1>5. CASE SupplySilence(f)
  <2> DEFINE quiet == Quiet(RoomFrames(f))
  <2>1. quiet \in Seq(Heard) /\ Len(quiet) <= RoomFrames(f)
    BY <1>4 DEF Quiet, Heard
  <2> HIDE DEF quiet
  <2>2. PICK n \in Accepted(Encode(quiet, f)) : inFifo' = inFifo \o Oldest(Encode(quiet, f), n)
    BY <1>5 DEF SupplySilence, quiet
  <2>3. inFifo' \in Seq(HeardByte) /\ Len(inFifo') <= FifoDepth
    BY <2>1, <2>2, OfferFits
  <2>4. pending' = <<>> /\ UNCHANGED <<outFifo, inputRing, outputRing>>
    BY <1>5 DEF SupplySilence
  <2> QED
    BY <2>3, <2>4 DEF DataTypes, FitRing
<1>6. CASE PullFrames(f)
  <2> DEFINE m == PullSize(f)
             frames == Drawn(outputRing, m)
             b == Encode(frames, f)
  <2>1. m \in Nat /\ m <= RoomFrames(f)
    <3>1. Len(outputRing.held) \in Nat
      BY DEF DataTypes, FitRing
    <3> QED
      BY <1>4, <3>1 DEF PullSize, Lesser
  <2> HIDE DEF m
  <2>2. frames \in Seq(Heard) /\ Len(frames) = m /\ FitRing(Drained(outputRing, m))
    BY <2>1, FitRings DEF DataTypes
  <2> HIDE DEF frames
  <2>3. outputRing' = Drained(outputRing, m) /\ Offer(b) /\ UNCHANGED <<outFifo, inputRing>>
    BY <1>6 DEF PullFrames, m, frames
  <2>4. PICK n \in Accepted(b) : inFifo' = inFifo \o Oldest(b, n) /\ pending' = Rest(b, n)
    BY <2>3 DEF Offer
  <2>5. /\ Rest(b, n) = <<>>
        /\ inFifo \o Oldest(b, n) \in Seq(HeardByte) /\ Len(inFifo \o Oldest(b, n)) <= FifoDepth
    BY <2>1, <2>2, OfferFits
  <2> HIDE DEF b
  <2> QED
    BY <2>2, <2>3, <2>4, <2>5 DEF DataTypes, FitRing
<1>7. ~FlushCarryover
  BY DEF FlushCarryover, DataTypes
<1> QED
  BY <1>1, <1>2, <1>3, <1>5, <1>6, <1>7 DEF ServiceDsp, ServiceIn

\* A restart leaves a ring empty, and a FIFO that is closed is.
LEMMA RestartFits ==
  ASSUME DataTypes, NEW dirs, NEW s \in RingState, Restarted(dirs, s)
  PROVE  FitRing(inputRing') /\ FitRing(outputRing')
BY EmptiedFits DEF Restarted, DataTypes

LEMMA SettingsFit ==
  ASSUME DataTypes, pending' = pending, outFifo' \in {<<>>, outFifo}, inFifo' \in {<<>>, inFifo},
         FitRing(inputRing'), FitRing(outputRing')
  PROVE  DataTypes'
<1>1. <<>> \in Seq(HeardByte) /\ Len(<<>>) <= FifoDepth
  BY Sizes
<1> QED
  BY <1>1 DEF DataTypes, FitRing

LEMMA TypesBegin == Init => DataTypes /\ BusTypes
<1> SUFFICES ASSUME Init PROVE DataTypes /\ BusTypes
  OBVIOUS
<1>1. "Priming" \in RingState
  BY DEF RingState
<1>2. FitRing(Emptied("Priming"))
  BY <1>1, EmptiedFits
<1>3. <<>> \in Seq(HeardByte) /\ Len(<<>>) <= FifoDepth
  BY Sizes
<1>4. DataTypes
  BY <1>2, <1>3 DEF Init, LoopInit, DataTypes
<1>5. 0 \in 0..MaxEvents
  BY LifecycleAssumption DEF LifecycleConstants
<1>6. BusTypes
  BY <1>5 DEF Init, BusTypes, Format
<1> QED
  BY <1>4, <1>6

LEMMA TypesKeep ==
  ASSUME ~ShortAccepts, DataTypes, BusTypes, [Next]_vars
  PROVE  DataTypes' /\ BusTypes'
<1>0. "Priming" \in RingState /\ "Stopped" \in RingState
  BY DEF RingState
<1>1. CASE TaskEvent
  <2>1. turn' = turn /\ drained' \in 0..MaxEvents
    <3>1. drained \in 0..MaxEvents /\ MaxEvents \in Nat /\ drained < MaxEvents /\ drained' = drained + 1
      BY <1>1, LifecycleAssumption DEF TaskEvent, BusTypes, LifecycleConstants
    <3> QED
      BY <1>1, <3>1 DEF TaskEvent
  <2>2. ASSUME NEW d \in Direction, NEW a \in Alts \cup {0}, SetInterface(d, a)
        PROVE  DataTypes' /\ BusTypes'
    <3>1. a \in {0, 1, 2} /\ FormatOf(a) \in Format
      BY LifecycleAssumption DEF LifecycleConstants, FormatOf, Format
    <3>2. DataTypes'
      <4>1. outFifo' \in {<<>>, outFifo} /\ inFifo' \in {<<>>, inFifo} /\ pending' = pending
            /\ UNCHANGED <<inputRing, outputRing>>
        BY <2>2 DEF SetInterface, Flushed, restOfLoop
      <4> QED
        BY <4>1, SettingsFit DEF DataTypes
    <3>3. alt' \in [Direction -> {0, 1, 2}] /\ streaming' \in [Direction -> BOOLEAN]
      BY <2>2, <3>1 DEF SetInterface, BusTypes
    <3>4. format' \in Format /\ formatLatch' \in BOOLEAN
      BY <2>2, <3>1 DEF SetInterface, BusTypes
    <3>5. owed' \subseteq Direction
      BY <2>2 DEF SetInterface, BusTypes
    <3> QED
      BY <2>1, <2>2, <3>2, <3>3, <3>4, <3>5 DEF SetInterface, BusTypes
  <2>3. CASE SetRate
    <3>1. DataTypes'
      BY <2>3 DEF SetRate, loopVars, DataTypes, FitRing
    <3> QED
      BY <2>1, <2>3, <3>1 DEF SetRate, BusTypes
  <2>4. CASE Suspend \/ Resume
    <3>1. DataTypes'
      <4>1. UNCHANGED <<outFifo, inFifo, pending>>
            /\ (Restarted(Direction, "Stopped") \/ Restarted(Direction, "Priming"))
        BY <2>4 DEF Suspend, Resume, restOfLoop
      <4>2. FitRing(inputRing') /\ FitRing(outputRing')
        BY <1>0, <4>1, RestartFits
      <4> QED
        BY <4>1, <4>2, SettingsFit
    <3>2. asleep' \in BOOLEAN /\ owed' = {}
      BY <2>4 DEF Suspend, Resume
    <3>3. UNCHANGED <<alt, streaming, previously, format, formatLatch, rateLatch>>
      BY <2>4 DEF Suspend, Resume
    <3> QED
      BY <2>1, <3>1, <3>2, <3>3 DEF BusTypes
  <2>5. CASE BusReset
    <3>1. DataTypes'
      <4>1. outFifo' = <<>> /\ inFifo' = <<>> /\ pending' = pending /\ Restarted(Direction, "Priming")
        BY <2>5 DEF BusReset, Flushed, Direction, restOfLoop
      <4>2. FitRing(inputRing') /\ FitRing(outputRing')
        BY <1>0, <4>1, RestartFits
      <4> QED
        BY <4>1, <4>2, SettingsFit
    <3>2. asleep' \in BOOLEAN /\ owed' = {} /\ alt' \in [Direction -> {0, 1, 2}]
      BY <2>5 DEF BusReset
    <3>3. UNCHANGED <<streaming, previously, format, formatLatch, rateLatch>>
      BY <2>5 DEF BusReset
    <3> QED
      BY <2>1, <3>1, <3>2, <3>3 DEF BusTypes
  <2> QED
    BY <1>1, <2>2, <2>3, <2>4, <2>5 DEF TaskEvent
<1>2. CASE TaskDone
  <2>1. 0 \in 0..MaxEvents
    BY LifecycleAssumption DEF LifecycleConstants
  <2> QED
    BY <1>2, <2>1 DEF TaskDone, loopVars, busVars, DataTypes, BusTypes, FitRing
<1>3. CASE ServiceUsbLifecycle \/ ServiceRateChange \/ ServiceFormatChange
  <2>1. PICK dirs : Repriming(dirs)
    BY <1>3 DEF ServiceUsbLifecycle, ServiceRateChange, ServiceFormatChange
  <2>2. DataTypes'
    <3>1. Restarted(dirs, "Priming") /\ UNCHANGED <<outFifo, inFifo, pending>>
      BY <2>1 DEF Repriming, restOfLoop
    <3>2. FitRing(inputRing') /\ FitRing(outputRing')
      BY <1>0, <3>1, RestartFits
    <3> QED
      BY <3>1, <3>2, SettingsFit
  <2>3. owed' \subseteq Direction /\ UNCHANGED <<alt, asleep, streaming, format>>
    BY <2>1 DEF Repriming, BusTypes
  <2>4. turn' \in {"rate", "format", "OUT"} /\ drained' = drained
    BY <1>3 DEF ServiceUsbLifecycle, ServiceRateChange, ServiceFormatChange, Step
  <2>5. /\ previously' \in {previously, streaming}
        /\ formatLatch' \in BOOLEAN /\ rateLatch' \in BOOLEAN
    BY <1>3 DEF ServiceUsbLifecycle, ServiceRateChange, ServiceFormatChange, BusTypes
  <2> QED
    BY <2>2, <2>3, <2>4, <2>5 DEF BusTypes
<1>4. CASE DataOut \/ DataDsp \/ DataIn
  <2>1. format \in Format /\ CaptureOnly \in BOOLEAN
    BY DEF BusTypes, CaptureOnly
  <2>2. DataTypes'
    BY <1>4, <2>1, DataServicesFit DEF DataOut, DataDsp, DataIn
  <2>3. turn' \in {"DSP", "IN", "task"} /\ drained' = drained /\ UNCHANGED busVars
    BY <1>4 DEF DataOut, DataDsp, DataIn, Step
  <2> QED
    BY <2>2, <2>3 DEF busVars, BusTypes
<1>5. ASSUME NEW n \in 1..MaxPacket, SendPayload(n)
      PROVE  DataTypes' /\ BusTypes'
  <2> DEFINE fs == [i \in 1..n |-> Pcm]
             f == FormatOf(alt["OUT"])
  <2>1. fs \in Seq(Heard) /\ f \in Format
    BY Sizes DEF Heard, FormatOf, Format
  <2> HIDE DEF fs, f
  <2>2. outFifo' = outFifo \o Encode(fs, f) /\ Len(outFifo') <= FifoDepth
        /\ UNCHANGED <<inFifo, inputRing, outputRing, pending, turn, drained, busVars>>
    BY <1>5 DEF SendPayload, restOfLoop, fs, f
  <2>3. outFifo' \in Seq(HeardByte)
    BY <2>1, <2>2, HeardEncoded, Behind DEF DataTypes
  <2> QED
    BY <2>2, <2>3 DEF busVars, DataTypes, BusTypes, FitRing
<1>6. ASSUME NEW n \in 1..MaxPacket, TakePayload(n)
      PROVE  DataTypes' /\ BusTypes'
  <2> DEFINE w == n * BytesPerFrame(FormatOf(alt["IN"]))
             taken == Oldest(inFifo, w)
             rest == Rest(inFifo, w)
  <2>1. w \in Int
    <3>1. BytesPerFrame(FormatOf(alt["IN"])) \in {2, 3} /\ n \in Nat
      BY Sizes DEF BytesPerFrame
    <3> QED
      BY <3>1, Places
  <2>2. inFifo' = rest /\ UNCHANGED <<outFifo, inputRing, outputRing, pending, turn, drained, busVars>>
    BY <1>6 DEF TakePayload, restOfLoop
  <2> HIDE DEF w
  <2>3. taken \in Seq(HeardByte) /\ rest \in Seq(HeardByte) /\ taken \o rest = inFifo
    BY <2>1, Parted DEF DataTypes
  <2> HIDE DEF taken, rest
  <2>4. Len(rest) <= FifoDepth
    <3>1. Len(taken \o rest) = Len(taken) + Len(rest) /\ Len(taken) \in Nat /\ Len(rest) \in Nat
      BY <2>3, Behind
    <3>2. Len(taken \o rest) <= FifoDepth
      BY <2>3 DEF DataTypes
    <3> QED
      BY <3>1, <3>2, Sizes
  <2> QED
    BY <2>2, <2>3, <2>4 DEF busVars, DataTypes, BusTypes, FitRing
<1>7. CASE UNCHANGED vars
  BY <1>7 DEF vars, loopVars, busVars, DataTypes, BusTypes, FitRing
<1> QED
  BY <1>1, <1>2, <1>3, <1>4, <1>5, <1>6, <1>7 DEF Next, Services

\* No ring outgrows its slots, no FIFO its depth, and the carryover of a sink that
\* takes what it has room for stays empty, whatever the host sends, opens, closes,
\* switches and resets, in whatever format the bytes were meant: for every size,
\* any number of events in a pass, and a host that respects no format
\* (audio-ring.h:108-204, usb-in-path.h:392-470).
THEOREM LifecycleTypes ==
  ASSUME ~ShortAccepts
  PROVE  Spec => []TypeOK
<1>1. DataTypes /\ BusTypes => TypeOK
  BY DEF DataTypes, BusTypes, FitRing, Heard, TypeOK
<1>2. DataTypes /\ BusTypes /\ [Next]_vars => (DataTypes /\ BusTypes)'
  BY TypesKeep
<1> QED
  BY <1>1, <1>2, TypesBegin, PTL DEF Spec

-----------------------------------------------------------------------------
(* At the host's pace: what the constants give                             *)

\* The code's sizes, and rings with room for what they are there for.
PaceConstants == LoopConstants /\ PacedConstants /\ RoomyConstants

\* The sizes as numbers.
LEMMA PaceSizes ==
  ASSUME PaceConstants
  PROVE  /\ Bytes \in {2, 3} /\ BytesPerFrame(StreamFormat) = Bytes
         /\ Capacity \in Nat \ {0} /\ Block \in Nat \ {0} /\ MaxPacket \in Nat /\ MaxPacket >= Block
         /\ FifoDepth \in Nat \ {0} /\ StartupFill \in Nat /\ MaxJitter \in Nat
         /\ MinPasses \in Nat \ {0}
BY CapacityAssumption
   DEF PaceConstants, LoopConstants, PacedConstants, Bytes, BytesPerFrame

\* The bytes of whole frames.
Framed(m) == m % Bytes = 0

\* Bytes and frames: a whole number of frames is their bytes divided.
LEMMA FramedNumber ==
  ASSUME PaceConstants, NEW m \in Nat
  PROVE  m \div Bytes \in Nat /\ (Framed(m) => m = (m \div Bytes) * Bytes)
<1>1. CASE Bytes = 2
  BY <1>1, Z3 DEF Framed
<1>2. CASE Bytes = 3
  BY <1>2, Z3 DEF Framed
<1> QED
  BY <1>1, <1>2, PaceSizes

\* The bytes of m frames are m frames.
LEMMA FramedProduct ==
  ASSUME PaceConstants, NEW m \in Nat
  PROVE  m * Bytes \in Nat /\ Framed(m * Bytes) /\ (m * Bytes) \div Bytes = m
<1>1. CASE Bytes = 2
  BY <1>1, Z3 DEF Framed
<1>2. CASE Bytes = 3
  BY <1>2, Z3 DEF Framed
<1> QED
  BY <1>1, <1>2, PaceSizes

\* Frames add up as their bytes do, if the second part is whole.
LEMMA FramedSum ==
  ASSUME PaceConstants, NEW m \in Nat, NEW n \in Nat, Framed(n)
  PROVE  /\ Framed(m) => Framed(m + n)
         /\ (m + n) \div Bytes = (m \div Bytes) + (n \div Bytes)
<1>1. CASE Bytes = 2
  BY <1>1, Z3 DEF Framed
<1>2. CASE Bytes = 3
  BY <1>2, Z3 DEF Framed
<1> QED
  BY <1>1, <1>2, PaceSizes

\* More frames are more bytes.
LEMMA FramedOrder ==
  ASSUME PaceConstants, NEW m \in Nat, NEW n \in Nat
  PROVE  (m <= n => m * Bytes <= n * Bytes) /\ (m * Bytes <= n <=> m <= n \div Bytes)
<1>1. CASE Bytes = 2
  BY <1>1, Z3
<1>2. CASE Bytes = 3
  BY <1>2, Z3
<1> QED
  BY <1>1, <1>2, PaceSizes

-----------------------------------------------------------------------------
(* Frames and their bytes, counted                                         *)

\* What a ring may hold and a byte may belong to.
Note  == {Tone, Silence, Garbled}
Octet == [frame : Note, k : Nat, of : Nat]
Ring  == [held : Seq(Note), state : {"Priming", "Running"}]

Frames(b) == Len(b) \div Bytes
WholeFrames(b) == b \in Seq(Octet) /\ Framed(Len(b))

\* What a request for m frames takes and leaves.
LEMMA CutFrames ==
  ASSUME PaceConstants, NEW b, WholeFrames(b), NEW m \in Nat
  PROVE  /\ WholeFrames(Oldest(b, m * Bytes)) /\ Frames(Oldest(b, m * Bytes)) = Lesser(m, Frames(b))
         /\ WholeFrames(Rest(b, m * Bytes)) /\ Frames(Rest(b, m * Bytes)) = Frames(b) - Lesser(m, Frames(b))
         /\ Len(Rest(b, m * Bytes)) <= Len(b)
<1> DEFINE q == m * Bytes
           p == Lesser(q, Len(b))
           old == Oldest(b, q)
           rest == Rest(b, q)
<1>1. b \in Seq(Octet) /\ Len(b) \in Nat /\ Framed(Len(b))
  BY DEF WholeFrames
<1>2. q \in Nat /\ Framed(q) /\ q \div Bytes = m
  BY FramedProduct
<1>3. Positive(q) = q
  <2> HIDE DEF q
  <2> QED
    BY <1>2 DEF Positive
<1>4. Frames(b) \in Nat /\ Len(b) = Frames(b) * Bytes
  BY <1>1, FramedNumber DEF Frames
<1>5. q <= Len(b) <=> m <= Frames(b)
  BY <1>1, FramedOrder DEF Frames
<1> HIDE DEF q
<1>6. /\ old \in Seq(Octet) /\ rest \in Seq(Octet) /\ old \o rest = b
      /\ Len(old) = p
  <2>1. q \in Int
    BY <1>2
  <2> QED
    BY <1>1, <1>3, <2>1, Parted
<1> HIDE DEF old, rest
<1>7. Len(b) = Len(old) + Len(rest) /\ Len(rest) \in Nat /\ Len(old) \in Nat
  BY <1>6
<1>8. Framed(p) /\ p \in Nat /\ p \div Bytes = Lesser(m, Frames(b))
  <2>1. CASE q <= Len(b)
    <3>1. p = q /\ Lesser(m, Frames(b)) = m
      BY <1>1, <1>2, <1>4, <1>5, <2>1 DEF Lesser
    <3> QED
      BY <1>2, <3>1
  <2>2. CASE ~(q <= Len(b))
    <3>1. p = Len(b) /\ Lesser(m, Frames(b)) = Frames(b)
      BY <1>1, <1>2, <1>4, <1>5, <2>2 DEF Lesser
    <3> QED
      BY <1>1, <3>1 DEF Frames
  <2> QED
    BY <2>1, <2>2
<1> HIDE DEF p
<1>9. Frames(old) = Lesser(m, Frames(b)) /\ WholeFrames(old)
  BY <1>6, <1>8 DEF Frames, WholeFrames
<1>10. Framed(Len(rest))
  <2>1. Framed(Len(rest) + Len(old)) /\ Framed(Len(old))
    BY <1>1, <1>6, <1>7, <1>8
  <2>2. CASE Bytes = 2
    BY <1>7, <2>1, <2>2, Z3 DEF Framed
  <2>3. CASE Bytes = 3
    BY <1>7, <2>1, <2>3, Z3 DEF Framed
  <2> QED
    BY <2>2, <2>3, PaceSizes
<1>11. Frames(b) = Frames(old) + Frames(rest)
  <2>1. Len(b) = Len(old) + Len(rest)
    BY <1>7
  <2> QED
    BY <1>7, <1>10, <2>1, FramedSum DEF Frames
<1>12. Frames(old) \in Nat /\ Frames(rest) \in Nat
  BY <1>7, FramedNumber DEF Frames
<1>13. WholeFrames(rest) /\ Frames(rest) = Frames(b) - Lesser(m, Frames(b)) /\ Len(rest) <= Len(b)
  BY <1>4, <1>6, <1>7, <1>9, <1>10, <1>11, <1>12 DEF WholeFrames
<1> QED
  BY <1>9, <1>13 DEF old, rest, q

\* One queue of whole frames behind another.
LEMMA JoinedFrames ==
  ASSUME PaceConstants, NEW b, WholeFrames(b), NEW c, WholeFrames(c)
  PROVE  /\ WholeFrames(b \o c) /\ Frames(b \o c) = Frames(b) + Frames(c)
         /\ Len(b \o c) = Len(b) + Len(c)
<1>1. /\ b \o c \in Seq(Octet) /\ Len(b \o c) = Len(b) + Len(c) /\ Len(b) \in Nat /\ Len(c) \in Nat
  BY DEF WholeFrames
<1>2. Framed(Len(b)) /\ Framed(Len(c))
  BY DEF WholeFrames
<1>3. Framed(Len(b) + Len(c)) /\ (Len(b) + Len(c)) \div Bytes = Frames(b) + Frames(c)
  BY <1>1, <1>2, FramedSum DEF Frames
<1> QED
  BY <1>1, <1>3 DEF WholeFrames, Frames

\* What the converter writes is whole frames, as many as it was given.
LEMMA EncodedFrames ==
  ASSUME PaceConstants, NEW fs \in Seq(Note)
  PROVE  LET b == Encode(fs, StreamFormat)
         IN WholeFrames(b) /\ Frames(b) = Len(fs) /\ Len(b) = Len(fs) * Bytes
<1> DEFINE b == Encode(fs, StreamFormat)
           l == Len(fs) * Bytes
<1>1. Bytes \in {2, 3} /\ Len(fs) \in Nat /\ l \in Nat /\ Framed(l) /\ l \div Bytes = Len(fs)
  <2>1. Len(fs) \in Nat
    OBVIOUS
  <2> QED
    BY <2>1, PaceSizes, FramedProduct
<1>2. b = [j \in 1..l |-> WireByte(fs[((j - 1) \div Bytes) + 1], ((j - 1) % Bytes) + 1, Bytes)]
  BY PaceSizes DEF Encode
<1> HIDE DEF b
<1>3. ASSUME NEW j \in 1..l PROVE b[j] \in Octet
  <2>1. ((j - 1) \div Bytes) + 1 \in 1..Len(fs) /\ ((j - 1) % Bytes) + 1 \in Nat
    <3>1. CASE Bytes = 2
      BY <1>1, <3>1, Z3
    <3>2. CASE Bytes = 3
      BY <1>1, <3>2, Z3
    <3> QED
      BY <1>1, <3>1, <3>2
  <2> HIDE DEF l
  <2>2. fs[((j - 1) \div Bytes) + 1] \in Note
    BY <2>1
  <2>3. b[j] = WireByte(fs[((j - 1) \div Bytes) + 1], ((j - 1) % Bytes) + 1, Bytes)
    BY <1>2
  <2>4. Bytes \in Nat
    BY <1>1
  <2> QED
    BY <2>1, <2>2, <2>3, <2>4 DEF WireByte, Octet
<1> HIDE DEF l
<1>4. b \in Seq(Octet) /\ Len(b) = l
  BY <1>1, <1>2, <1>3
<1>5. WholeFrames(b) /\ Frames(b) = Len(fs)
  BY <1>1, <1>4 DEF WholeFrames, Frames
<1> QED
  BY <1>4, <1>5 DEF b, l

\* What it reads of whole frames is as many.
LEMMA DecodedFrames ==
  ASSUME PaceConstants, NEW b, WholeFrames(b)
  PROVE  Decode(b, StreamFormat) \in Seq(Note) /\ Len(Decode(b, StreamFormat)) = Frames(b)
<1> DEFINE F(i) == FrameOf(SubSeq(b, (i - 1) * Bytes + 1, i * Bytes))
           d == Decode(b, StreamFormat)
<1>1. Bytes \in {2, 3} /\ b \in Seq(Octet) /\ Len(b) \in Nat /\ Frames(b) \in Nat /\ Len(b) = Frames(b) * Bytes
  <2>1. b \in Seq(Octet) /\ Len(b) \in Nat /\ Framed(Len(b))
    BY DEF WholeFrames
  <2> QED
    BY <2>1, PaceSizes, FramedNumber DEF Frames
<1>2. d = [i \in 1..Frames(b) |-> F(i)]
  BY PaceSizes DEF Decode, Frames
<1>3. ASSUME NEW i \in 1..Frames(b) PROVE F(i) \in Note
  <2> DEFINE h == (i - 1) * Bytes
             sub == SubSeq(b, h + 1, h + Bytes)
  <2>1. h \in Nat /\ i * Bytes = h + Bytes /\ h + Bytes <= Len(b) /\ Bytes \in Nat
    <3>1. CASE Bytes = 2
      BY <1>1, <3>1
    <3>2. CASE Bytes = 3
      BY <1>1, <3>2
    <3> QED
      BY <1>1, <3>1, <3>2
  <2> HIDE DEF h
  <2>2. sub[1] = b[h + 1]
    <3>1. 1 \in 1..Bytes
      BY <1>1
    <3> QED
      BY <1>1, <2>1, <3>1, Slice
  <2>3. b[h + 1] \in Octet
    BY <1>1, <2>1
  <2> HIDE DEF sub
  <2>4. FrameOf(sub) \in Note
    BY <2>2, <2>3 DEF FrameOf, Note, Octet
  <2> QED
    BY <2>1, <2>4 DEF sub, h
<1> HIDE DEF F, d
<1>4. d \in Seq(Note) /\ Len(d) = Frames(b)
  BY <1>1, <1>2, <1>3
<1> QED
  BY <1>4 DEF d

-----------------------------------------------------------------------------
(* What the services do, counted in frames                                 *)

\* A write counted: what the ring holds, its state, and what it drops.
LEMMA RingWritten ==
  ASSUME PaceConstants, NEW ring \in Ring, NEW src \in Seq(Note)
  PROVE  /\ Written(ring, src) \in Ring
         /\ Len(Written(ring, src).held) = Lesser(Len(ring.held) + Len(src), Capacity)
         /\ Written(ring, src).state = Promoted(ring.state, Len(Written(ring, src).held), StartupFill)
         /\ Dropped(ring.held, src) > 0 <=> Len(ring.held) + Len(src) > Capacity
<1> DEFINE all == ring.held \o src
           p == Positive(Len(all) - Capacity)
           kept == SubSeq(all, p + 1, Len(all))
<1>1. all \in Seq(Note) /\ Len(all) = Len(ring.held) + Len(src) /\ Len(ring.held) \in Nat /\ Len(src) \in Nat
  BY DEF Ring
<1>2. Written(ring, src) = [held |-> kept, state |-> Promoted(ring.state, Len(kept), StartupFill)]
  BY DEF Written, Newest
<1> HIDE DEF all
<1>3. p \in Nat /\ p <= Len(all) /\ Len(all) - p = Lesser(Len(all), Capacity)
  <2>1. Len(all) \in Nat /\ Capacity \in Nat
    BY <1>1, PaceSizes
  <2>2. \A l, c \in Nat : /\ Positive(l - c) \in Nat /\ Positive(l - c) <= l
                         /\ l - Positive(l - c) = Lesser(l, c)
    BY DEF Positive, Lesser
  <2> QED
    BY <2>1, <2>2
<1> HIDE DEF p
<1>4. kept \in Seq(Note) /\ Len(kept) = Lesser(Len(all), Capacity)
  BY <1>1, <1>3
<1>5. Promoted(ring.state, Len(kept), StartupFill) \in {"Priming", "Running"}
  BY DEF Promoted, Ring
<1>6. Written(ring, src) \in Ring
  BY <1>2, <1>4, <1>5 DEF Ring
<1>7. Dropped(ring.held, src) > 0 <=> Len(ring.held) + Len(src) > Capacity
  BY <1>1, PaceSizes DEF Dropped, Positive
<1> HIDE DEF kept
<1> QED
  BY <1>1, <1>2, <1>4, <1>6, <1>7

\* A read counted: what the ring keeps and what it makes up.
LEMMA RingDrained ==
  ASSUME PaceConstants, NEW ring \in Ring, NEW n \in Nat
  PROVE  /\ Drained(ring, n) \in Ring /\ Drained(ring, n).state = ring.state
         /\ Len(Drained(ring, n).held) = Len(ring.held) - Lesser(n, Len(ring.held))
         /\ Drawn(ring, n) \in Seq(Note) /\ Len(Drawn(ring, n)) = n
         /\ Substituted(ring.held, n) > 0 <=> n > Len(ring.held)
<1> DEFINE old == Oldest(ring.held, n)
           rest == Rest(ring.held, n)
           made == Substituted(ring.held, n)
<1>1. ring.held \in Seq(Note) /\ Len(ring.held) \in Nat
  BY DEF Ring
<1>2. Positive(n) = n
  BY DEF Positive
<1>3. /\ old \in Seq(Note) /\ rest \in Seq(Note) /\ old \o rest = ring.held
      /\ Len(old) = Lesser(n, Len(ring.held))
  <2>1. n \in Int
    OBVIOUS
  <2> QED
    BY <1>1, <1>2, <2>1, Parted
<1> HIDE DEF old, rest
<1>4. Len(rest) = Len(ring.held) - Lesser(n, Len(ring.held))
  <2>1. Len(ring.held) = Len(old) + Len(rest) /\ Len(old) \in Nat /\ Len(rest) \in Nat
    BY <1>3
  <2> QED
    BY <1>3, <2>1
<1>5. Drained(ring, n) = [held |-> rest, state |-> ring.state]
  BY DEF Drained, Ring, rest
<1>6. Drained(ring, n) \in Ring
  BY <1>3, <1>5 DEF Ring
<1>7. made \in Nat /\ Len(old) + made = n /\ (made > 0 <=> n > Len(ring.held))
  BY <1>1, <1>2, <1>3 DEF Substituted, Lesser
<1> HIDE DEF made
<1>8. Quiet(made) \in Seq(Note) /\ Len(Quiet(made)) = made
  BY <1>7 DEF Quiet, Note
<1> DEFINE quiet == Quiet(made)
<1> HIDE DEF quiet
<1>9. old \o quiet \in Seq(Note) /\ Len(old \o quiet) = n
  <2>1. quiet \in Seq(Note) /\ Len(quiet) = made
    BY <1>8 DEF quiet
  <2>2. old \o quiet \in Seq(Note) /\ Len(old \o quiet) = Len(old) + Len(quiet)
    BY <1>3, <2>1, Behind
  <2> QED
    BY <1>7, <2>1, <2>2
<1>10. Drawn(ring, n) = old \o quiet
  BY DEF Drawn, old, made, quiet
<1> QED
  BY <1>4, <1>5, <1>6, <1>7, <1>9, <1>10 DEF made

Waiting == Frames(outFifo)

\* The data of a stream: whole frames in the FIFOs, and no carryover, since the
\* sink takes what it has room for.
PaceData ==
  /\ WholeFrames(outFifo) /\ WholeFrames(inFifo) /\ Len(inFifo) <= FifoDepth
  /\ inputRing \in Ring /\ outputRing \in Ring
  /\ pending = <<>> /\ coldStart \in BOOLEAN

\* A pass of the OUT path counted: it takes a packet or all that waits.
LEMMA OutCounted ==
  ASSUME PaceConstants, PaceData, ServiceOut(StreamFormat)
  PROVE  /\ PaceData'
         /\ Waiting' = Waiting - Lesser(MaxPacket, Waiting)
         /\ Len(inputRing'.held) = Lesser(Len(inputRing.held) + Lesser(MaxPacket, Waiting), Capacity)
         /\ inputRing'.state = Promoted(inputRing.state, Len(inputRing'.held), StartupFill)
         /\ fellBehind' = (fellBehind \/ Waiting' > MaxPacket)
         /\ stats' = Counted(Event(Len(inputRing.held) + Lesser(MaxPacket, Waiting) > Capacity, "inputOverruns"))
         /\ UNCHANGED <<inFifo, outputRing, pending, coldStart>>
<1> DEFINE payload == Oldest(outFifo, MaxPacket * Bytes)
           frames  == Decode(payload, StreamFormat)
<1>1. MaxPacket \in Nat
  BY PaceSizes
<1>2. /\ WholeFrames(payload) /\ Frames(payload) = Lesser(MaxPacket, Waiting)
      /\ WholeFrames(Rest(outFifo, MaxPacket * Bytes))
      /\ Frames(Rest(outFifo, MaxPacket * Bytes)) = Waiting - Lesser(MaxPacket, Waiting)
  BY <1>1, CutFrames DEF PaceData, Waiting
<1>3. frames \in Seq(Note) /\ Len(frames) = Lesser(MaxPacket, Waiting)
  BY <1>2, DecodedFrames
<1>4. /\ outFifo' = Rest(outFifo, MaxPacket * Bytes)
      /\ inputRing' = Written(inputRing, frames)
      /\ stats' = Counted(Event(Len(payload) % Bytes # 0, "malformedPayloads")
                            \cup Event(Dropped(inputRing.held, frames) > 0, "inputOverruns"))
      /\ fellBehind' = (fellBehind \/ Len(outFifo') > MaxPacket * Bytes)
      /\ UNCHANGED <<inFifo, outputRing, pending, coldStart>>
  BY DEF ServiceOut, MaxPayload, Bytes
<1>5. Len(payload) % Bytes = 0
  BY <1>2 DEF WholeFrames, Framed
<1> HIDE DEF payload, frames
<1>6. /\ inputRing' \in Ring /\ Len(inputRing'.held) = Lesser(Len(inputRing.held) + Len(frames), Capacity)
      /\ inputRing'.state = Promoted(inputRing.state, Len(inputRing'.held), StartupFill)
      /\ Dropped(inputRing.held, frames) > 0 <=> Len(inputRing.held) + Len(frames) > Capacity
  BY <1>3, <1>4, RingWritten DEF PaceData
<1>7. PaceData' /\ Waiting' = Waiting - Lesser(MaxPacket, Waiting)
  BY <1>2, <1>4, <1>6 DEF PaceData, Waiting, WholeFrames, Framed, Frames
<1>8. Len(outFifo') > MaxPacket * Bytes <=> Waiting' > MaxPacket
  <2>1. Len(outFifo') \in Nat /\ Framed(Len(outFifo'))
    BY <1>2, <1>4 DEF WholeFrames
  <2>2. Waiting' = Len(outFifo') \div Bytes
    BY <1>2, <1>4, <1>7 DEF Frames
  <2>3. CASE Bytes = 2
    BY <1>1, <2>1, <2>2, <2>3, Z3 DEF Framed
  <2>4. CASE Bytes = 3
    BY <1>1, <2>1, <2>2, <2>4, Z3 DEF Framed
  <2> QED
    BY <2>3, <2>4, PaceSizes
<1>9. stats' = Counted(Event(Len(inputRing.held) + Len(frames) > Capacity, "inputOverruns"))
  <2>1. Event(Len(payload) % Bytes # 0, "malformedPayloads") = {}
    BY <1>5 DEF Event
  <2>2. Event(Dropped(inputRing.held, frames) > 0, "inputOverruns")
          = Event(Len(inputRing.held) + Len(frames) > Capacity, "inputOverruns")
    BY <1>6 DEF Event
  <2> QED
    BY <1>4, <2>1, <2>2
<1> QED
  BY <1>3, <1>4, <1>6, <1>7, <1>8, <1>9

\* A pass of the DSP path counted: a block moves or nothing does.
LEMMA DspCounted ==
  ASSUME PaceConstants, PaceData, ServiceDsp
  PROVE  /\ PaceData'
         /\ UNCHANGED <<outFifo, inFifo, pending, coldStart, fellBehind>>
         /\ \/ /\ BlockReady
               /\ Len(inputRing'.held) = Len(inputRing.held) - Block
               /\ inputRing'.state = inputRing.state
               /\ Len(outputRing'.held) = Lesser(Len(outputRing.held) + Block, Capacity)
               /\ outputRing'.state = Promoted(outputRing.state, Len(outputRing'.held), StartupFill)
               /\ stats' = Counted(Event(Len(outputRing.held) + Block > Capacity, "outputOverruns"))
            \/ ~BlockReady /\ UNCHANGED <<inputRing, outputRing, stats>>
<1>1. CASE RunBlock
  <2> DEFINE block == Drawn(inputRing, Block)
  <2>1. Block \in Nat /\ inputRing \in Ring /\ outputRing \in Ring /\ Len(inputRing.held) \in Nat
    BY PaceSizes DEF PaceData, Ring
  <2>2. BlockReady /\ Block <= Len(inputRing.held)
    BY <1>1, <2>1 DEF RunBlock, BlockReady
  <2>3. /\ inputRing' \in Ring /\ inputRing'.state = inputRing.state
        /\ Len(inputRing'.held) = Len(inputRing.held) - Lesser(Block, Len(inputRing.held))
        /\ block \in Seq(Note) /\ Len(block) = Block
        /\ Substituted(inputRing.held, Block) > 0 <=> Block > Len(inputRing.held)
    BY <1>1, <2>1, RingDrained DEF RunBlock
  <2>4. outputRing' = Written(outputRing, block)
    BY <1>1 DEF RunBlock
  <2>5. stats' = Counted(Event(Substituted(inputRing.held, Block) > 0, "inputUnderruns")
                           \cup Event(Dropped(outputRing.held, block) > 0, "outputOverruns"))
    BY <1>1 DEF RunBlock
  <2> HIDE DEF block
  <2>6. /\ outputRing' \in Ring /\ Len(outputRing'.held) = Lesser(Len(outputRing.held) + Len(block), Capacity)
        /\ outputRing'.state = Promoted(outputRing.state, Len(outputRing'.held), StartupFill)
        /\ Dropped(outputRing.held, block) > 0 <=> Len(outputRing.held) + Len(block) > Capacity
    BY <2>1, <2>3, <2>4, RingWritten
  <2>7. Len(inputRing'.held) = Len(inputRing.held) - Block
    <3>1. Lesser(Block, Len(inputRing.held)) = Block
      BY <2>1, <2>2 DEF Lesser
    <3> QED
      BY <2>3, <3>1
  <2>8. stats' = Counted(Event(Len(outputRing.held) + Block > Capacity, "outputOverruns"))
    <3>1. Event(Substituted(inputRing.held, Block) > 0, "inputUnderruns") = {}
      BY <2>1, <2>2, <2>3 DEF Event
    <3>2. Event(Dropped(outputRing.held, block) > 0, "outputOverruns")
            = Event(Len(outputRing.held) + Block > Capacity, "outputOverruns")
      BY <2>3, <2>6 DEF Event
    <3> QED
      BY <2>5, <3>1, <3>2
  <2>9. UNCHANGED <<outFifo, inFifo, pending, coldStart, fellBehind>>
    BY <1>1 DEF RunBlock
  <2>10. PaceData'
    BY <2>3, <2>6, <2>9 DEF PaceData, WholeFrames, Framed
  <2> QED
    BY <2>2, <2>3, <2>6, <2>7, <2>8, <2>9, <2>10
<1>2. CASE SkipBlock
  <2>1. ~BlockReady /\ UNCHANGED loopVars
    BY <1>2 DEF SkipBlock
  <2>2. PaceData'
    BY <2>1 DEF PaceData, WholeFrames, Framed, loopVars
  <2> QED
    BY <2>1, <2>2 DEF loopVars
<1> QED
  BY <1>1, <1>2 DEF ServiceDsp

\* The frames the IN FIFO has room for.
LEMMA RoomCounted ==
  ASSUME PaceConstants, PaceData
  PROVE  /\ Level \in Nat /\ FifoFrames \in Nat /\ Level <= FifoFrames /\ InRoom \in Nat
         /\ RoomFrames(StreamFormat) = Lesser(FifoFrames - Level, MaxPacket)
         /\ \A m \in Nat : m <= FifoFrames - Level => m * Bytes <= InRoom
<1>1. Len(inFifo) \in Nat /\ Framed(Len(inFifo)) /\ Len(inFifo) <= FifoDepth /\ FifoDepth \in Nat
  BY PaceSizes DEF PaceData, WholeFrames
<1>2. InRoom \in Nat /\ InRoom + Len(inFifo) = FifoDepth
  BY <1>1 DEF InRoom
<1>3. FifoFrames = (InRoom \div Bytes) + Level
  <2>1. (InRoom + Len(inFifo)) \div Bytes = (InRoom \div Bytes) + (Len(inFifo) \div Bytes)
    BY <1>1, <1>2, FramedSum
  <2> QED
    BY <1>2, <2>1 DEF FifoFrames, Level
<1>4. Level \in Nat /\ InRoom \div Bytes \in Nat
  BY <1>1, <1>2, FramedNumber DEF Level
<1>5. FifoFrames - Level = InRoom \div Bytes
  BY <1>3, <1>4
<1>6. RoomFrames(StreamFormat) = Lesser(FifoFrames - Level, MaxPacket)
  BY <1>5, PaceSizes DEF RoomFrames
<1>7. ASSUME NEW m \in Nat, m <= FifoFrames - Level PROVE m * Bytes <= InRoom
  BY <1>2, <1>5, <1>7, FramedOrder
<1> QED
  BY <1>2, <1>3, <1>4, <1>6, <1>7

\* A pass of the IN path counted: it waits for its ring, or finds no room, or pulls.
LEMMA InCounted ==
  ASSUME PaceConstants, PaceData, ServiceIn(FALSE, StreamFormat)
  PROVE  /\ PaceData' /\ UNCHANGED <<outFifo, inputRing, fellBehind>>
         /\ \/ /\ outputRing.state # "Running" /\ coldStart'
               /\ UNCHANGED <<inFifo, outputRing, stats>>
            \/ /\ outputRing.state = "Running"
               /\ Level = FifoFrames \/ MaxPacket = 0
               /\ UNCHANGED <<inFifo, outputRing, coldStart, stats>>
            \/ /\ outputRing.state = "Running"
               /\ coldStart' = StillCold
               /\ PullSize(StreamFormat) \in Nat
               /\ Level' = Level + PullSize(StreamFormat)
               /\ outputRing'.state = outputRing.state
               /\ Len(outputRing'.held) =
                    Len(outputRing.held) - Lesser(PullSize(StreamFormat), Len(outputRing.held))
               /\ stats' = Counted(Event(PullSize(StreamFormat) > Len(outputRing.held), "outputUnderruns"))
<1>1. CASE AwaitRunning
  <2>1. PaceData'
    BY <1>1 DEF AwaitRunning, PaceData, WholeFrames, Framed
  <2> QED
    BY <1>1, <2>1 DEF AwaitRunning
<1>2. CASE AwaitRoom(StreamFormat)
  <2>1. outputRing.state = "Running" /\ RoomFrames(StreamFormat) = 0 /\ UNCHANGED loopVars
    BY <1>2 DEF AwaitRoom
  <2>2. Level = FifoFrames \/ MaxPacket = 0
    BY <2>1, RoomCounted, PaceSizes DEF Lesser
  <2>3. PaceData'
    BY <2>1 DEF PaceData, WholeFrames, Framed, loopVars
  <2> QED
    BY <2>1, <2>2, <2>3 DEF loopVars
<1>3. CASE PullFrames(StreamFormat)
  <2> DEFINE n == PullSize(StreamFormat)
             frames == Drawn(outputRing, n)
             b == Encode(frames, StreamFormat)
  <2>1. /\ outputRing \in Ring /\ Len(outputRing.held) \in Nat /\ WholeFrames(inFifo)
    BY DEF PaceData, Ring
  <2>2. RoomFrames(StreamFormat) \in Nat /\ RoomFrames(StreamFormat) <= FifoFrames - Level
    <3>1. /\ FifoFrames - Level \in Nat /\ MaxPacket \in Nat
          /\ RoomFrames(StreamFormat) = Lesser(FifoFrames - Level, MaxPacket)
      BY RoomCounted, PaceSizes
    <3>2. \A l, c \in Nat : Lesser(l, c) \in Nat /\ Lesser(l, c) <= l
      BY DEF Lesser
    <3> QED
      BY <3>1, <3>2
  <2>3. n \in Nat /\ n <= FifoFrames - Level
    <3>1. n = RoomFrames(StreamFormat) \/ n = Lesser(RoomFrames(StreamFormat), Len(outputRing.held))
      BY DEF PullSize
    <3>2. \A l, c \in Nat : Lesser(l, c) \in Nat /\ Lesser(l, c) <= l
      BY DEF Lesser
    <3>3. FifoFrames \in Nat /\ Level \in Nat
      BY RoomCounted
    <3>4. RoomFrames(StreamFormat) \in Nat /\ Len(outputRing.held) \in Nat
      BY <2>1, <2>2
    <3> HIDE DEF n
    <3>5. n \in Nat /\ n <= RoomFrames(StreamFormat)
      <4>1. RoomFrames(StreamFormat) <= RoomFrames(StreamFormat)
        BY <3>4
      <4> QED
        BY <3>1, <3>2, <3>4, <4>1, Zenon
    <3> QED
      BY <2>2, <3>3, <3>4, <3>5
  <2>4. /\ outputRing.state = "Running" /\ coldStart' = StillCold
        /\ outputRing' = Drained(outputRing, n)
        /\ stats' = Counted(Event(Substituted(outputRing.held, n) > 0, "outputUnderruns"))
        /\ Offer(b)
        /\ UNCHANGED <<outFifo, inputRing, fellBehind>>
    BY <1>3 DEF PullFrames
  <2> HIDE DEF n
  <2>5. /\ outputRing' \in Ring /\ outputRing'.state = outputRing.state
        /\ Len(outputRing'.held) = Len(outputRing.held) - Lesser(n, Len(outputRing.held))
        /\ frames \in Seq(Note) /\ Len(frames) = n
        /\ Substituted(outputRing.held, n) > 0 <=> n > Len(outputRing.held)
    BY <2>1, <2>3, <2>4, RingDrained
  <2> HIDE DEF frames
  <2>6. WholeFrames(b) /\ Frames(b) = n /\ Len(b) = n * Bytes
    BY <2>5, EncodedFrames
  <2> HIDE DEF b
  <2>7. Len(b) <= InRoom /\ InRoom \in Nat /\ Len(b) \in Nat /\ b \in Seq(Octet)
    BY <2>3, <2>6, RoomCounted DEF WholeFrames
  <2>8. inFifo' = inFifo \o b /\ pending' = <<>>
    <3>1. Accepted(b) = {Len(b)}
      BY <2>7 DEF Accepted, PaceConstants, RoomyConstants, Lesser
    <3>2. inFifo' = inFifo \o Oldest(b, Len(b)) /\ pending' = Rest(b, Len(b))
      BY <2>4, <3>1 DEF Offer
    <3>3. Lesser(Positive(Len(b)), Len(b)) = Len(b)
      BY <2>7 DEF Lesser, Positive
    <3>4. SubSeq(b, 1, Len(b)) = b /\ SubSeq(b, Len(b) + 1, Len(b)) = <<>>
      BY <2>7
    <3> QED
      BY <3>2, <3>3, <3>4 DEF Oldest, Rest
  <2>9. /\ WholeFrames(inFifo') /\ Frames(inFifo') = Frames(inFifo) + n
        /\ Len(inFifo') = Len(inFifo) + Len(b)
    BY <2>1, <2>6, <2>8, JoinedFrames
  <2>10. Len(inFifo') <= FifoDepth
    <3>1. Len(inFifo) \in Nat /\ FifoDepth \in Nat
      BY <2>1, PaceSizes DEF WholeFrames
    <3> QED
      BY <2>7, <2>9, <3>1 DEF InRoom
  <2>11. coldStart' \in BOOLEAN
    BY <2>4 DEF StillCold
  <2>12. PaceData'
    BY <2>4, <2>5, <2>8, <2>9, <2>10, <2>11 DEF PaceData, WholeFrames, Framed
  <2>13. Level' = Level + n
    BY <2>9 DEF Level, Frames
  <2>14. stats' = Counted(Event(n > Len(outputRing.held), "outputUnderruns"))
    <3>1. Event(Substituted(outputRing.held, n) > 0, "outputUnderruns")
            = Event(n > Len(outputRing.held), "outputUnderruns")
      BY <2>5 DEF Event
    <3> QED
      BY <2>4, <3>1
  <2> QED
    BY <2>3, <2>4, <2>5, <2>12, <2>13, <2>14 DEF n
<1>4. ~FlushCarryover
  BY DEF PaceData, FlushCarryover
<1> QED
  BY <1>1, <1>2, <1>3, <1>4 DEF ServiceIn

-----------------------------------------------------------------------------
(* The inductive invariant                                                 *)

PaceCourse ==
  /\ rate \in Rates /\ slot \in DOMAIN rate.out /\ ahead \in -MaxJitter..MaxJitter
  /\ due \in SUBSET Transactions /\ passes \in 0..MinPasses
  /\ passTurn \in {"OUT", "DSP", "IN"}

\* The next transaction of this kind may come at once: the loop has had all
\* the passes it can count on since the last.
Expected(kind) == kind \in due \/ (due = {} /\ passes = MinPasses)

\* What may have arrived, or gone, since the loop last saw to it.
Fresh(kind, n) == IF Expected(kind) THEN 0 ELSE n

\* The loop is never a packet behind the host when the next one comes.
Backlog == Waiting <= (IF passTurn = "OUT" THEN MaxPacket ELSE 0) + Fresh("OUT", MaxPacket)

\* What the DSP path has before it, over what the host has sent in advance: the
\* fill or less than a block, the jitter, and the packets it has not got to.
InputBound == StartupFill - 1 + MaxJitter + MaxPacket - Block
InputBounded ==
  /\ inputRing.state = "Priming" => Len(inputRing.held) < StartupFill
  /\ Waiting + Len(inputRing.held) - ahead
       <= InputBound + (IF passTurn = "IN" THEN 0 ELSE Block) + Fresh("OUT", Block)

\* The output ring starts above its fill and the cold start ends with the first
\* pull; from then on the IN FIFO has a packet whenever the host may ask for it.
Cushion ==
  /\ wire \in {"idle", "flowing"}
  /\ Level > 0 \/ wire # "idle" => outputRing.state = "Running" /\ ~coldStart
  /\ outputRing.state = "Priming" => /\ Len(outputRing.held) % Block = 0
                                     /\ Len(outputRing.held) < StartupFill
  /\ outputRing.state = "Running" /\ coldStart => passTurn = "IN" /\ Len(outputRing.held) > StartupFill
  /\ wire # "idle" /\ Expected("IN") => Level >= MaxPacket

\* The output ring holds more than its fill only when the IN FIFO is full but
\* for the packet that has just gone.
OutputHeld ==
  \/ Len(outputRing.held) <= StartupFill - 1 + (IF passTurn = "IN" THEN Block ELSE 0)
  \/ FifoFrames - Level <= Fresh("IN", MaxPacket)

\* Everything in the adapter.  Below a well filled FIFO the other bounds bound
\* it; above, flow control relieves it of what the host sends.
Total == Waiting + Len(inputRing.held) + Len(outputRing.held) + Level - ahead
TotalBound == InputBound + 2 * Block + StartupFill - 1 + (FifoFrames \div 2) + (rate.in[3] - rate.in[2])
TotalBounded ==
  /\ due = {"IN"} => Total <= TotalBound + Relief(rate)
  /\ due = {"OUT"} => Total <= TotalBound - Relief(rate)
  /\ due # {"IN"} /\ due # {"OUT"} => Total <= TotalBound

PaceInv ==
  /\ PaceData /\ PaceCourse
  /\ Backlog /\ InputBounded /\ Cushion /\ OutputHeld /\ TotalBounded
  /\ NothingLost /\ KeepsUpWithTheHost

\* The counts as numbers.
LEMMA PaceNumbers ==
  ASSUME PaceConstants, PaceData
  PROVE  /\ Waiting \in Nat /\ Len(inputRing.held) \in Nat /\ Len(outputRing.held) \in Nat
         /\ inputRing.state \in {"Priming", "Running"} /\ outputRing.state \in {"Priming", "Running"}
         /\ Level \in Nat /\ FifoFrames \in Nat /\ Level <= FifoFrames
<1>1. Waiting \in Nat
  <2>1. Len(outFifo) \in Nat
    BY DEF PaceData, WholeFrames
  <2> QED
    BY <2>1, FramedNumber DEF Waiting, Frames
<1>2. Level \in Nat /\ FifoFrames \in Nat /\ Level <= FifoFrames
  BY RoomCounted
<1> QED
  BY <1>1, <1>2 DEF PaceData, Ring

\* The rings' room, their fill and the FIFO's depth.
LEMMA RoomyRings ==
  ASSUME PaceConstants
  PROVE  /\ StartupFill >= MaxPacket
         /\ StartupFill + 2 * MaxJitter + MaxPacket + Block <= Capacity
         /\ 2 * (StartupFill + MaxJitter + MaxPacket) + Block <= Capacity + (FifoFrames \div 2)
BY DEF PaceConstants, RoomyConstants

\* The FIFO's depth and its half.
LEMMA RoomyFifo ==
  ASSUME PaceConstants
  PROVE  /\ FifoFrames \in Nat /\ FifoFrames \div 2 \in Nat /\ FifoFrames >= 2 * MaxPacket
         /\ FifoFrames \div 2 >= MaxPacket /\ 2 * (FifoFrames \div 2) <= FifoFrames
<1>1. FifoFrames \in Nat
  BY PaceSizes, FramedNumber DEF FifoFrames
<1>2. FifoFrames >= 2 * MaxPacket
  BY DEF PaceConstants, RoomyConstants
<1>3. /\ FifoFrames \div 2 \in Nat /\ FifoFrames \div 2 >= MaxPacket /\ 2 * (FifoFrames \div 2) <= FifoFrames
  BY <1>1, <1>2, PaceSizes, Z3
<1> QED
  BY <1>1, <1>2, <1>3

\* The bound on the input side, opened.
LEMMA BoundsAre ==
  ASSUME PaceConstants
  PROVE  InputBound \in Int /\ InputBound = StartupFill - 1 + MaxJitter + MaxPacket - Block
BY PaceSizes DEF InputBound

\* The host's advance as a number.
LEMMA AheadBounded ==
  ASSUME PaceConstants, PaceCourse
  PROVE  ahead \in Int /\ -MaxJitter <= ahead /\ ahead <= MaxJitter
BY PaceSizes DEF PaceCourse

\* An element of a sequence.
LEMMA ElementIn ==
  ASSUME NEW S, NEW s \in Seq(S), NEW i \in 1..Len(s)
  PROVE  s[i] \in S
OBVIOUS

\* The packets of a rate as numbers.
LEMMA RateNumbers ==
  ASSUME PaceConstants, PaceCourse
  PROVE  /\ rate.in[1] \in 1..MaxPacket /\ rate.in[2] \in 1..MaxPacket /\ rate.in[3] \in 1..MaxPacket
         /\ rate.in[2] <= rate.in[3] /\ rate.in[3] <= rate.in[2] + 1
         /\ Relief(rate) \in {rate.in[2], rate.in[3]} /\ Relief(rate) <= Block
         /\ rate.out[slot] \in 0..MaxPacket /\ rate.out[slot] <= Relief(rate)
<1>1. rate \in Rates /\ slot \in DOMAIN rate.out
  BY DEF PaceCourse
<1>2. rate.in \in Seq(1..MaxPacket) /\ Len(rate.in) = 3 /\ rate.out \in Seq(0..MaxPacket)
  BY <1>1 DEF PaceConstants, PacedConstants
<1>3. \A r \in Rates : /\ \A i \in DOMAIN r.out : r.out[i] <= Relief(r)
                      /\ Relief(r) <= Block
                      /\ r.in[2] <= r.in[3] /\ r.in[3] <= r.in[2] + 1
  BY Zenon DEF PaceConstants, RoomyConstants
<1>4. /\ rate.out[slot] <= Relief(rate)
      /\ Relief(rate) <= Block /\ rate.in[2] <= rate.in[3] /\ rate.in[3] <= rate.in[2] + 1
  BY <1>1, <1>3
<1>5. rate.in[1] \in 1..MaxPacket /\ rate.in[2] \in 1..MaxPacket /\ rate.in[3] \in 1..MaxPacket
  <2>1. 1 \in 1..Len(rate.in) /\ 2 \in 1..Len(rate.in) /\ 3 \in 1..Len(rate.in)
    BY <1>2
  <2> QED
    BY <1>2, <2>1, ElementIn
<1>6. rate.out[slot] \in 0..MaxPacket
  <2>1. slot \in 1..Len(rate.out)
    BY <1>1, <1>2
  <2> QED
    BY <1>2, <2>1, ElementIn
<1>7. Relief(rate) \in {rate.in[2], rate.in[3]}
  BY DEF Relief
<1> QED
  BY <1>4, <1>5, <1>6, <1>7

\* A service leaves the host's side alone.
LEMMA ServedCourse ==
  ASSUME PaceConstants, PaceCourse, NEW service \in {"OUT", "DSP", "IN"}, NEW next \in {"OUT", "DSP", "IN"},
         Serve(service, next)
  PROVE  /\ PaceCourse' /\ passTurn = service /\ passTurn' = next
         /\ UNCHANGED <<rate, due, ahead, wire>>
         /\ \A kind : Expected(kind) => Expected(kind)'
         /\ service # "IN" => \A kind : Expected(kind)' <=> Expected(kind)
<1>1. /\ passTurn = service /\ passTurn' = next /\ UNCHANGED <<rate, first, due, slot, ahead, wire>>
      /\ passes' = IF service = "IN" THEN Lesser(passes + 1, MinPasses) ELSE passes
  BY DEF Serve
<1>2. passes' \in 0..MinPasses /\ (passes = MinPasses => passes' = MinPasses)
  BY <1>1, PaceSizes DEF PaceCourse, Lesser
<1> QED
  BY <1>1, <1>2 DEF PaceCourse, Expected

\* Nothing is counted.
LEMMA Uncounted ==
  ASSUME NothingLost, NEW happened \in SUBSET {"outputUnderruns"}, stats' = Counted(happened)
  PROVE  NothingLost'
BY DEF NothingLost, Counted, Counters

\* Lesser, of natural numbers.
LEMMA Lessened ==
  \A l, c \in Nat : /\ Lesser(l, c) \in Nat /\ Lesser(l, c) <= l /\ Lesser(l, c) <= c
                    /\ Lesser(l, c) = l \/ Lesser(l, c) = c
                    /\ l <= c => Lesser(l, c) = l
                    /\ c <= l => Lesser(l, c) = c
BY DEF Lesser

\* Whole blocks and one more.
LEMMA AnotherBlock ==
  ASSUME NEW n \in Nat, NEW d \in Nat \ {0}
  PROVE  n % d = 0 => (n + d) % d = 0
<1> DEFINE q == n \div d
           p == (n + d) \div d
           r == (n + d) % d
<1>1. q \in Int /\ p \in Int /\ r \in Int /\ 0 <= r /\ r < d
  BY Z3
<1>2. n % d = 0 => n = q * d
  BY Z3
<1>3. n + d = p * d + r
  BY Z3
<1> HIDE DEF q, p, r
<1>4. SUFFICES ASSUME n = q * d PROVE r = 0
  BY <1>2 DEF r
<1>5. (q + 1 - p) * d = r
  BY <1>1, <1>3, <1>4, Z3
<1> DEFINE k == q + 1 - p
<1>6. k \in Int /\ k * d = r
  BY <1>1, <1>5
<1> HIDE DEF k
<1>7. CASE k >= 1
  BY <1>1, <1>6, <1>7, Z3
<1>8. CASE k <= -1
  BY <1>1, <1>6, <1>8, Z3
<1>9. CASE k = 0
  BY <1>6, <1>9, Z3
<1> QED
  BY <1>6, <1>7, <1>8, <1>9

\* OUT: the packet that waits moves to the input ring, which has room for it.
LEMMA OutPaced ==
  ASSUME PaceConstants, PaceInv, Serve("OUT", "DSP"), ServiceOut(StreamFormat)
  PROVE  PaceInv'
<1> DEFINE w == Waiting
           h == Len(inputRing.held)
           r == Lesser(MaxPacket, w)
<1>1. PaceData /\ PaceCourse
  BY DEF PaceInv
<1>2. /\ PaceCourse' /\ passTurn = "OUT" /\ passTurn' = "DSP" /\ UNCHANGED <<rate, due, ahead, wire>>
      /\ \A kind : Expected(kind)' <=> Expected(kind)
  BY <1>1, ServedCourse
<1>3. /\ PaceData'
      /\ Waiting' = w - r
      /\ Len(inputRing'.held) = Lesser(h + r, Capacity)
      /\ inputRing'.state = Promoted(inputRing.state, Len(inputRing'.held), StartupFill)
      /\ fellBehind' = (fellBehind \/ Waiting' > MaxPacket)
      /\ stats' = Counted(Event(h + r > Capacity, "inputOverruns"))
      /\ UNCHANGED <<inFifo, outputRing, pending, coldStart>>
  BY <1>1, OutCounted
<1>4. w \in Nat /\ h \in Nat /\ inputRing.state \in {"Priming", "Running"}
  BY <1>1, PaceNumbers
<1>5. UNCHANGED <<Level, Len(outputRing.held)>>
  BY <1>3 DEF Level
<1> HIDE DEF w, h
<1>6. r \in Nat /\ r <= w /\ r <= MaxPacket /\ (r = w \/ r = MaxPacket)
  BY <1>4, PaceSizes DEF Lesser
<1> HIDE DEF r
<1>7. Fresh("OUT", MaxPacket)' = Fresh("OUT", MaxPacket) /\ Fresh("OUT", Block)' = Fresh("OUT", Block)
      /\ Fresh("OUT", MaxPacket) \in 0..MaxPacket /\ Fresh("OUT", Block) \in 0..Block
  BY <1>2, PaceSizes DEF Fresh
<1>8. w <= MaxPacket + Fresh("OUT", MaxPacket)
  BY <1>2 DEF PaceInv, Backlog, w
<1>9. w - r <= Fresh("OUT", MaxPacket)
  BY <1>4, <1>6, <1>7, <1>8, PaceSizes
<1>10. Backlog'
  BY <1>2, <1>3, <1>7, <1>9 DEF Backlog
<1>11. KeepsUpWithTheHost'
  <2>1. ~(Waiting' > MaxPacket)
    BY <1>3, <1>4, <1>6, <1>7, <1>9, PaceSizes
  <2> QED
    BY <1>3, <2>1 DEF PaceInv, KeepsUpWithTheHost
<1>12. w + h - ahead <= InputBound + Block + Fresh("OUT", Block)
  BY <1>2 DEF PaceInv, InputBounded, w, h
<1>13. h + r <= Capacity
  <2>1. StartupFill + 2 * MaxJitter + MaxPacket + Block <= Capacity
    BY RoomyRings
  <2>2. ahead \in Int /\ ahead <= MaxJitter
    BY <1>1, AheadBounded
  <2>3. w + h <= StartupFill - 1 + MaxJitter + MaxPacket + Block + ahead
    BY <1>4, <1>7, <1>12, <2>2, PaceSizes DEF InputBound
  <2> QED
    BY <1>4, <1>6, <2>1, <2>2, <2>3, PaceSizes
<1>14. Len(inputRing'.held) = h + r
  <2>1. h + r \in Nat /\ Capacity \in Nat /\ h + r <= Capacity
    BY <1>4, <1>6, <1>13, PaceSizes
  <2>2. Lesser(h + r, Capacity) = h + r
    BY <2>1, Lessened, Zenon
  <2> QED
    BY <1>3, <2>2
<1>15. Waiting' + Len(inputRing'.held) = w + h
  BY <1>3, <1>4, <1>6, <1>14
<1>16. InputBounded'
  <2>1. inputRing'.state = "Priming" => Len(inputRing'.held) < StartupFill
    <3>1. Len(inputRing'.held) \in Nat /\ StartupFill \in Nat
      BY <1>4, <1>6, <1>14, PaceSizes
    <3>2. inputRing'.state = "Priming" => ~(Len(inputRing'.held) >= StartupFill)
      BY <1>3, <1>4 DEF Promoted
    <3> QED
      BY <3>1, <3>2
  <2>2. Waiting' + Len(inputRing'.held) - ahead' <= InputBound + Block + Fresh("OUT", Block)'
    <3>1. ahead' = ahead /\ Fresh("OUT", Block)' = Fresh("OUT", Block)
      BY <1>2, <1>7
    <3>2. Waiting' + Len(inputRing'.held) - ahead' = w + h - ahead
      <4>1. Waiting' \in Nat /\ Len(inputRing'.held) \in Nat /\ ahead \in Int
        BY <1>1, <1>3, <1>4, <1>6, <1>14, AheadBounded
      <4> QED
        BY <1>4, <1>15, <3>1, <4>1
    <3>3. Waiting' + Len(inputRing'.held) - ahead' <= InputBound + Block + Fresh("OUT", Block)
      BY <1>12, <3>2
    <3> QED
      BY <3>1, <3>3
  <2> QED
    BY <1>2, <2>1, <2>2 DEF InputBounded
<1>17. Cushion'
  BY <1>2, <1>3, <1>5 DEF PaceInv, Cushion
<1>18. OutputHeld'
  BY <1>2, <1>3, <1>5 DEF PaceInv, OutputHeld, Fresh
<1>19. Total' = Total
  BY <1>2, <1>5, <1>15 DEF Total, w, h
<1>20. TotalBounded'
  BY <1>2, <1>19 DEF PaceInv, TotalBounded, TotalBound, Relief, Fractional
<1>21. NothingLost'
  <2>1. stats' = Counted({})
    BY <1>3, <1>4, <1>6, <1>13, PaceSizes DEF Event
  <2> QED
    BY <2>1, Uncounted DEF PaceInv
<1> QED
  BY <1>2, <1>3, <1>10, <1>11, <1>16, <1>17, <1>18, <1>20, <1>21 DEF PaceInv

\* DSP: a block moves on, and a ring that starts does so above its fill.
LEMMA DspPaced ==
  ASSUME PaceConstants, PaceInv, Serve("DSP", "IN"), ServiceDsp
  PROVE  PaceInv'
<1> DEFINE w == Waiting
           h == Len(inputRing.held)
           o == Len(outputRing.held)
           l == Level
<1>1. PaceData /\ PaceCourse
  BY DEF PaceInv
<1>2. /\ PaceCourse' /\ passTurn = "DSP" /\ passTurn' = "IN" /\ UNCHANGED <<rate, due, ahead, wire>>
      /\ \A kind : Expected(kind)' <=> Expected(kind)
  BY <1>1, ServedCourse
<1>3. /\ PaceData'
      /\ UNCHANGED <<outFifo, inFifo, pending, coldStart, fellBehind>>
      /\ \/ /\ BlockReady
            /\ Len(inputRing'.held) = h - Block
            /\ inputRing'.state = inputRing.state
            /\ Len(outputRing'.held) = Lesser(o + Block, Capacity)
            /\ outputRing'.state = Promoted(outputRing.state, Len(outputRing'.held), StartupFill)
            /\ stats' = Counted(Event(o + Block > Capacity, "outputOverruns"))
         \/ ~BlockReady /\ UNCHANGED <<inputRing, outputRing, stats>>
  BY <1>1, DspCounted
<1>4. /\ w \in Nat /\ h \in Nat /\ o \in Nat /\ l \in Nat /\ FifoFrames \in Nat /\ l <= FifoFrames
      /\ inputRing.state \in {"Priming", "Running"} /\ outputRing.state \in {"Priming", "Running"}
  BY <1>1, PaceNumbers
<1>5. Waiting' = w /\ Level' = l
  BY <1>3 DEF Level, Waiting, Frames
<1>6. ahead \in Int /\ -MaxJitter <= ahead /\ ahead <= MaxJitter
  BY <1>1, AheadBounded
<1>7. /\ \A kind, n : Fresh(kind, n)' = Fresh(kind, n')
      /\ Fresh("OUT", MaxPacket)' = Fresh("OUT", MaxPacket) /\ Fresh("OUT", Block)' = Fresh("OUT", Block)
      /\ Fresh("IN", MaxPacket)' = Fresh("IN", MaxPacket)
  BY <1>2 DEF Fresh
<1>8. /\ \/ Fresh("OUT", MaxPacket) = 0 /\ Fresh("OUT", Block) = 0
         \/ Fresh("OUT", MaxPacket) = MaxPacket /\ Fresh("OUT", Block) = Block
      /\ w <= Fresh("OUT", MaxPacket)
  <2>1. \/ Fresh("OUT", MaxPacket) = 0 /\ Fresh("OUT", Block) = 0
        \/ Fresh("OUT", MaxPacket) = MaxPacket /\ Fresh("OUT", Block) = Block
    BY DEF Fresh
  <2>2. w <= 0 + Fresh("OUT", MaxPacket)
    BY <1>2 DEF PaceInv, Backlog
  <2> QED
    BY <1>4, <2>1, <2>2, PaceSizes
<1>9. /\ inputRing.state = "Priming" => h < StartupFill
      /\ w + h - ahead <= InputBound + Block + Fresh("OUT", Block)
  BY <1>2 DEF PaceInv, InputBounded
<1>10. Cushion /\ OutputHeld /\ TotalBounded
  BY DEF PaceInv
<1>11. BlockReady <=> inputRing.state = "Running" /\ h >= Block
  BY DEF BlockReady
<1> HIDE DEF w, h, o, l
<1>12. Backlog'
  <2>1. Waiting' <= 0 + Fresh("OUT", MaxPacket)'
    BY <1>4, <1>5, <1>7, <1>8, PaceSizes
  <2> QED
    BY <1>2, <2>1 DEF Backlog
<1>13. KeepsUpWithTheHost'
  BY <1>3 DEF PaceInv, KeepsUpWithTheHost
<1>14. CASE ~BlockReady /\ UNCHANGED <<inputRing, outputRing, stats>>
  <2>1. h <= StartupFill - 1
    BY <1>4, <1>9, <1>11, <1>14, PaceSizes, RoomyRings
  <2>2. w + h - ahead <= InputBound + Fresh("OUT", Block)
    BY <1>4, <1>6, <1>8, <2>1, PaceSizes, BoundsAre
  <2>3. InputBounded'
    <3>1. Waiting' + Len(inputRing'.held) - ahead' <= InputBound + 0 + Fresh("OUT", Block)'
      <4>1. Waiting' = w /\ Len(inputRing'.held) = h /\ ahead' = ahead
        BY <1>2, <1>5, <1>14 DEF h
      <4>2. w + h - ahead <= InputBound + 0 + Fresh("OUT", Block)
        BY <1>8, <2>2, PaceSizes, BoundsAre
      <4> QED
        BY <1>7, <4>1, <4>2
    <3> QED
      BY <1>2, <1>9, <1>14, <3>1 DEF InputBounded, h
  <2>4. Cushion'
    BY <1>2, <1>3, <1>5, <1>10, <1>14 DEF Cushion, l
  <2>6. OutputHeld'
    <3>1. \/ o <= StartupFill - 1 + 0
          \/ FifoFrames - l <= Fresh("IN", MaxPacket)
      BY <1>2, <1>10 DEF OutputHeld, o, l
    <3>2. o <= StartupFill - 1 + 0 => o <= StartupFill - 1 + Block
      BY <1>4, PaceSizes
    <3> QED
      BY <1>2, <1>5, <1>7, <1>14, <3>1, <3>2 DEF OutputHeld, o
  <2>7. Total' = Total
    BY <1>2, <1>5, <1>14 DEF Total, w, l
  <2>8. TotalBounded'
    BY <1>2, <1>10, <2>7 DEF TotalBounded, TotalBound, Relief, Fractional
  <2>5. NothingLost'
    BY <1>14 DEF PaceInv, NothingLost
  <2> QED
    BY <1>2, <1>3, <1>12, <1>13, <2>3, <2>4, <2>5, <2>6, <2>8 DEF PaceInv
<1>15. CASE /\ BlockReady
            /\ Len(inputRing'.held) = h - Block
            /\ inputRing'.state = inputRing.state
            /\ Len(outputRing'.held) = Lesser(o + Block, Capacity)
            /\ outputRing'.state = Promoted(outputRing.state, Len(outputRing'.held), StartupFill)
            /\ stats' = Counted(Event(o + Block > Capacity, "outputOverruns"))
  <2>1. h >= Block
    BY <1>11, <1>15
  <2>2. Total = w + h + o + l - ahead
    BY DEF Total, w, h, o, l
  <2>3. TotalBound \in Int /\ TotalBound <= InputBound + 2 * Block + StartupFill + (FifoFrames \div 2)
    BY <1>1, RateNumbers, PaceSizes, BoundsAre, RoomyFifo DEF TotalBound
  <2>4. Relief(rate) \in Nat /\ Relief(rate) <= Block
    BY <1>1, RateNumbers, PaceSizes
  <2>5. o + Block <= Capacity
    <3>1. CASE o <= StartupFill - 1
      BY <1>4, <3>1, RoomyRings, PaceSizes
    <3>2. CASE FifoFrames - l <= Fresh("IN", MaxPacket)
      <4>1. /\ 2 * (StartupFill + MaxJitter + MaxPacket) + Block <= Capacity + (FifoFrames \div 2)
            /\ FifoFrames \div 2 \in Nat /\ 2 * (FifoFrames \div 2) <= FifoFrames
        BY RoomyRings, RoomyFifo
      <4>2. CASE due = {"IN"}
        <5>1. l >= FifoFrames
          BY <1>4, <3>2, <4>2 DEF Fresh, Expected
        <5>2. w + h + o + l - ahead <= TotalBound + Relief(rate)
          BY <1>10, <2>2, <4>2 DEF TotalBounded
        <5> QED
          BY <1>4, <1>6, <2>1, <2>3, <2>4, <4>1, <5>1, <5>2, PaceSizes, BoundsAre
      <4>3. CASE due # {"IN"}
        <5>1. Fresh("IN", MaxPacket) \in 0..MaxPacket
          BY PaceSizes DEF Fresh
        <5>2. w + h + o + l - ahead <= TotalBound
          <6>1. CASE due = {"OUT"}
            <7>1. Total <= TotalBound - Relief(rate) /\ Total \in Int
              BY <1>4, <1>6, <1>10, <2>2, <6>1 DEF TotalBounded
            <7> QED
              BY <2>2, <2>3, <2>4, <7>1
          <6>2. CASE due # {"OUT"}
            BY <1>10, <2>2, <4>3, <6>2 DEF TotalBounded
          <6> QED
            BY <6>1, <6>2
        <5> QED
          BY <1>4, <1>6, <2>1, <2>3, <3>2, <4>1, <5>1, <5>2, PaceSizes, BoundsAre
      <4> QED
        BY <4>2, <4>3
    <3>3. \/ o <= StartupFill - 1 + 0
          \/ FifoFrames - l <= Fresh("IN", MaxPacket)
      BY <1>2, <1>10 DEF OutputHeld, o, l
    <3> QED
      BY <3>1, <3>2, <3>3, PaceSizes
  <2>6. Len(outputRing'.held) = o + Block
    <3>1. o + Block \in Nat /\ Capacity \in Nat
      BY <1>4, PaceSizes
    <3>2. Lesser(o + Block, Capacity) = o + Block
      BY <2>5, <3>1, Lessened, Zenon
    <3> QED
      BY <1>15, <3>2
  <2>7. InputBounded'
    <3>1. inputRing'.state = "Priming" => Len(inputRing'.held) < StartupFill
      BY <1>4, <1>9, <1>15, PaceSizes
    <3>2. Waiting' + Len(inputRing'.held) - ahead' <= InputBound + Fresh("OUT", Block)'
      <4>1. Waiting' = w /\ Len(inputRing'.held) = h - Block /\ ahead' = ahead
        BY <1>2, <1>5, <1>15
      <4>2. w + (h - Block) - ahead <= InputBound + Fresh("OUT", Block)
        BY <1>4, <1>6, <1>8, <1>9, PaceSizes, BoundsAre
      <4> QED
        BY <1>7, <4>1, <4>2
    <3>3. Fresh("OUT", Block)' \in Int
      BY <1>7, <1>8, PaceSizes
    <3> QED
      BY <1>2, <3>1, <3>2, <3>3, BoundsAre DEF InputBounded
  <2>8. outputRing'.state = IF outputRing.state = "Running" \/ o + Block >= StartupFill THEN "Running" ELSE "Priming"
    BY <1>4, <1>15, <2>6 DEF Promoted
  <2>9. Cushion'
    <3>1. wire' \in {"idle", "flowing"}
      BY <1>2, <1>10 DEF Cushion
    <3>2. Level' > 0 \/ wire' # "idle" => outputRing'.state = "Running" /\ ~coldStart'
      BY <1>2, <1>3, <1>5, <1>10, <2>8 DEF Cushion, l
    <3>3. outputRing.state = "Priming" => (o + Block) % Block = 0
      <4>1. outputRing.state = "Priming" => o % Block = 0
        BY <1>10 DEF Cushion, o
      <4>2. o % Block = 0 => (o + Block) % Block = 0
        BY <1>4, PaceSizes, AnotherBlock
      <4> QED
        BY <4>1, <4>2
    <3>4. StartupFill % Block # 0
      BY DEF PaceConstants, RoomyConstants
    <3>5. outputRing'.state = "Priming" => /\ Len(outputRing'.held) % Block = 0
                                           /\ Len(outputRing'.held) < StartupFill
      BY <1>4, <2>6, <2>8, <3>3, PaceSizes
    <3>6. outputRing'.state = "Running" /\ coldStart' =>
            passTurn' = "IN" /\ Len(outputRing'.held) > StartupFill
      <4>1. outputRing.state = "Running" => ~coldStart
        BY <1>2, <1>10 DEF Cushion
      <4>2. outputRing'.state = "Running" /\ coldStart' => outputRing.state = "Priming" /\ o + Block >= StartupFill
        BY <1>3, <1>4, <2>8, <4>1
      <4>3. outputRing.state = "Priming" => o + Block # StartupFill
        BY <3>3, <3>4
      <4> QED
        BY <1>2, <1>4, <2>6, <4>2, <4>3, PaceSizes
    <3>7. wire' # "idle" /\ Expected("IN")' => Level' >= MaxPacket
      BY <1>2, <1>5, <1>10 DEF Cushion, l
    <3> QED
      BY <3>1, <3>2, <3>5, <3>6, <3>7 DEF Cushion
  <2>10. OutputHeld'
    <3>1. o <= StartupFill - 1 \/ FifoFrames - l <= Fresh("IN", MaxPacket)
      BY <1>2, <1>4, <1>10, PaceSizes DEF OutputHeld, o, l
    <3>2. o <= StartupFill - 1 => Len(outputRing'.held) <= StartupFill - 1 + Block
      BY <1>4, <2>6, PaceSizes
    <3>3. FifoFrames - l <= Fresh("IN", MaxPacket) => FifoFrames - Level' <= Fresh("IN", MaxPacket)'
      BY <1>5, <1>7
    <3> QED
      BY <1>2, <3>1, <3>2, <3>3 DEF OutputHeld
  <2>11. Total' = Total
    <3>1. Total' = w + (h - Block) + (o + Block) + l - ahead
      BY <1>2, <1>5, <1>15, <2>6 DEF Total
    <3> QED
      BY <1>4, <1>6, <2>2, <3>1, PaceSizes
  <2>12. TotalBounded'
    BY <1>2, <1>10, <2>11 DEF TotalBounded, TotalBound, Relief, Fractional
  <2>13. NothingLost'
    <3>1. stats' = Counted({})
      BY <1>4, <1>15, <2>5, PaceSizes DEF Event
    <3> QED
      BY <3>1, Uncounted DEF PaceInv
  <2> QED
    BY <1>2, <1>3, <1>12, <1>13, <2>7, <2>9, <2>10, <2>12, <2>13 DEF PaceInv
<1> QED
  BY <1>3, <1>14, <1>15

\* The size of a pull: all that fits, or all that there is.
LEMMA PullMeasured ==
  ASSUME PaceConstants, PaceData
  PROVE  LET n == PullSize(StreamFormat)
             o == Len(outputRing.held)
         IN /\ n \in Nat /\ n <= MaxPacket /\ n <= FifoFrames - Level
            /\ n > o => ~StillCold /\ Level < MaxPacket
            /\ n = o \/ n = MaxPacket \/ n = FifoFrames - Level
            /\ ~StillCold /\ Level < MaxPacket => n = MaxPacket
<1> DEFINE n == PullSize(StreamFormat)
           o == Len(outputRing.held)
           l == Level
           room == Lesser(FifoFrames - l, MaxPacket)
<1>1. /\ o \in Nat /\ l \in Nat /\ FifoFrames \in Nat /\ l <= FifoFrames /\ MaxPacket \in Nat
      /\ FifoFrames >= 2 * MaxPacket
  BY PaceNumbers, PaceSizes, RoomyFifo
<1>2. SinkBuffered(StreamFormat) <=> l >= MaxPacket
  BY PaceSizes DEF SinkBuffered, Level
<1>3. n = IF StillCold \/ l >= MaxPacket THEN Lesser(room, o) ELSE room
  BY <1>2, RoomCounted DEF PullSize
<1> HIDE DEF n, o, l
<1>4. FifoFrames - l \in Nat
  BY <1>1
<1>5. /\ room \in Nat /\ room <= FifoFrames - l /\ room <= MaxPacket
      /\ room = FifoFrames - l \/ room = MaxPacket
      /\ l < MaxPacket => room = MaxPacket
  <2>1. /\ room \in Nat /\ room <= FifoFrames - l /\ room <= MaxPacket
        /\ room = FifoFrames - l \/ room = MaxPacket
        /\ MaxPacket <= FifoFrames - l => room = MaxPacket
    BY <1>1, <1>4, Lessened, Zenon
  <2>2. l < MaxPacket => MaxPacket <= FifoFrames - l
    BY <1>1
  <2> QED
    BY <2>1, <2>2
<1> HIDE DEF room
<1>6. /\ Lesser(room, o) \in Nat /\ Lesser(room, o) <= room /\ Lesser(room, o) <= o
      /\ Lesser(room, o) = room \/ Lesser(room, o) = o
  BY <1>1, <1>5, Lessened, Zenon
<1>7. CASE StillCold \/ l >= MaxPacket
  <2>1. n = Lesser(room, o)
    BY <1>3, <1>7
  <2>2. /\ n \in Nat /\ n <= MaxPacket /\ n <= FifoFrames - l /\ n <= o
        /\ n = o \/ n = MaxPacket \/ n = FifoFrames - l
    BY <1>1, <1>5, <1>6, <2>1
  <2>3. ~(StillCold = FALSE /\ l < MaxPacket) /\ ~(n > o)
    BY <1>1, <1>7, <2>2
  <2> QED
    BY <1>1, <1>7, <2>2, <2>3 DEF n, o, l
<1>8. CASE ~StillCold /\ ~(l >= MaxPacket)
  <2>1. n = room /\ l < MaxPacket
    BY <1>1, <1>3, <1>8
  <2> QED
    BY <1>1, <1>5, <1>8, <2>1 DEF n, o, l
<1> QED
  BY <1>7, <1>8

\* IN: the FIFO is filled up by a packet, or the ring emptied.
LEMMA InPaced ==
  ASSUME PaceConstants, PaceInv, Serve("IN", "OUT"), ServiceIn(FALSE, StreamFormat)
  PROVE  PaceInv'
<1> DEFINE w == Waiting
           h == Len(inputRing.held)
           o == Len(outputRing.held)
           l == Level
           n == PullSize(StreamFormat)
<1>1. PaceData /\ PaceCourse
  BY DEF PaceInv
<1>2. /\ PaceCourse' /\ passTurn = "IN" /\ passTurn' = "OUT" /\ UNCHANGED <<rate, due, ahead, wire>>
      /\ \A kind : Expected(kind) => Expected(kind)'
  BY <1>1, ServedCourse
<1>3. PaceData' /\ UNCHANGED <<outFifo, inputRing, fellBehind>>
  BY <1>1, InCounted
<1>4. /\ w \in Nat /\ h \in Nat /\ o \in Nat /\ l \in Nat /\ FifoFrames \in Nat /\ l <= FifoFrames
      /\ inputRing.state \in {"Priming", "Running"} /\ outputRing.state \in {"Priming", "Running"}
  BY <1>1, PaceNumbers
<1>5. Waiting' = w /\ Len(inputRing'.held) = h /\ ahead' = ahead
  BY <1>2, <1>3 DEF Waiting, Frames
<1>6. ahead \in Int /\ -MaxJitter <= ahead /\ ahead <= MaxJitter
  BY <1>1, AheadBounded
<1>7. /\ Fresh("OUT", MaxPacket) \in 0..MaxPacket /\ Fresh("OUT", MaxPacket)' \in 0..MaxPacket
      /\ Fresh("OUT", Block) \in 0..Block /\ Fresh("OUT", Block)' \in 0..Block
      /\ Fresh("IN", MaxPacket) \in 0..MaxPacket /\ Fresh("IN", MaxPacket)' \in 0..MaxPacket
  BY PaceSizes DEF Fresh
<1>8. w <= 0 + Fresh("OUT", MaxPacket)
  BY <1>2 DEF PaceInv, Backlog
<1>9. /\ inputRing.state = "Priming" => h < StartupFill
      /\ w + h - ahead <= InputBound + 0 + Fresh("OUT", Block)
  BY <1>2 DEF PaceInv, InputBounded
<1>10. Cushion /\ OutputHeld /\ TotalBounded
  BY DEF PaceInv
<1>11. Total = w + h + o + l - ahead
  BY DEF Total
<1> HIDE DEF w, h, o, l
<1>12. Backlog'
  <2>1. Waiting' <= MaxPacket + Fresh("OUT", MaxPacket)'
    BY <1>4, <1>5, <1>7, <1>8, PaceSizes
  <2> QED
    BY <1>2, <2>1 DEF Backlog
<1>13. InputBounded'
  <2>1. w + h - ahead <= InputBound + Block + Fresh("OUT", Block)'
    BY <1>4, <1>6, <1>7, <1>9, PaceSizes, BoundsAre
  <2>2. Waiting' + Len(inputRing'.held) - ahead' <= InputBound + Block + Fresh("OUT", Block)'
    BY <1>5, <2>1
  <2> QED
    BY <1>2, <1>3, <1>5, <1>9, <2>2 DEF InputBounded
<1>14. KeepsUpWithTheHost'
  BY <1>3 DEF PaceInv, KeepsUpWithTheHost
<1>15. SUFFICES Cushion' /\ OutputHeld' /\ TotalBounded' /\ NothingLost'
  BY <1>2, <1>3, <1>12, <1>13, <1>14 DEF PaceInv
<1>16. CASE outputRing.state # "Running" /\ coldStart' /\ UNCHANGED <<inFifo, outputRing, stats>>
  <2>1. outputRing.state = "Priming" /\ Level' = l
    BY <1>4, <1>16 DEF Level, l
  <2>2. Cushion'
    <3>1. ~(l > 0) /\ wire = "idle" /\ o % Block = 0 /\ o < StartupFill
      BY <1>10, <2>1 DEF Cushion, l, o
    <3> QED
      BY <1>2, <1>16, <2>1, <3>1 DEF Cushion, o
  <2>3. OutputHeld'
    <3>1. o <= StartupFill - 1 + 0
      BY <1>4, <1>10, <2>1, PaceSizes DEF Cushion, o
    <3> QED
      BY <1>2, <1>16, <3>1 DEF OutputHeld, o
  <2>4. TotalBounded'
    <3>1. Total' = Total
      BY <1>5, <1>11, <1>16, <2>1 DEF Total, o
    <3> QED
      BY <1>2, <1>10, <3>1 DEF TotalBounded, TotalBound, Relief, Fractional
  <2>5. NothingLost'
    BY <1>16 DEF PaceInv, NothingLost
  <2> QED
    BY <2>2, <2>3, <2>4, <2>5
<1>17. CASE /\ outputRing.state = "Running"
            /\ Level = FifoFrames \/ MaxPacket = 0
            /\ UNCHANGED <<inFifo, outputRing, coldStart, stats>>
  <2>1. l = FifoFrames /\ l > 0 /\ l >= MaxPacket /\ Level' = l
    BY <1>4, <1>17, PaceSizes, RoomyFifo DEF Level, l
  <2>2. Cushion'
    <3>1. ~coldStart /\ wire \in {"idle", "flowing"}
      BY <1>10, <2>1 DEF Cushion, l
    <3> QED
      BY <1>2, <1>17, <2>1, <3>1 DEF Cushion
  <2>3. OutputHeld'
    <3>1. FifoFrames - Level' <= Fresh("IN", MaxPacket)'
      BY <1>4, <1>7, <2>1, PaceSizes
    <3> QED
      BY <3>1 DEF OutputHeld, FifoFrames
  <2>4. TotalBounded'
    <3>1. Total' = Total
      BY <1>5, <1>11, <1>17, <2>1 DEF Total, o
    <3> QED
      BY <1>2, <1>10, <3>1 DEF TotalBounded, TotalBound, Relief, Fractional
  <2>5. NothingLost'
    BY <1>17 DEF PaceInv, NothingLost
  <2> QED
    BY <2>2, <2>3, <2>4, <2>5
<1>18. CASE /\ outputRing.state = "Running"
            /\ coldStart' = StillCold
            /\ PullSize(StreamFormat) \in Nat
            /\ Level' = Level + PullSize(StreamFormat)
            /\ outputRing'.state = outputRing.state
            /\ Len(outputRing'.held) =
                 Len(outputRing.held) - Lesser(PullSize(StreamFormat), Len(outputRing.held))
            /\ stats' = Counted(Event(PullSize(StreamFormat) > Len(outputRing.held), "outputUnderruns"))
  <2>1. /\ n \in Nat /\ n <= MaxPacket /\ n <= FifoFrames - l
        /\ n > o => ~StillCold /\ l < MaxPacket
        /\ n = o \/ n = MaxPacket \/ n = FifoFrames - l
        /\ ~StillCold /\ l < MaxPacket => n = MaxPacket
    BY <1>1, PullMeasured DEF o, l
  <2>2. Level' = l + n /\ Len(outputRing'.held) = o - Lesser(n, o)
    BY <1>18 DEF l, o
  <2>3. outputRing'.state = "Running" /\ coldStart' = StillCold
    BY <1>18
  <2>4. stats' = Counted(Event(n > o, "outputUnderruns"))
    BY <1>18 DEF o
  <2>5. ~StillCold
    <3>1. coldStart => o > StartupFill
      BY <1>10, <1>18 DEF Cushion, o
    <3> QED
      BY <1>4, <3>1, PaceSizes DEF StillCold, o
  <2> HIDE DEF n
  <2> DEFINE k == Len(outputRing'.held)
  <2>6. k \in Nat /\ (n <= o => k = o - n) /\ (n > o => k = 0)
    <3>1. /\ Lesser(n, o) \in Nat /\ Lesser(n, o) <= o
          /\ n <= o => Lesser(n, o) = n
          /\ o <= n => Lesser(n, o) = o
      BY <1>4, <2>1, Lessened, Zenon
    <3> QED
      BY <1>4, <2>1, <2>2, <3>1
  <2> HIDE DEF k
  <2>7. Cushion'
    <3>1. wire \in {"idle", "flowing"} /\ l + n >= MaxPacket
      <4>1. wire \in {"idle", "flowing"}
        BY <1>10 DEF Cushion
      <4>2. l + n >= MaxPacket
        BY <1>4, <2>1, <2>5, PaceSizes
      <4> QED
        BY <4>1, <4>2
    <3> QED
      BY <1>2, <2>2, <2>3, <2>5, <3>1 DEF Cushion
  <2>8. OutputHeld'
    <3>1. o <= StartupFill - 1 + Block \/ FifoFrames - l <= MaxPacket
      BY <1>2, <1>4, <1>7, <1>10, PaceSizes DEF OutputHeld, o, l
    <3>2. k <= StartupFill - 1 + 0 \/ FifoFrames - (l + n) <= 0
      <4>1. StartupFill >= MaxPacket /\ FifoFrames >= 2 * MaxPacket
        BY RoomyRings, RoomyFifo
      <4>2. CASE n = FifoFrames - l
        BY <1>4, <2>1, <4>2
      <4>3. CASE n = o
        BY <1>4, <2>6, <4>1, <4>3, PaceSizes
      <4>4. CASE n = MaxPacket
        <5>1. CASE n > o
          BY <2>6, <4>1, <5>1, PaceSizes
        <5>2. CASE n <= o
          BY <1>4, <2>1, <2>6, <3>1, <4>1, <4>4, <5>2, PaceSizes
        <5> QED
          BY <1>4, <2>1, <5>1, <5>2
      <4> QED
        BY <2>1, <4>2, <4>3, <4>4
    <3>3. k <= StartupFill - 1 + 0 \/ FifoFrames - Level' <= Fresh("IN", MaxPacket)'
      BY <1>4, <1>7, <2>1, <2>2, <3>2, PaceSizes
    <3> QED
      BY <1>2, <3>3 DEF OutputHeld, FifoFrames, k
  <2>9. TotalBounded'
    <3>1. Total' = w + h + k + (l + n) - ahead
      BY <1>5, <2>2 DEF Total, k
    <3>2. CASE n <= o
      <4>1. Total' = Total
        BY <1>4, <1>6, <1>11, <2>1, <2>6, <3>1, <3>2
      <4> QED
        BY <1>2, <1>10, <4>1 DEF TotalBounded, TotalBound, Relief, Fractional
    <3>3. CASE n > o
      <4>1. k = 0 /\ l + n <= 2 * MaxPacket - 1
        BY <1>4, <2>1, <2>6, <3>3, PaceSizes
      <4>2. Total' <= InputBound + Fresh("OUT", Block) + 2 * MaxPacket - 1 /\ Total' \in Int
        BY <1>4, <1>6, <1>7, <1>9, <2>1, <3>1, <4>1, PaceSizes, BoundsAre
      <4>3. Relief(rate) \in Nat /\ Relief(rate) <= Block
        BY <1>1, RateNumbers, PaceSizes
      <4>4. TotalBound \in Int /\ TotalBound >= InputBound + 2 * Block + StartupFill - 1 + (FifoFrames \div 2)
        BY <1>1, RateNumbers, PaceSizes, BoundsAre, RoomyFifo DEF TotalBound
      <4>5. due = {"OUT"} => Fresh("OUT", Block) = 0
        BY DEF Fresh, Expected
      <4>6. Total' <= TotalBound /\ (due = {"OUT"} => Total' <= TotalBound - Relief(rate))
        BY <1>7, <4>2, <4>3, <4>4, <4>5, PaceSizes, BoundsAre, RoomyFifo, RoomyRings
      <4>7. Total' <= TotalBound + Relief(rate)
        BY <4>2, <4>3, <4>4, <4>6
      <4> QED
        BY <1>2, <4>6, <4>7 DEF TotalBounded, TotalBound, Relief, Fractional
    <3> QED
      BY <1>4, <2>1, <3>2, <3>3
  <2>10. NothingLost'
    <3>1. Event(n > o, "outputUnderruns") \in SUBSET {"outputUnderruns"}
      BY DEF Event
    <3> QED
      BY <2>4, <3>1, Uncounted DEF PaceInv
  <2> QED
    BY <2>7, <2>8, <2>9, <2>10
<1> QED
  BY <1>1, <1>16, <1>17, <1>18, InCounted

\* What a host's transaction does to the frame: the next of its kind is a pass
\* away at least, and the other kind's is as near as it was.
LEMMA Transacted ==
  ASSUME PaceConstants, PaceCourse, NEW kind \in Transactions, NEW other \in Transactions,
         kind # other, Transact(kind)
  PROVE  /\ due' \in SUBSET Transactions /\ passes' \in 0..MinPasses /\ UNCHANGED <<rate, first>>
         /\ Expected(kind) /\ ~Expected(kind)'
         /\ Expected(other)' <=> Expected(other)
         /\ \/ due = {kind} /\ due' = {}
            \/ due = {kind, other} /\ due' = {other}
<1>1. /\ kind \in due /\ due' = due \ {kind} /\ UNCHANGED <<rate, first>>
      /\ passes' = IF due' = {} THEN 0 ELSE passes
  BY DEF Transact
<1>2. due \in SUBSET {kind, other} /\ passes \in 0..MinPasses /\ Transactions = {kind, other}
  BY DEF PaceCourse, Transactions
<1>3. MinPasses \in Nat \ {0}
  BY PaceSizes
<1>4. \/ due = {kind} /\ due' = {}
      \/ due = {kind, other} /\ due' = {other}
  BY <1>1, <1>2
<1>5. passes' \in 0..MinPasses /\ (due' = {} => passes' # MinPasses)
  BY <1>1, <1>2, <1>3
<1> QED
  BY <1>1, <1>2, <1>3, <1>4, <1>5 DEF Expected

\* A frame begins when the loop has had its passes.
LEMMA FramePaced ==
  ASSUME PaceConstants, PaceInv, NewFrame
  PROVE  PaceInv'
<1>1. /\ due = {} /\ passes = MinPasses /\ due' = Transactions
      /\ UNCHANGED <<outFifo, inFifo, inputRing, outputRing, pending, coldStart, stats, fellBehind>>
      /\ UNCHANGED <<rate, passTurn, first, passes, slot, ahead, wire>>
  BY DEF NewFrame, loopVars
<1>2. /\ PaceData /\ PaceCourse /\ Backlog /\ InputBounded /\ Cushion /\ OutputHeld /\ TotalBounded
      /\ NothingLost /\ KeepsUpWithTheHost
  BY DEF PaceInv
<1>3. Expected("OUT") /\ Expected("OUT")' /\ Expected("IN") /\ Expected("IN")'
  BY <1>1 DEF Expected, Transactions
<1>4. \A n : /\ Fresh("OUT", n) = 0 /\ Fresh("OUT", n)' = 0
             /\ Fresh("IN", n) = 0 /\ Fresh("IN", n)' = 0
  BY <1>3 DEF Fresh
<1>5. PaceData' /\ PaceCourse'
  BY <1>1, <1>2 DEF PaceData, PaceCourse, WholeFrames, Framed
<1>6. Waiting' = Waiting /\ Level' = Level /\ Total' = Total
  BY <1>1 DEF Waiting, Frames, Level, Total
<1>7. Backlog' /\ InputBounded'
  BY <1>1, <1>2, <1>3, <1>6 DEF Backlog, InputBounded, Fresh
<1>8. Cushion' /\ OutputHeld'
  BY <1>1, <1>2, <1>3, <1>6 DEF Cushion, OutputHeld, Fresh
<1>9. TotalBounded'
  <2>1. Transactions # {"IN"} /\ Transactions # {"OUT"} /\ {} # {"IN"} /\ {} # {"OUT"}
    BY DEF Transactions
  <2> QED
    BY <1>1, <1>2, <1>6, <2>1 DEF TotalBounded, TotalBound, Relief, Fractional
<1>10. NothingLost' /\ KeepsUpWithTheHost'
  BY <1>1, <1>2 DEF NothingLost, KeepsUpWithTheHost
<1> QED
  BY <1>5, <1>7, <1>8, <1>9, <1>10 DEF PaceInv

\* The host sends a packet of its schedule, give or take the jitter.
LEMMA SendPaced ==
  ASSUME PaceConstants, PaceInv, NEW extra \in -1..1, OutTransaction(extra)
  PROVE  PaceInv'
<1> DEFINE w == Waiting
           h == Len(inputRing.held)
           o == Len(outputRing.held)
           l == Level
           planned == rate.out[slot]
           n == planned + extra
           packet == Encode([i \in 1..n |-> Tone], StreamFormat)
<1>1. PaceData /\ PaceCourse
  BY DEF PaceInv
<1>2. /\ Transact("OUT") /\ n \in 0..MaxPacket
      /\ ahead' = ahead + extra /\ ahead' \in -MaxJitter..MaxJitter
      /\ slot' = IF slot = Len(rate.out) THEN 1 ELSE slot + 1
      /\ outFifo' = outFifo \o packet
      /\ UNCHANGED <<inFifo, inputRing, outputRing, pending, coldStart, stats, fellBehind, passTurn, wire>>
  BY DEF OutTransaction, fifoFree
<1>3. /\ due' \in SUBSET Transactions /\ passes' \in 0..MinPasses /\ UNCHANGED rate
      /\ Expected("OUT") /\ ~Expected("OUT")'
      /\ Expected("IN")' <=> Expected("IN")
      /\ \/ due = {"OUT"} /\ due' = {}
         \/ due = {"OUT", "IN"} /\ due' = {"IN"}
  <2>1. "OUT" \in Transactions /\ "IN" \in Transactions /\ "OUT" # "IN"
    BY DEF Transactions
  <2> QED
    BY <1>1, <1>2, <2>1, Transacted
<1>4. /\ w \in Nat /\ h \in Nat /\ o \in Nat /\ l \in Nat
  BY <1>1, PaceNumbers
<1>5. planned \in 0..MaxPacket /\ planned <= Relief(rate) /\ Relief(rate) \in Nat /\ Relief(rate) <= Block
  BY <1>1, RateNumbers, PaceSizes
<1>6. ahead \in Int
  BY <1>1, AheadBounded
<1>7. Level' = l
  BY <1>2 DEF Level
<1>8. /\ Backlog /\ InputBounded /\ Cushion /\ OutputHeld /\ TotalBounded
      /\ NothingLost /\ KeepsUpWithTheHost
  BY DEF PaceInv
<1>9. PaceCourse'
  <2>1. rate \in Rates /\ slot \in DOMAIN rate.out /\ passTurn \in {"OUT", "DSP", "IN"}
    BY <1>1 DEF PaceCourse
  <2>2. rate.out \in Seq(0..MaxPacket) /\ rate.out # <<>>
    BY <2>1 DEF PaceConstants, PacedConstants
  <2>3. slot' \in DOMAIN rate.out
    BY <1>2, <2>1, <2>2
  <2> QED
    BY <1>2, <1>3, <2>1, <2>3 DEF PaceCourse
<1> HIDE DEF w, h, o, l, planned, packet
<1>10. WholeFrames(outFifo') /\ Waiting' = w + n
  <2>1. n \in Nat
    BY <1>2, PaceSizes
  <2> HIDE DEF n
  <2> DEFINE fs == [i \in 1..n |-> Tone]
  <2>2. fs \in Seq(Note) /\ Len(fs) = n
    BY <2>1 DEF Note
  <2>3. packet = Encode(fs, StreamFormat)
    BY DEF packet, n
  <2> HIDE DEF fs
  <2>4. WholeFrames(packet) /\ Frames(packet) = n
    BY <2>2, <2>3, EncodedFrames
  <2>5. WholeFrames(outFifo)
    BY <1>1 DEF PaceData
  <2>6. WholeFrames(outFifo \o packet) /\ Frames(outFifo \o packet) = Frames(outFifo) + Frames(packet)
    BY <2>4, <2>5, JoinedFrames
  <2> QED
    BY <1>2, <2>4, <2>6 DEF Waiting, w
<1>11. PaceData'
  BY <1>1, <1>2, <1>10 DEF PaceData, WholeFrames, Framed
<1>12. /\ Fresh("OUT", MaxPacket) = 0 /\ Fresh("OUT", MaxPacket)' = MaxPacket
       /\ Fresh("OUT", Block) = 0 /\ Fresh("OUT", Block)' = Block
       /\ Fresh("IN", MaxPacket)' = Fresh("IN", MaxPacket)
  BY <1>3 DEF Fresh
<1>13. Backlog'
  <2> DEFINE m == IF passTurn = "OUT" THEN MaxPacket ELSE 0
  <2>1. m \in Nat /\ w <= m + 0
    BY <1>8, <1>12, PaceSizes DEF Backlog, w
  <2>2. passTurn' = passTurn
    BY <1>2
  <2> HIDE DEF m
  <2>3. Waiting' <= m + Fresh("OUT", MaxPacket)'
    BY <1>2, <1>4, <1>10, <1>12, <2>1, PaceSizes
  <2> QED
    BY <2>2, <2>3 DEF Backlog, m
<1>14. InputBounded'
  <2> DEFINE m == IF passTurn = "IN" THEN 0 ELSE Block
  <2>1. m \in Nat /\ w + h - ahead <= InputBound + m + 0
    BY <1>8, <1>12, PaceSizes DEF InputBounded, w, h
  <2>2. passTurn' = passTurn /\ inputRing' = inputRing
    BY <1>2
  <2> HIDE DEF m
  <2>3. Waiting' + h - ahead' <= InputBound + m + Fresh("OUT", Block)'
    <3>1. (w + (planned + extra)) + h - (ahead + extra) <= InputBound + m + Block
      BY <1>4, <1>5, <1>6, <2>1, PaceSizes, BoundsAre
    <3> QED
      BY <1>2, <1>10, <1>12, <3>1
  <2> QED
    BY <1>8, <2>2, <2>3 DEF InputBounded, m, h
<1>15. Cushion' /\ OutputHeld'
  BY <1>2, <1>3, <1>7, <1>8, <1>12 DEF Cushion, OutputHeld, l
<1>16. TotalBounded'
  <2>1. Total = w + h + o + l - ahead
    BY DEF Total, w, h, o, l
  <2>2. Total' = (w + (planned + extra)) + h + o + l - (ahead + extra)
    BY <1>2, <1>7, <1>10 DEF Total, h, o
  <2>3. Total' = Total + planned /\ Total \in Int
    BY <1>4, <1>5, <1>6, <2>1, <2>2, PaceSizes
  <2>4. TotalBound \in Int
    BY <1>1, RateNumbers, PaceSizes, BoundsAre, RoomyFifo DEF TotalBound
  <2>5. CASE due = {"OUT"} /\ due' = {}
    <3>1. Total <= TotalBound - Relief(rate)
      BY <1>8, <2>5 DEF TotalBounded
    <3>2. Total' <= TotalBound
      BY <1>5, <2>3, <2>4, <3>1, PaceSizes
    <3> QED
      BY <1>3, <2>5, <3>2 DEF TotalBounded, TotalBound, Relief, Fractional
  <2>6. CASE due = {"OUT", "IN"} /\ due' = {"IN"}
    <3>1. Total <= TotalBound
      <4>1. due # {"IN"} /\ due # {"OUT"}
        <5>1. "OUT" \in due /\ "IN" \in due /\ "OUT" # "IN"
          BY <2>6
        <5> QED
          BY <5>1
      <4> QED
        BY <1>8, <4>1 DEF TotalBounded
    <3>2. Total' <= TotalBound + Relief(rate)
      BY <1>5, <2>3, <2>4, <3>1, PaceSizes
    <3> QED
      BY <1>3, <2>6, <3>2 DEF TotalBounded, TotalBound, Relief, Fractional
  <2> QED
    BY <1>3, <2>5, <2>6
<1>17. NothingLost' /\ KeepsUpWithTheHost'
  BY <1>2, <1>8 DEF NothingLost, KeepsUpWithTheHost
<1> QED
  BY <1>9, <1>11, <1>13, <1>14, <1>15, <1>16, <1>17 DEF PaceInv

\* What flow control sends: something, when there is a packet, and at least its
\* relief, when the FIFO is well filled.
LEMMA FlowMeasured ==
  ASSUME PaceConstants, PaceData, PaceCourse, NEW size \in FlowControl
  PROVE  /\ size \in 0..MaxPacket
         /\ Level >= MaxPacket => size >= 1
         /\ Level > (FifoFrames \div 2) + (rate.in[3] - rate.in[2]) => size >= Relief(rate)
<1> DEFINE half == FifoFrames \div 2
           step == rate.in[3] - rate.in[2]
           l == Level
<1>1. /\ rate.in[1] \in 1..MaxPacket /\ rate.in[2] \in 1..MaxPacket /\ rate.in[3] \in 1..MaxPacket
      /\ rate.in[2] <= rate.in[3] /\ Relief(rate) \in {rate.in[2], rate.in[3]}
  BY RateNumbers
<1>2. l \in Nat /\ half \in Nat /\ half >= MaxPacket /\ MaxPacket \in Nat
  BY PaceNumbers, RoomyFifo, PaceSizes
<1>3. size \in CASE l < rate.in[1] -> {0}
               [] l \in rate.in[1]..half - step - 1 -> {rate.in[1], rate.in[2]}
               [] l > half + step   -> {Relief(rate), rate.in[3]}
               [] OTHER             -> {rate.in[2]}
  BY DEF FlowControl
<1>4. step \in Nat
  BY <1>1, <1>2
<1> HIDE DEF l, half, step
<1>5. CASE l < rate.in[1]
  <2>1. size = 0 /\ ~(l >= MaxPacket) /\ ~(l > half + step)
    BY <1>1, <1>2, <1>3, <1>4, <1>5
  <2> QED
    BY <1>2, <2>1 DEF l, half, step
<1>6. CASE l \in rate.in[1]..half - step - 1
  <2>1. size \in {rate.in[1], rate.in[2]} /\ ~(l > half + step)
    BY <1>1, <1>2, <1>3, <1>4, <1>6
  <2> QED
    BY <1>1, <1>2, <2>1 DEF l, half, step
<1>7. CASE l > half + step
  <2>1. size \in {Relief(rate), rate.in[3]}
    BY <1>1, <1>2, <1>3, <1>4, <1>7
  <2> QED
    BY <1>1, <1>2, <2>1
<1>8. CASE ~(l < rate.in[1]) /\ l \notin rate.in[1]..half - step - 1 /\ ~(l > half + step)
  <2>1. size = rate.in[2]
    BY <1>3, <1>8
  <2> QED
    BY <1>1, <1>2, <1>8, <2>1 DEF l, half, step
<1> QED
  BY <1>5, <1>6, <1>7, <1>8

\* The host takes a packet, and from a well filled FIFO no less than comes in.
LEMMA TakePaced ==
  ASSUME PaceConstants, PaceInv, NEW size \in FlowControl, InTransaction(size)
  PROVE  PaceInv'
<1> DEFINE w == Waiting
           h == Len(inputRing.held)
           o == Len(outputRing.held)
           l == Level
           taken == Lesser(size, l)
           half == FifoFrames \div 2
           step == rate.in[3] - rate.in[2]
<1>1. PaceData /\ PaceCourse
  BY DEF PaceInv
<1>2. /\ Transact("IN")
      /\ inFifo' = Rest(inFifo, size * Bytes)
      /\ wire' = IF size > 0 /\ size <= l THEN "flowing"
                 ELSE IF wire = "idle" THEN "idle" ELSE "starved"
      /\ UNCHANGED <<outFifo, inputRing, outputRing, pending, coldStart, stats, fellBehind, passTurn, slot, ahead>>
  BY DEF InTransaction, fifoFree
<1>3. /\ due' \in SUBSET Transactions /\ passes' \in 0..MinPasses /\ UNCHANGED rate
      /\ Expected("IN") /\ ~Expected("IN")'
      /\ Expected("OUT")' <=> Expected("OUT")
      /\ \/ due = {"IN"} /\ due' = {}
         \/ due = {"IN", "OUT"} /\ due' = {"OUT"}
  <2>1. "OUT" \in Transactions /\ "IN" \in Transactions /\ "OUT" # "IN"
    BY DEF Transactions
  <2> QED
    BY <1>1, <1>2, <2>1, Transacted
<1>4. /\ w \in Nat /\ h \in Nat /\ o \in Nat /\ l \in Nat /\ FifoFrames \in Nat /\ l <= FifoFrames
  BY <1>1, PaceNumbers
<1>5. /\ size \in 0..MaxPacket /\ MaxPacket \in Nat
      /\ l >= MaxPacket => size >= 1
      /\ l > half + step => size >= Relief(rate)
  BY <1>1, FlowMeasured, PaceSizes
<1>6. ahead \in Int /\ ahead' = ahead
  BY <1>1, <1>2, AheadBounded
<1>7. /\ step \in Nat /\ step <= 1 /\ step <= MaxPacket - 1 /\ Relief(rate) \in Nat /\ Relief(rate) <= Block
  BY <1>1, RateNumbers, PaceSizes
<1>8. /\ Backlog /\ InputBounded /\ Cushion /\ OutputHeld /\ TotalBounded
      /\ NothingLost /\ KeepsUpWithTheHost
  BY DEF PaceInv
<1>9. half \in Nat /\ half >= MaxPacket /\ 2 * half <= FifoFrames
  BY RoomyFifo
<1>10. PaceCourse'
  BY <1>1, <1>2, <1>3 DEF PaceCourse
<1> HIDE DEF w, h, o, l, half, step
<1>11. /\ WholeFrames(inFifo') /\ Len(inFifo') <= FifoDepth /\ Level' = l - taken
  <2>1. WholeFrames(inFifo) /\ Len(inFifo) <= FifoDepth /\ Frames(inFifo) = l
    BY <1>1 DEF PaceData, Frames, Level, l
  <2>2. size \in Nat
    BY <1>5
  <2>3. /\ WholeFrames(Rest(inFifo, size * Bytes))
        /\ Frames(Rest(inFifo, size * Bytes)) = Frames(inFifo) - Lesser(size, Frames(inFifo))
        /\ Len(Rest(inFifo, size * Bytes)) <= Len(inFifo)
    BY <2>1, <2>2, CutFrames
  <2>4. Len(inFifo') \in Nat /\ Len(inFifo) \in Nat /\ FifoDepth \in Nat
    BY <1>2, <2>1, <2>3, PaceSizes DEF WholeFrames
  <2>5. Level' = Frames(inFifo')
    BY DEF Level, Frames
  <2> QED
    BY <1>2, <2>1, <2>3, <2>4, <2>5
<1>12. PaceData'
  BY <1>1, <1>2, <1>11 DEF PaceData, WholeFrames, Framed
<1>13. taken \in Nat /\ taken <= l /\ (size <= l => taken = size) /\ taken <= size
  <2>1. size \in Nat
    BY <1>5
  <2> QED
    BY <1>4, <2>1, Lessened, Zenon
<1> HIDE DEF taken
<1>14. /\ Fresh("OUT", MaxPacket)' = Fresh("OUT", MaxPacket) /\ Fresh("OUT", Block)' = Fresh("OUT", Block)
       /\ Fresh("IN", MaxPacket) = 0 /\ Fresh("IN", MaxPacket)' = MaxPacket
       /\ Fresh("OUT", Block) \in 0..Block /\ (due = {"IN", "OUT"} => Fresh("OUT", Block) = 0)
  BY <1>3, PaceSizes DEF Fresh, Expected
<1>15. Waiting' = w /\ Len(inputRing'.held) = h /\ Len(outputRing'.held) = o
  BY <1>2 DEF Waiting, Frames, w, h, o
<1>16. Backlog' /\ InputBounded'
  BY <1>2, <1>8, <1>14, <1>15 DEF Backlog, InputBounded, w, h
<1>17. Cushion'
  <2>1. wire # "idle" => size > 0 /\ size <= l
    <3>1. wire # "idle" => l >= MaxPacket
      BY <1>3, <1>8 DEF Cushion, l
    <3> QED
      BY <1>4, <1>5, <3>1
  <2>2. (wire' = "flowing" /\ size > 0 /\ size <= l) \/ (wire' = "idle" /\ wire = "idle")
    <3>1. CASE size > 0 /\ size <= l
      BY <1>2, <3>1
    <3>2. CASE ~(size > 0 /\ size <= l)
      <4>1. wire = "idle"
        BY <2>1, <3>2
      <4> QED
        BY <1>2, <3>2, <4>1
    <3> QED
      BY <3>1, <3>2
  <2>3. Level' > 0 \/ wire' # "idle" => l > 0
    BY <1>4, <1>5, <1>11, <1>13, <2>2
  <2>4. /\ l > 0 => outputRing.state = "Running" /\ ~coldStart
        /\ outputRing.state = "Priming" => /\ Len(outputRing.held) % Block = 0
                                           /\ Len(outputRing.held) < StartupFill
        /\ outputRing.state = "Running" /\ coldStart => passTurn = "IN" /\ Len(outputRing.held) > StartupFill
    BY <1>8 DEF Cushion, l
  <2> QED
    BY <1>2, <1>3, <2>2, <2>3, <2>4 DEF Cushion
<1>18. OutputHeld'
  <2> DEFINE m == StartupFill - 1 + (IF passTurn = "IN" THEN Block ELSE 0)
  <2>1. o <= m \/ FifoFrames - l <= 0
    BY <1>8, <1>14 DEF OutputHeld, o, l
  <2>2. FifoFrames - l <= 0 => FifoFrames - Level' <= Fresh("IN", MaxPacket)'
    BY <1>4, <1>5, <1>11, <1>13, <1>14
  <2>3. passTurn' = passTurn
    BY <1>2
  <2> HIDE DEF m
  <2> QED
    BY <1>15, <2>1, <2>2, <2>3 DEF OutputHeld, FifoFrames, m
<1>19. TotalBounded'
  <2>1. Total = w + h + o + l - ahead
    BY DEF Total, w, h, o, l
  <2>2. Total' = w + h + o + (l - taken) - ahead
    BY <1>6, <1>11, <1>15 DEF Total
  <2>3. Total' = Total - taken /\ Total \in Int
    BY <1>4, <1>6, <1>13, <2>1, <2>2
  <2>4. TotalBound \in Int /\ TotalBound = InputBound + 2 * Block + StartupFill - 1 + half + step
    BY <1>7, <1>9, PaceSizes, BoundsAre DEF TotalBound, half, step
  <2>5. Total <= TotalBound + (IF due = {"IN"} THEN Relief(rate) ELSE 0)
    <3>1. CASE due = {"IN"}
      BY <1>8, <3>1 DEF TotalBounded
    <3>2. CASE due = {"IN", "OUT"}
      <4>1. "OUT" \in due /\ "IN" \in due /\ "OUT" # "IN"
        BY <3>2
      <4>2. due # {"IN"} /\ due # {"OUT"}
        BY <4>1
      <4>3. Total <= TotalBound
        BY <1>8, <4>2 DEF TotalBounded
      <4> QED
        BY <2>3, <2>4, <4>2, <4>3
    <3> QED
      BY <1>3, <3>1, <3>2
  <2>6. Total' <= TotalBound - (IF due = {"IN"} THEN 0 ELSE Relief(rate))
    <3>1. CASE l > half + step
      <4>1. taken >= Relief(rate)
        BY <1>4, <1>5, <1>7, <1>9, <1>13, <3>1
      <4> QED
        BY <1>7, <1>13, <2>3, <2>4, <2>5, <4>1
    <3>2. CASE ~(l > half + step)
      <4>1. half + step < FifoFrames
        BY <1>4, <1>5, <1>7, <1>9, PaceSizes
      <4>2. o <= StartupFill - 1 + (IF passTurn = "IN" THEN Block ELSE 0)
        <5>1. ~(FifoFrames - l <= 0)
          BY <1>4, <1>7, <1>9, <3>2, <4>1
        <5> QED
          BY <1>8, <1>14, <5>1 DEF OutputHeld, o, l
      <4>3. w + h - ahead <= InputBound + (IF passTurn = "IN" THEN 0 ELSE Block) + Fresh("OUT", Block)
        BY <1>8 DEF InputBounded, w, h
      <4>4. w + h + o - ahead <= InputBound + Block + StartupFill - 1 + Fresh("OUT", Block)
        BY <1>4, <1>6, <1>14, <4>2, <4>3, PaceSizes, BoundsAre
      <4>5. due # {"IN"} => Fresh("OUT", Block) = 0
        BY <1>3, <1>14
      <4> QED
        BY <1>4, <1>6, <1>7, <1>9, <1>13, <1>14, <2>2, <2>4, <3>2, <4>4, <4>5, PaceSizes, BoundsAre
    <3> QED
      BY <3>1, <3>2
  <2>7. Relief(rate)' = Relief(rate) /\ TotalBound' = TotalBound
    BY <1>3 DEF Relief, Fractional, TotalBound
  <2>8. CASE due = {"IN"} /\ due' = {}
    <3>1. Total' <= TotalBound - 0
      BY <2>6, <2>8
    <3>2. Total' <= TotalBound
      BY <1>13, <2>3, <2>4, <3>1
    <3> QED
      BY <2>7, <2>8, <3>2 DEF TotalBounded
  <2>9. CASE due = {"IN", "OUT"} /\ due' = {"OUT"}
    <3>1. "OUT" \in due /\ "OUT" # "IN" /\ "OUT" \notin {"IN"} /\ "IN" \notin {"OUT"}
      BY <2>9
    <3>2. due # {"IN"} /\ {"OUT"} # {"IN"}
      BY <3>1
    <3>3. Total' <= TotalBound - Relief(rate)
      BY <2>6, <3>2
    <3> QED
      BY <2>7, <2>9, <3>2, <3>3 DEF TotalBounded
  <2> QED
    BY <1>3, <2>8, <2>9
<1>20. NothingLost' /\ KeepsUpWithTheHost'
  BY <1>2, <1>8 DEF NothingLost, KeepsUpWithTheHost
<1> QED
  BY <1>10, <1>12, <1>16, <1>17, <1>18, <1>19, <1>20 DEF PaceInv

\* Everything is empty.
LEMMA PaceBegins ==
  ASSUME PaceConstants, PacedInit
  PROVE  PaceInv
<1>1. /\ outFifo = <<>> /\ inFifo = <<>> /\ pending = <<>> /\ coldStart = TRUE /\ fellBehind = FALSE
      /\ inputRing = [held |-> <<>>, state |-> "Priming"]
      /\ outputRing = [held |-> <<>>, state |-> "Priming"]
      /\ stats = [c \in Counters |-> 0]
      /\ rate \in Rates /\ passTurn = "OUT" /\ due = {} /\ passes = 0
      /\ slot = 1 /\ ahead = 0 /\ wire = "idle"
  BY DEF PacedInit, LoopInit, Emptied
<1>2. PaceData
  <2>1. Framed(0) /\ 0 <= FifoDepth
    <3>1. 0 \div Bytes \in Nat /\ 0 % Bytes = 0
      <4>1. CASE Bytes = 2
        BY <4>1, Z3
      <4>2. CASE Bytes = 3
        BY <4>2, Z3
      <4> QED
        BY <4>1, <4>2, PaceSizes
    <3> QED
      BY <3>1, PaceSizes DEF Framed
  <2> QED
    BY <1>1, <2>1 DEF PaceData, WholeFrames, Ring
<1>3. PaceCourse
  <2>1. rate.out \in Seq(0..MaxPacket) /\ rate.out # <<>>
    BY <1>1 DEF PaceConstants, PacedConstants
  <2>2. 1 \in DOMAIN rate.out
    BY <2>1
  <2> QED
    BY <1>1, <2>2, PaceSizes DEF PaceCourse
<1>4. Waiting = 0 /\ Level = 0 /\ Len(inputRing.held) = 0 /\ Len(outputRing.held) = 0
  <2>1. 0 \div Bytes = 0
    <3>1. CASE Bytes = 2
      BY <3>1, Z3
    <3>2. CASE Bytes = 3
      BY <3>2, Z3
    <3> QED
      BY <3>1, <3>2, PaceSizes
  <2>2. Len(outFifo) = 0 /\ Len(inFifo) = 0
    BY <1>1
  <2> QED
    BY <1>1, <2>1, <2>2 DEF Waiting, Frames, Level
<1>5. ~Expected("OUT") /\ ~Expected("IN")
  BY <1>1, PaceSizes DEF Expected
<1>6. /\ Fresh("OUT", MaxPacket) = MaxPacket /\ Fresh("OUT", Block) = Block
      /\ Fresh("IN", MaxPacket) = MaxPacket
  BY <1>5 DEF Fresh
<1>7. StartupFill >= 1 /\ InputBound + Block >= 0
  BY PaceSizes, RoomyRings, BoundsAre
<1>8. Backlog
  BY <1>1, <1>4, <1>6, PaceSizes DEF Backlog
<1>9. InputBounded
  <2>1. 0 + 0 - 0 <= InputBound + Block + Block
    BY <1>7, PaceSizes, BoundsAre
  <2>2. 0 < StartupFill
    BY <1>7, PaceSizes
  <2> QED
    BY <1>1, <1>4, <1>6, <2>1, <2>2 DEF InputBounded
<1>10. Cushion
  <2>1. 0 % Block = 0 /\ 0 < StartupFill
    <3>1. 0 % Block = 0
      BY PaceSizes, Z3
    <3> QED
      BY <1>7, <3>1, PaceSizes
  <2> QED
    BY <1>1, <1>4, <1>5, <2>1 DEF Cushion
<1>11. OutputHeld
  BY <1>1, <1>4, <1>7, PaceSizes DEF OutputHeld
<1>12. TotalBounded
  <2>1. Total = 0
    BY <1>1, <1>4 DEF Total
  <2>2. TotalBound \in Int /\ TotalBound >= 0
    <3>1. rate.in[3] - rate.in[2] \in Nat
      BY <1>3, RateNumbers, PaceSizes
    <3> QED
      BY <1>7, <3>1, PaceSizes, BoundsAre, RoomyFifo DEF TotalBound
  <2>3. {} # {"IN"} /\ {} # {"OUT"}
    OBVIOUS
  <2> QED
    BY <1>1, <2>1, <2>2, <2>3 DEF TotalBounded
<1>13. NothingLost /\ KeepsUpWithTheHost
  BY <1>1 DEF NothingLost, KeepsUpWithTheHost
<1> QED
  BY <1>2, <1>3, <1>8, <1>9, <1>10, <1>11, <1>12, <1>13 DEF PaceInv

\* A step of nothing.
LEMMA PaceStutters ==
  ASSUME PaceInv, UNCHANGED pacedVars
  PROVE  PaceInv'
<1>1. /\ UNCHANGED <<outFifo, inFifo, inputRing, outputRing, pending, coldStart, stats, fellBehind>>
      /\ UNCHANGED <<rate, passTurn, first, due, passes, slot, ahead, wire>>
  BY DEF pacedVars, loopVars
<1>2. PaceData' /\ PaceCourse'
  BY <1>1 DEF PaceInv, PaceData, PaceCourse, WholeFrames, Framed
<1>3. Waiting' = Waiting /\ Level' = Level /\ Total' = Total
  BY <1>1 DEF Waiting, Frames, Level, Total
<1>4. \A kind : Expected(kind)' <=> Expected(kind)
  BY <1>1 DEF Expected
<1>5. Backlog' /\ InputBounded' /\ Cushion' /\ OutputHeld'
  BY <1>1, <1>3, <1>4 DEF PaceInv, Backlog, InputBounded, Cushion, OutputHeld, Fresh
<1>6. TotalBounded' /\ NothingLost' /\ KeepsUpWithTheHost'
  BY <1>1, <1>3
     DEF PaceInv, TotalBounded, TotalBound, Relief, Fractional, NothingLost, KeepsUpWithTheHost
<1> QED
  BY <1>2, <1>5, <1>6 DEF PaceInv

\* What the two FIFOs and the two rings hold is bounded by where the loop is in
\* its round (serviceOutFifo, runOneBlock, UsbInPath::service) and the host in its
\* frame, at all times.
THEOREM PaceInductive ==
  ASSUME PaceConstants
  PROVE  PacedSpec => []PaceInv
<1>1. PacedInit => PaceInv
  BY PaceBegins
<1>2. ASSUME PaceInv, [PacedNext]_pacedVars PROVE PaceInv'
  <2>1. CASE Serve("OUT", "DSP") /\ ServiceOut(StreamFormat)
    BY <1>2, <2>1, OutPaced
  <2>2. CASE Serve("DSP", "IN") /\ ServiceDsp
    BY <1>2, <2>2, DspPaced
  <2>3. CASE Serve("IN", "OUT") /\ ServiceIn(FALSE, StreamFormat)
    BY <1>2, <2>3, InPaced
  <2>4. CASE NewFrame
    BY <1>2, <2>4, FramePaced
  <2>5. ASSUME NEW extra \in -1..1, OutTransaction(extra) PROVE PaceInv'
    BY <1>2, <2>5, SendPaced
  <2>6. ASSUME NEW size \in FlowControl, InTransaction(size) PROVE PaceInv'
    BY <1>2, <2>6, TakePaced
  <2>7. CASE UNCHANGED pacedVars
    BY <1>2, <2>7, PaceStutters
  <2> QED
    BY <1>2, <2>1, <2>2, <2>3, <2>4, <2>5, <2>6, <2>7 DEF PacedNext, PacedLoop
<1> QED
  BY <1>1, <1>2, PTL DEF PacedSpec

\* FR-032 and SC-002, for every size, format, rate and schedule with the room
\* RoomyConstants asks for, a host that runs ahead of or behind its schedule by
\* MaxJitter frames, and one pass of the loop in a frame: no counter but that of
\* output underruns moves, no IN packet is short once audio has gone out, and no
\* OUT pass leaves more than a packet behind (usb-out-path.h relies on that for
\* its alignment, usb-in-path.h fills its FIFO a packet ahead of the wire).
THEOREM StreamsKeepPace ==
  ASSUME PaceConstants
  PROVE  PacedSpec => []PaceIsKept
<1>1. PaceInv => PaceIsKept
  BY DEF PaceInv, Cushion, NeverStarvesTheWire, PaceIsKept
<1> QED
  BY <1>1, PaceInductive, PTL
=============================================================================
