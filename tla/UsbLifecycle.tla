---------------------------- MODULE UsbLifecycle ----------------------------
(***************************************************************************)
(* What the host may do to a stream besides sending it: open and close     *)
(* either direction, change its format or its rate, suspend and resume the *)
(* bus, reset it.  tud_task() hands these events to callbacks that only    *)
(* record them (and, for the bus events, restart the rings at once); the   *)
(* loop then reconciles, before its data services run:                     *)
(*                                                                         *)
(*   tud_task -> ServiceUsbLifecycle -> ServiceRateChange                  *)
(*            -> ServiceFormatChange -> OUT -> DSP -> IN -> tud_task ...   *)
(*                                                                         *)
(* The hazard is everything in between: two events drained by one          *)
(* tud_task, a level compared where an edge was meant, one format record   *)
(* for two directions, FIFOs that nobody empties.                          *)
(*                                                                         *)
(* External: that SET_INTERFACE empties the FIFO of an endpoint it closes  *)
(* (format-change-service.h relies on it), and that a bus reset empties    *)
(* both, puts both interfaces back to alt 0 and runs no alt-setting        *)
(* callback.  A frame is a frame here; only its format tells it apart.     *)
(***************************************************************************)
EXTENDS ServiceLoop

CONSTANTS
  MaxEvents,   \* the events one tud_task call may drain
  Alts,        \* the streaming alt settings the host uses: 1 (16), 2 (24 bit)
  CleanSwitch, \* does the host change format only with nothing in flight?
  BusResets,   \* does the host ever reset the bus?
  Pcm          \* the one audio frame there is

LifecycleConstants ==
  /\ LoopConstants
  /\ MaxEvents \in Nat \ {0}
  /\ Alts \subseteq {1, 2} /\ Alts # {}
  /\ CleanSwitch \in BOOLEAN /\ BusResets \in BOOLEAN
  /\ Garbled \notin {Pcm, Silence}

ASSUME LifecycleAssumption == LifecycleConstants

VARIABLES
  turn, drained,  \* the loop's next step, and the events drained in this pass
  alt, asleep,    \* the stack's view: each interface's alt setting; suspended?
  streaming,      \* g_outStreaming, g_inStreaming
  previously,     \* g_prevOutStreaming, g_prevInStreaming
  format,         \* g_currentAudioFormat: one record for both directions
  formatLatch,    \* g_formatChangeLatch is pending (its value is discarded)
  rateLatch,      \* g_rateChangeLatch is pending
  owed            \* GHOST: the directions whose ring must restart before use

busVars == <<alt, asleep, streaming, previously, format, formatLatch, rateLatch, owed>>
vars == <<loopVars, turn, drained, busVars>>
restOfLoop == <<pending, coldStart, stats, fellBehind>>

\* OUT (host to device) feeds the input ring, IN is fed by the output ring.
Direction == {"OUT", "IN"}
Other(d)  == CHOOSE e \in Direction : e # d

FormatOf(a) == IF a = 2 THEN "Pcm24" ELSE "Pcm16"

\* MUTANT of CaptureOnly: the negation is lost.
CaptureOnlyInverted == streaming["IN"] /\ streaming["OUT"]

\* MUTANT of CaptureOnly: the output ring must be running, as it is elsewhere.
CaptureOnlyRunning ==
  streaming["IN"] /\ ~streaming["OUT"] /\ outputRing.state = "Running"

CaptureOnly == streaming["IN"] /\ ~streaming["OUT"]      \* CaptureOnlyActive()

Restarted(dirs, state) ==
  /\ inputRing'  = IF "OUT" \in dirs THEN Emptied(state) ELSE inputRing
  /\ outputRing' = IF "IN" \in dirs THEN Emptied(state) ELSE outputRing

Flushed(dirs) ==
  /\ outFifo' = IF "OUT" \in dirs THEN <<>> ELSE outFifo
  /\ inFifo'  = IF "IN" \in dirs THEN <<>> ELSE inFifo

(* tud_task and its callbacks -----------------------------------------------------*)

\* Nothing that a change of format could tear is on its way.
NothingInFlight(d) ==
  /\ alt[Other(d)] = 0
  /\ (IF d = "OUT" THEN inFifo ELSE outFifo) = <<>>
  /\ alt[d] # 0 \/ (IF d = "OUT" THEN outFifo ELSE inFifo) = <<>>

\* MUTANT of SetInterface: only the playback interface selects the format.
SetInterfaceOutSelects(d, a) ==
  LET selected == IF a = 0 \/ d = "IN" THEN format ELSE FormatOf(a)
      changed  == selected # format
  IN /\ ~asleep
     /\ changed /\ CleanSwitch => NothingInFlight(d)
     /\ Flushed(IF alt[d] # 0 THEN {d} ELSE {})
     /\ alt'         = [alt EXCEPT ![d] = a]
     /\ streaming'   = [streaming EXCEPT ![d] = a # 0]
     /\ format'      = selected
     /\ formatLatch' = (formatLatch \/ changed)
     /\ owed'        = IF changed THEN Direction ELSE owed
     /\ UNCHANGED <<inputRing, outputRing, restOfLoop, asleep, previously, rateLatch>>

\* SET_INTERFACE: the endpoint that was open is closed and its FIFO emptied,
\* then tud_audio_set_itf_close_ep_cb and tud_audio_set_itf_cb record it.
SetInterface(d, a) ==
  LET selected == IF a = 0 THEN format ELSE FormatOf(a)
      changed  == selected # format
  IN /\ ~asleep
     /\ changed /\ CleanSwitch => NothingInFlight(d)
     /\ Flushed(IF alt[d] # 0 THEN {d} ELSE {})
     /\ alt'         = [alt EXCEPT ![d] = a]
     /\ streaming'   = [streaming EXCEPT ![d] = a # 0]
     /\ format'      = selected
     /\ formatLatch' = (formatLatch \/ changed)
     /\ owed'        = CASE changed -> Direction
                         [] ~changed /\ a # 0 /\ alt[d] = 0 -> owed \cup {d}
                         [] a = 0 /\ ~formatLatch /\ ~rateLatch -> owed \ {d}
                         [] OTHER -> owed
     /\ UNCHANGED <<inputRing, outputRing, restOfLoop, asleep, previously, rateLatch>>

\* SET CUR of the clock's sampling frequency, to a rate the device offers.
SetRate ==
  /\ ~asleep
  /\ rateLatch' = TRUE
  /\ owed' = Direction
  /\ UNCHANGED <<loopVars, alt, asleep, streaming, previously, format, formatLatch>>

\* tud_suspend_cb: applySuspend stops both rings.
Suspend ==
  /\ ~asleep /\ asleep' = TRUE
  /\ Restarted(Direction, "Stopped")
  /\ owed' = {}
  /\ UNCHANGED <<outFifo, inFifo, restOfLoop, alt, streaming, previously, format,
                 formatLatch, rateLatch>>

\* tud_resume_cb: applyResumeOrBusReset re-primes both.
Resume ==
  /\ asleep /\ asleep' = FALSE
  /\ Restarted(Direction, "Priming")
  /\ owed' = {}
  /\ UNCHANGED <<outFifo, inFifo, restOfLoop, alt, streaming, previously, format,
                 formatLatch, rateLatch>>

\* MUTANT of BusReset: no tud_mount_cb.
BusResetUnnoticed ==
  /\ BusResets
  /\ asleep' = FALSE
  /\ alt' = [d \in Direction |-> 0]
  /\ Flushed(Direction)
  /\ owed' = {}
  /\ UNCHANGED <<inputRing, outputRing, restOfLoop, streaming, previously, format,
                 formatLatch, rateLatch>>

\* Reset and re-enumeration, asleep or not: tud_umount_cb is not overridden,
\* tud_mount_cb re-primes both rings.  What the loop does between the two
\* calls is undone by the second, so they are one event.
BusReset ==
  /\ BusResets
  /\ asleep' = FALSE
  /\ alt' = [d \in Direction |-> 0]
  /\ Flushed(Direction)
  /\ Restarted(Direction, "Priming")
  /\ owed' = {}
  /\ UNCHANGED <<restOfLoop, streaming, previously, format, formatLatch, rateLatch>>

TaskEvent ==
  /\ turn = "task" /\ UNCHANGED turn
  /\ drained < MaxEvents /\ drained' = drained + 1
  /\ \/ \E d \in Direction, a \in Alts \cup {0} : SetInterface(d, a)
     \/ SetRate
     \/ Suspend
     \/ Resume
     \/ BusReset

TaskDone ==
  /\ turn = "task" /\ turn' = "lifecycle" /\ drained' = 0
  /\ UNCHANGED <<loopVars, busVars>>

(* The control services -------------------------------------------------------------*)

Step(from, to) == turn = from /\ turn' = to /\ UNCHANGED drained

\* A ring as a restart leaves it.
Restarts(d) == (IF d = "OUT" THEN inputRing ELSE outputRing) = Emptied("Priming")

\* applyResumeOrBusReset, or half of it: these rings restart.
Repriming(dirs) ==
  /\ Restarted(dirs, "Priming")
  /\ owed' = {d \in owed : ~Restarts(d)'}
  /\ UNCHANGED <<outFifo, inFifo, restOfLoop, alt, asleep, streaming, format>>

\* MUTANT of ServiceUsbLifecycle: a direction that streamed once is remembered
\* as streaming.
ServiceUsbLifecycleSticky ==
  /\ Step("lifecycle", "rate")
  /\ Repriming({d \in Direction : streaming[d] /\ ~previously[d]})
  /\ previously' = [d \in Direction |-> previously[d] \/ streaming[d]]
  /\ UNCHANGED <<formatLatch, rateLatch>>

\* reconcileStreamOpenEdges: a direction that streams and did not at the last
\* pass restarts its own ring.
ServiceUsbLifecycle ==
  /\ Step("lifecycle", "rate")
  /\ Repriming({d \in Direction : streaming[d] /\ ~previously[d]})
  /\ previously' = streaming
  /\ UNCHANGED <<formatLatch, rateLatch>>

\* MUTANT of ServiceRateChange: the latch is read and not consumed.
ServiceRateChangeSticky ==
  /\ Step("rate", "format")
  /\ Repriming(IF rateLatch THEN Direction ELSE {})
  /\ UNCHANGED <<previously, formatLatch, rateLatch>>

\* The effect is prepared for the new rate too; it has no state here.
ServiceRateChange ==
  /\ Step("rate", "format")
  /\ Repriming(IF rateLatch THEN Direction ELSE {})
  /\ rateLatch' = FALSE
  /\ UNCHANGED <<previously, formatLatch>>

ServiceFormatChange ==
  /\ Step("format", "OUT")
  /\ Repriming(IF formatLatch THEN Direction ELSE {})
  /\ formatLatch' = FALSE
  /\ UNCHANGED <<previously, rateLatch>>

(* The data services ----------------------------------------------------------------*)

DataOut == Step("OUT", "DSP") /\ ServiceOut(format)            /\ UNCHANGED busVars
DataDsp == Step("DSP", "IN")  /\ ServiceDsp                    /\ UNCHANGED busVars
DataIn  == Step("IN", "task") /\ ServiceIn(CaptureOnly, format) /\ UNCHANGED busVars

(* The host's packets ---------------------------------------------------------------*)

Talking(d) == ~asleep /\ alt[d] # 0

SendPayload(n) ==
  /\ Talking("OUT")
  /\ outFifo' = outFifo \o Encode([i \in 1..n |-> Pcm], FormatOf(alt["OUT"]))
  /\ Len(outFifo') <= FifoDepth
  /\ UNCHANGED <<inFifo, inputRing, outputRing, restOfLoop, turn, drained, busVars>>

TakePayload(n) ==
  LET bytes == n * BytesPerFrame(FormatOf(alt["IN"]))
  IN /\ Talking("IN")
     /\ bytes <= Len(inFifo)
     /\ inFifo' = Rest(inFifo, bytes)
     /\ UNCHANGED <<outFifo, inputRing, outputRing, restOfLoop, turn, drained, busVars>>

(* Specification ----------------------------------------------------------------------*)

Init ==
  /\ LoopInit
  /\ turn = "task" /\ drained = 0
  /\ alt = [d \in Direction |-> 0] /\ asleep = FALSE
  /\ streaming = [d \in Direction |-> FALSE]
  /\ previously = streaming
  /\ format = "Pcm16" /\ formatLatch = FALSE /\ rateLatch = FALSE
  /\ owed = {}

Services == \/ TaskDone
            \/ ServiceUsbLifecycle \/ ServiceRateChange \/ ServiceFormatChange
            \/ DataOut \/ DataDsp \/ DataIn

Next == \/ TaskEvent
        \/ Services
        \/ \E n \in 1..MaxPacket : SendPayload(n)
        \/ \E n \in 1..MaxPacket : TakePayload(n)

Spec == Init /\ [][Next]_vars

\* The loop never blocks and drains finitely many events a pass; a host that
\* has a stream open goes on playing it.
FairSpec == /\ Spec
            /\ WF_vars(Services)
            /\ WF_vars(\E n \in 1..MaxPacket : SendPayload(n))
            /\ WF_vars(\E n \in 1..MaxPacket : TakePayload(n))

(* Properties -----------------------------------------------------------------------*)

DataTurn == turn \in {"OUT", "DSP", "IN"}

TypeOK ==
  /\ \A ring \in {inputRing, outputRing} :
       /\ ring.state \in RingState
       /\ ring.held \in Seq({Pcm, Silence, Garbled}) /\ Len(ring.held) <= Capacity
  /\ Len(outFifo) <= FifoDepth /\ Len(inFifo) <= FifoDepth
  /\ pending = <<>>          \* the sink takes what it has room for
  /\ turn \in {"task", "lifecycle", "rate", "format", "OUT", "DSP", "IN"}
  /\ drained \in 0..MaxEvents
  /\ alt \in [Direction -> {0, 1, 2}]
  /\ streaming \in [Direction -> BOOLEAN] /\ previously \in [Direction -> BOOLEAN]
  /\ format \in Format /\ owed \subseteq Direction
  /\ {asleep, formatLatch, rateLatch} \subseteq BOOLEAN

\* AR9, FR-006 and FR-055: once a stream has been opened, or its rate or format
\* changed, the ring concerned is emptied before any data service touches it.
RestartBeforeUse == DataTurn => owed = {}

\* FR-051 and FR-052: both rings are Stopped for as long as the bus sleeps, and
\* neither is left Stopped once it is awake.
StoppedIffAsleep ==
  \A ring \in {inputRing, outputRing} : ring.state = "Stopped" <=> asleep

\* AR9 and FR-050 to FR-055, the two together: what the rings hold when a data
\* service looks at them is what the host's last word allows.
RingsRestart == RestartBeforeUse /\ StoppedIffAsleep

\* FR-029a as the host sees it while it listens: silence it is given counts as
\* inputStarved if it has no playback stream open and as outputUnderruns if it
\* has, and never as both.
AttributesSilence ==
  alt["IN"] # 0 =>
    /\ stats'["inputStarved"] # stats["inputStarved"] => alt["OUT"] = 0
    /\ stats'["outputUnderruns"] # stats["outputUnderruns"] => alt["OUT"] # 0
SilenceIsAttributed == [][AttributesSilence]_vars

\* FR-005: whatever is in a ring, or in the IN FIFO of a host that listens, was
\* read in the format it was written in.
NothingGarbled ==
  /\ \A ring \in {inputRing, outputRing} : \A i \in DOMAIN ring.held : ring.held[i] # Garbled
  /\ alt["IN"] # 0 =>
       LET frames == Decode(inFifo, FormatOf(alt["IN"]))
       IN \A i \in DOMAIN frames : frames[i] # Garbled

\* From some moment on the host asks for nothing more, and is awake.
Settled == <>[][~TaskEvent]_vars /\ <>[]~asleep

\* FR-029, and FR-055 for capture only: a host that settles on listening alone
\* is given silence for as long as it does, whatever came before.
CaptureIsServed ==
  Settled /\ <>[](alt["IN"] # 0 /\ alt["OUT"] = 0) => []<>(inFifo # <<>>)

\* FR-052 and FR-055: whatever came before, a host that settles on both streams
\* hears its own audio again, and never stops hearing it.
DuplexStreamsAgain ==
  Settled /\ <>[](alt["IN"] # 0 /\ alt["OUT"] # 0)
    => []<>(\E i \in DOMAIN inFifo : inFifo[i].frame = Pcm)
=============================================================================
