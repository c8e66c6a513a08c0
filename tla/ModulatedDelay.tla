--------------------------- MODULE ModulatedDelay ----------------------------
(***************************************************************************)
(* core/effects/modulated-delay, one channel: the wow and flutter line     *)
(* every sample goes through, the main delay line behind a sample-and-hold *)
(* decimator (it is written and read on every divisor-th sample only, and  *)
(* the wet value is held in between), and the values of the parameters     *)
(* where they act.  The smoother and the delay LFO are left free: the      *)
(* effective delay is any of Delays at any sample, the wow displacement    *)
(* anything the two LFOs can sum to.  An age in the main line is counted   *)
(* from the tape stage's output; feedback adds repeats of the same delay.  *)
(***************************************************************************)
EXTENDS DelayLine

CONSTANTS
  Capacities,    \* main line sizes: 2 s at the rate, or MaxDelaySamples
  Delays,        \* effective delays, in samples
  Divisors,      \* the lo-fi rates' divisors
  Nominal,       \* centre tap of the wow line, in samples
  WowRange,      \* displacement of one of its LFOs at depth 1
  WowGuard,      \* its guard samples
  MaxCalls       \* bound of the model: control calls in one behaviour

VARIABLES
  delayLine,     \* delays_: the main line
  divisor, phase,\* decimator_
  heldWet,       \* heldWet_: the wet value between two ticks
  wowLine,       \* the wow and flutter line
  tape,          \* x': the tape stage's last output
  wanted,        \* the value last applied to each parameter
  engine,        \* the value each parameter acts with
  queued,        \* the values published and not yet applied
  read,          \* the effective delay of the last tick, and its age
  since          \* GHOST counts: samples since a clear, ticks since then and since the divisor was set

delayVars == <<delayLine, divisor, phase, heldWet, wowLine, tape, wanted, engine, queued, read, since>>

IsGreatest(x, S) == x \in S /\ \A y \in S : y <= x
Greatest(S)  == CHOOSE x \in S : IsGreatest(x, S)
Lesser(a, b)  == IF a < b THEN a ELSE b
WowCapacity  == Nominal + 2 * WowRange + WowGuard
Settled      == Greatest(Capacities) + 1
WowSettled   == WowCapacity

DelayConstants ==
  /\ TraceConstants
  /\ Capacities \subseteq Nat \ {0, 1} /\ IsGreatest(Greatest(Capacities), Capacities)
  /\ Delays \subseteq Nat /\ Delays # {}
  /\ 1 \in Divisors /\ \A d \in Divisors : d \in Nat \ {0} /\ Ticks % d = 0
  /\ IsGreatest(Greatest(Divisors), Divisors)
  /\ Nominal = 2 * WowRange     \* reads stay in [0, 2 * Nominal]
  /\ WowRange \in Nat /\ WowGuard \in Nat \ {0} /\ MaxCalls \in Nat
  \* Ages are told apart as far back as both lines go.
  /\ (Greatest(Capacities) + 1) * Greatest(Divisors) * Ticks <= Horizon
  /\ WowCapacity * Ticks <= Horizon

DelayParam == {"cutoff", "lfoRate", "wowDepth"}
DelayValues == {"default", "user"}
DelayDefaults == [p \in DelayParam |-> "default"]

DelayTypeOK ==
  /\ CapacityOf(delayLine) \in Capacities /\ delayLine.writePos \in DOMAIN delayLine.slots
  /\ wowLine.writePos \in 0..WowCapacity - 1
  /\ divisor \in Divisors /\ phase \in 0..divisor - 1
  /\ heldWet \in Traces /\ tape \in Traces
  /\ wanted \in [DelayParam -> DelayValues] /\ engine \in [DelayParam -> DelayValues]
  /\ DOMAIN queued \subseteq DelayParam \cup {"divisor"}
  /\ read.delay \in Delays /\ read.age \in 0..Greatest(Divisors)
  /\ since.ticks \in 0..Settled /\ since.filled \in 0..Settled
  /\ since.samples \in 0..WowSettled /\ since.calls \in 0..MaxCalls

DelayInit ==
  /\ \E c \in Capacities : delayLine = Line(c)
  /\ divisor = 1 /\ phase = 0 /\ heldWet = Silent
  /\ wowLine = Line(WowCapacity) /\ tape = Silent
  /\ wanted = DelayDefaults /\ engine = DelayDefaults /\ queued = <<>>
  /\ read = [delay |-> CHOOSE d \in Delays : TRUE, age |-> 0]
  /\ since = [ticks |-> 0, filled |-> 0, samples |-> 0, calls |-> 0]

MayCall == since.calls < MaxCalls
CountsCleared == since' = [ticks |-> 0, filled |-> 0, samples |-> 0, calls |-> since.calls + 1]

Published(p, v) == [q \in DOMAIN queued \cup {p} |-> IF q = p THEN v ELSE queued[q]]

\* setParameter(): from any thread, at any time.
SetDelayParameter ==
  /\ MayCall
  /\ since' = [since EXCEPT !.calls = @ + 1]
  /\ \/ \E p \in DelayParam, v \in DelayValues : queued' = Published(p, v)
     \/ \E d \in Divisors : queued' = Published("divisor", d)
  /\ UNCHANGED <<delayLine, divisor, phase, heldWet, wowLine, tape, wanted, engine, read>>

\* MUTANT of Reprepared: the filter keeps the value it was initialised with.
RepreparedDefaults(values) == DelayDefaults

\* What prepare() leaves in the stages: the LFO rates and the wow and flutter
\* depths are seeded with their defaults, the filter is given its value again.
Reprepared(values) == [DelayDefaults EXCEPT !.cutoff = values.cutoff]

\* prepare(), the stream stopped.  The decimator keeps divisor and phase.
PrepareDelay ==
  /\ MayCall /\ CountsCleared
  /\ \E c \in Capacities : delayLine' = Line(c)
  /\ wowLine' = Line(WowCapacity)
  /\ heldWet' = Silent /\ tape' = Silent
  /\ engine' = Reprepared(wanted)
  /\ read' = [read EXCEPT !.age = 0]
  /\ UNCHANGED <<divisor, phase, wanted, queued>>

\* reset(), the stream stopped.  Rates and depths stay as they act.
ResetDelay ==
  /\ MayCall /\ CountsCleared
  /\ delayLine' = Line(CapacityOf(delayLine))
  /\ wowLine' = Line(WowCapacity)
  /\ heldWet' = Silent /\ tape' = Silent
  /\ engine' = [engine EXCEPT !.cutoff = wanted.cutoff]
  /\ read' = [read EXCEPT !.age = 0]
  /\ UNCHANGED <<divisor, phase, wanted, queued>>

\* MUTANT of Restarted: a new divisor keeps the old phase.
RestartedInPhase(d) == phase % d

\* setDivisor(): the next sample is a tick.
Restarted(d) == 0

\* MUTANT of Carried: a new divisor clears the line it reinterprets.
CarriedClean(d) == IF d # divisor THEN Line(CapacityOf(delayLine)) ELSE delayLine

\* The tape-speed rule: a new divisor finds the line as the old one left it.
Carried(d) == delayLine

\* MUTANT of TapeWritten: the bypassed stage does not write.
TapeWrittenActive(depth) ==
  IF depth = "user" THEN Write(LineAged(wowLine), Input) ELSE LineAged(wowLine)

\* WowFlutterStage::processSample(): the line is written even when bypassed.
TapeWritten(depth) == Write(LineAged(wowLine), Input)

\* The delay in internal samples, clamped to the realizable maximum.
Internal(delay, d) == (Lesser(delay, CapacityOf(delayLine) * d) * Ticks) \div d

\* applyPending(): each value published replaces the one in `values`.
Overlaid(values) == [p \in DelayParam |-> IF p \in DOMAIN queued THEN queued[p] ELSE values[p]]

\* process(): queued edits, then one sample at some effective delay.
ProcessDelay(delay, displacement) ==
  LET now    == Overlaid(wanted)
      acting == Overlaid(engine)
      set    == "divisor" \in DOMAIN queued
      d      == IF set THEN queued["divisor"] ELSE divisor
      at     == IF set THEN Restarted(d) ELSE phase
      tick   == at = 0
      line   == LineAged(Carried(d))
      wow    == TapeWritten(acting.wowDepth)
      ticks  == IF set THEN 0 ELSE since.ticks
  IN  /\ (acting.wowDepth = "default" => displacement = 0) /\ (~tick => delay = read.delay)
      /\ wanted' = now /\ engine' = acting /\ queued' = <<>>
      /\ divisor' = d /\ phase' = (at + 1) % d
      /\ wowLine' = wow
      /\ tape' = IF acting.wowDepth = "default" THEN Input
                 ELSE ReadFractional(wow, (Nominal + displacement) * Ticks)
      /\ heldWet' = IF tick THEN ReadFractional(line, Internal(delay, d)) ELSE Aged(heldWet)
      /\ delayLine' = IF tick THEN Write(line, Input) ELSE line
      /\ read' = IF tick THEN [delay |-> delay, age |-> 0]
                 ELSE [read EXCEPT !.age = Lesser(@ + 1, Greatest(Divisors))]
      /\ since' = [since EXCEPT !.samples = Lesser(@ + 1, WowSettled),
                                !.ticks   = IF tick THEN Lesser(ticks + 1, Settled) ELSE ticks,
                                !.filled  = IF tick THEN Lesser(@ + 1, Settled) ELSE @]

DelayNext ==
  \/ SetDelayParameter \/ PrepareDelay \/ ResetDelay
  \/ \E delay \in Delays, displacement \in -2 * WowRange..2 * WowRange : ProcessDelay(delay, displacement)

DelaySpec == DelayInit /\ [][DelayNext]_delayVars

-----------------------------------------------------------------------------
(* Properties.                                                             *)

\* A line filled at one divisor gives back what was put in the requested time
\* ago: the delay it was asked for plus the one internal sample it is read
\* before it is written, plus the samples the value has been held; a delay
\* beyond the line gives the oldest sample of the line.
DelayIsHonoured ==
  since.ticks = Settled =>
    heldWet.centre = (Lesser(read.delay, (CapacityOf(delayLine) - 1) * divisor)
                        + divisor + read.age) * Ticks

\* The wet value is never held longer than one internal sample, whatever the
\* divisor was when its hold began: a change of rate, reset or prepare in the
\* middle of a hold included.
HeldIsFresh == read.age < divisor

\* A change of rate reinterprets the buffer and does not lose it: once the
\* line was filled, no sequence of rates makes the wet signal silent.
RateChangeKeepsEcho == since.filled = Settled => heldWet.centre # Unclear

\* Raising the wow depth in mid-stream finds a line that was written all
\* along (126-129): the tape's output is never older than the two LFOs ask for
\* and never from a part of the stream it was not in.
TapeHearsCurrent ==
  since.samples = WowSettled => tape.centre \in 0..2 * Nominal * Ticks

\* A filter value survives every stop and restart of the stream.
FilterKeepsValue == engine.cutoff = wanted.cutoff

\* What the lifecycle promises of prepare() ("apply all current parameters"):
\* every parameter acts with the value last applied to it.
PrepareAppliesCurrent == engine = wanted
=============================================================================
