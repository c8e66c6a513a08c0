------------------------------ MODULE Dynamics -------------------------------
(***************************************************************************)
(* core/primitives/dynamics: the level detector of envelope-follower.h and *)
(* the static curve of gain-computer.h, which share nothing.               *)
(*                                                                         *)
(* A level is a step of 0..Top, of which 0 is the floor of either domain   *)
(* (0 linear, -120 dB).  A one-pole recursion with a coefficient in [0, 1) *)
(* ends anywhere from where it was to where it is heading, so the          *)
(* coefficients, and the setters that only change them, are left out.  The *)
(* curve is exact: gains are integers over 2RW (slopes) or W^3 (the gate). *)
(***************************************************************************)
EXTENDS Integers, Sequences

CONSTANTS
  Top,        \* the loudest level
  HoldTimes,  \* hold times a user may set, in samples
  Curves,     \* settings of the gain computer: mode, ratio, knee, range
  Reach       \* the curve is read this far from its threshold, in dB

VARIABLES
  mode,         \* "peak", "rms" or "peakHold"
  ballistics,   \* "branching" or "decoupled"
  domain,       \* "linear" or "decibel"
  holdSamples,
  env, y1, meanSquare, heldPeak, holdCounter,
  heard,        \* the loudest input since the follower was cleared
  recent,       \* the inputs since the peak detector was selected or changed and what was
                \* left of a longer hold ran out, the latest first
  curve, distance, gainDb    \* the curve, the last level it was asked for, its answer
config == <<mode, ballistics, domain, holdSamples>>
memory == <<env, y1, meanSquare, heldPeak, holdCounter>>
followerVars == <<config, memory, heard, recent>>
curveVars == <<curve, distance, gainDb>>

Floor == 0
Larger(a, b) == IF a > b THEN a ELSE b
Smaller(a, b) == IF a < b THEN a ELSE b

\* How many inputs the properties look back on: a peak, and the hold time
\* before it and after it.
Lookback == 2 * (holdSamples + 1)

\* An even knee, so that its edges are whole decibels.
DynamicsConstants ==
  /\ Top \in Nat \ {0} /\ HoldTimes \subseteq Nat /\ HoldTimes # {} /\ Reach \in Nat
  /\ \A c \in Curves : /\ c.mode \in {"compress", "limit", "expand", "gate"}
                       /\ c.ratio \in Nat \ {0} /\ c.range \in Int /\ c.range <= 0
                       /\ c.knee \in Nat /\ c.knee % 2 = 0

---------------------------------------------------------------------------
(* The follower.                                                           *)

\* MUTANT of Cleared: the release stage keeps what it had.
ClearedEnvelope == env' = Floor /\ y1' = y1

\* The smoother at the floor of the current domain.
Cleared == env' = Floor /\ y1' = Floor

\* clearRuntimeState()
ClearRuntimeState ==
  /\ Cleared
  /\ meanSquare' = 0 /\ heldPeak' = 0 /\ holdCounter' = 0
  /\ heard' = 0 /\ recent' = <<>>

FollowerInit ==
  /\ mode = "peak" /\ ballistics = "branching" /\ domain = "linear" /\ holdSamples = 0
  /\ env = Floor /\ y1 = Floor /\ meanSquare = 0 /\ heldPeak = 0 /\ holdCounter = 0
  /\ heard = 0 /\ recent = <<>>

\* init() and reset() keep the parameters.
FollowerReset == ClearRuntimeState /\ UNCHANGED config

\* The setters keep the memories, so that a live change does not click.
SetMode(m) == mode' = m /\ recent' = <<>> /\ UNCHANGED <<ballistics, domain, holdSamples, memory, heard>>
SetBallistics(b) == ballistics' = b /\ UNCHANGED <<mode, domain, holdSamples, memory, heard, recent>>
SetHold(n) == holdSamples' = n /\ recent' = <<>> /\ UNCHANGED <<mode, ballistics, domain, memory, heard>>

\* setDomain(): the units of the smoother change, so it starts over.
SetDomain(d) ==
  /\ domain' = d
  /\ IF d = domain THEN UNCHANGED <<env, y1>> ELSE Cleared
  /\ UNCHANGED <<mode, ballistics, holdSamples, meanSquare, heldPeak, holdCounter, heard, recent>>

Toward(a, b) == Smaller(a, b)..Larger(a, b)

\* MUTANT of Held: the hold ends one sample early.
HeldShort(x) ==
  IF x >= heldPeak THEN <<x, holdSamples>>
  ELSE IF holdCounter > 1 THEN <<heldPeak, holdCounter - 1>> ELSE <<x, holdCounter>>

\* The peak held and the samples left of its hold, after an input x.
Held(x) ==
  IF x >= heldPeak THEN <<x, holdSamples>>
  ELSE IF holdCounter > 0 THEN <<heldPeak, holdCounter - 1>> ELSE <<x, holdCounter>>

\* detect(): only the memory of the selected mode moves.
Detect(x) ==
  /\ IF mode = "rms" THEN meanSquare' \in Toward(meanSquare, x) ELSE UNCHANGED meanSquare
  /\ IF mode = "peakHold" THEN heldPeak' = Held(x)[1] /\ holdCounter' = Held(x)[2]
     ELSE UNCHANGED <<heldPeak, holdCounter>>

DetectedLevel(x) == CASE mode = "rms" -> meanSquare' [] mode = "peakHold" -> heldPeak' [] OTHER -> x

\* applySmoothing(): the decoupled release decays to the floor, or (smooth) to
\* the level, and never lies below the level; the branching one has no stage y1.
ApplySmoothing(level) ==
  IF ballistics = "branching" THEN env' \in Toward(env, level) /\ UNCHANGED y1
  ELSE y1' \in level..Larger(level, y1) /\ env' \in Toward(env, y1')

ProcessSample(x) ==
  /\ Detect(x)
  /\ ApplySmoothing(DetectedLevel(x))
  /\ heard' = Larger(heard, x)
  /\ recent' = IF mode = "peakHold" /\ holdCounter <= holdSamples
               THEN SubSeq(<<x>> \o recent, 1, Smaller(Lookback, Len(recent) + 1))
               ELSE recent
  /\ UNCHANGED config

FollowerNext ==
  \/ \E x \in 0..Top : ProcessSample(x)
  \/ \E m \in {"peak", "rms", "peakHold"} : SetMode(m)
  \/ \E b \in {"branching", "decoupled"} : SetBallistics(b)
  \/ \E d \in {"linear", "decibel"} : SetDomain(d)
  \/ \E n \in HoldTimes : SetHold(n)
  \/ FollowerReset

FollowerSpec == FollowerInit /\ [][FollowerNext]_followerVars

---------------------------------------------------------------------------
(* The gain computer.  u is the distance from the threshold in dB.         *)

\* A slope over the ratio: below and above the knee.
Slopes(c) ==
  CASE c.mode = "compress" -> <<0, 1 - c.ratio>>
    [] c.mode = "limit" -> <<0, 0 - c.ratio>>
    [] OTHER -> <<c.ratio * (c.ratio - 1), 0>>

\* Over 2RW; a hard corner has no W to divide by.
Unit(c) == 2 * c.ratio * Larger(c.knee, 1)

\* MUTANT of KneeGain: the knee starts at the threshold, not half a width below.
KneeGainLate(c, u) ==
  LET low == Slopes(c)[1]  high == Slopes(c)[2]
      W == Larger(c.knee, 1)  half == c.knee \div 2
  IN  IF u <= 0 - half THEN 2 * W * low * u
      ELSE IF u >= half THEN 2 * W * high * u
      ELSE 2 * W * low * u + (high - low) * u * u

KneeGain(c, u) ==
  LET low == Slopes(c)[1]  high == Slopes(c)[2]
      W == Larger(c.knee, 1)  half == c.knee \div 2
  IN  IF u <= 0 - half THEN 2 * W * low * u
      ELSE IF u >= half THEN 2 * W * high * u
      ELSE 2 * W * low * u + (high - low) * (u + half) * (u + half)

\* range * (1 - (3 tau^2 - 2 tau^3)), tau = (u + W/2)/W, over W^3.
GateGain(c, u) ==
  LET W == c.knee  half == W \div 2  t == u + half
  IN  IF W = 0 THEN IF u < 0 THEN c.range ELSE 0
      ELSE IF u >= half THEN 0
      ELSE IF u <= 0 - half THEN c.range * W * W * W
      ELSE c.range * (W * W * W - t * t * (3 * W - 2 * t))

ComputeGainDb(c, u) ==
  CASE c.mode = "gate" -> GateGain(c, u)
    [] c.mode = "expand" -> Larger(KneeGain(c, u), c.range * Unit(c))
    [] OTHER -> KneeGain(c, u)

CurveInit == /\ curve \in Curves /\ distance = 0 - Reach
             /\ gainDb = ComputeGainDb(curve, distance)

\* The computer keeps nothing between calls: any level may come next.
AskNext ==
  \E u \in (0 - Reach)..Reach :
    distance' = u /\ gainDb' = ComputeGainDb(curve, u) /\ UNCHANGED curve

CurveSpec == CurveInit /\ [][AskNext]_curveVars

---------------------------------------------------------------------------
DynamicsTypeOK ==
  /\ {env, y1, meanSquare, heldPeak, heard} \subseteq 0..Top
  /\ holdSamples \in HoldTimes \cup {0} /\ holdCounter \in Nat
  /\ \E n \in HoldTimes \cup {0} : holdCounter <= n
  /\ distance \in (0 - Reach)..Reach

\* Whatever was switched on the way, the follower never reports, nor has in
\* store, a level louder than what it was given since it was cleared.
EnvelopeWasHeard == {env, y1, meanSquare, heldPeak} \subseteq 0..heard

\* SC-005: a peak louder than everything in the hold time before it is detected
\* for the whole hold time after it.
PeakIsHeld ==
  mode = "peakHold" =>
    \A i \in 1..Smaller(holdSamples, Len(recent) - holdSamples - 2) + 1 :
      (\A j \in i + 1..i + holdSamples + 1 : recent[j] < recent[i]) => heldPeak >= recent[i]

\* The slope of the curve, which moves from one segment's to the other's in
\* proportion across the knee: over R, or RW where there is a knee.
Slope(c, u) ==
  LET low == Slopes(c)[1]  high == Slopes(c)[2]
      t == Smaller(Larger(u + c.knee \div 2, 0), c.knee)
  IN  c.knee * low + (high - low) * t

\* What the gain changes by over the decibel that ends at u: the area under the
\* slope, which without a knee is the one line's or the other's.
Climb(c, u) ==
  IF c.knee = 0 THEN 2 * (IF u <= 0 THEN Slopes(c)[1] ELSE Slopes(c)[2])
  ELSE Slope(c, u - 1) + Slope(c, u)

\* Where nothing is attenuated: below the knee, and for an expander above it.
AtUnity(c, u) ==
  IF c.mode = "expand" THEN u >= c.knee \div 2 ELSE u <= 0 - c.knee \div 2

\* The curve is the one its header defines: the gain is 0 dB on the unity side
\* and grows from there by what its slope adds up to, so it has neither a step
\* nor a corner, and expansion stops at the range; a gate is symmetrical about
\* the middle of its range and stays within it.  The curve never boosts, and a
\* louder input of a compressor or limiter never comes out softer.
CurveIsAsDefined ==
  LET before == ComputeGainDb(curve, distance - 1)
      climb == Climb(curve, distance)
      depth == curve.range * curve.knee * curve.knee * curve.knee
  IN  /\ gainDb <= 0
      /\ curve.mode # "gate" /\ AtUnity(curve, distance) => gainDb = 0
      /\ curve.mode = "expand" => before = Larger(gainDb - climb, curve.range * Unit(curve))
      /\ curve.mode \in {"compress", "limit"} =>
           gainDb = before + climb /\ gainDb - before >= 0 - Unit(curve)
      /\ curve.mode = "gate" /\ curve.knee > 0 =>
           gainDb >= depth /\ gainDb + ComputeGainDb(curve, 0 - distance) = depth
=============================================================================
