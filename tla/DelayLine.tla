------------------------------ MODULE DelayLine ------------------------------
(***************************************************************************)
(* The circular delay buffer the effects keep, as a value: the ring of     *)
(* core/primitives/delays/delay-line.h, its owning twin                    *)
(* bounded-delay-line.h, and the copies inlined in the saturation,         *)
(* tape-dynamics and compressor cores, which use the same two formulas.    *)
(*                                                                         *)
(* What a line holds is what the properties of the effects tell apart in   *)
(* an audio value, its trace: when the input samples it was computed from  *)
(* were taken.  "centre" is their mean age (a linear-phase filter delays a *)
(* signal by exactly that much), "reach" the age of the oldest one.  Ages  *)
(* are in ticks before the input sample being processed; Ticks of them     *)
(* make one base-rate sample, enough for the samples of an oversampled     *)
(* stream and the halves between them.                                     *)
(***************************************************************************)
EXTENDS Integers

CONSTANTS
  Ticks,      \* ticks in one base-rate sample
  Horizon     \* ages are not told apart beyond this many ticks

\* What a module of effects requires of the two.
TraceConstants == Ticks \in Nat \ {0} /\ Horizon \in Nat \ {0}

Unclear == -1           \* the samples have no common centre
Ages == Unclear..Horizon

Traces == [centre : Ages, reach : Ages]

\* The zero a cleared memory holds: computed from no input at all.
Silent == [centre |-> Unclear, reach |-> Unclear]
Input  == [centre |-> 0, reach |-> 0]

\* One base-rate sample later.
Later(age) == IF age = Unclear THEN Unclear
              ELSE IF age + Ticks > Horizon THEN Horizon ELSE age + Ticks
Aged(t)    == [centre |-> Later(t.centre), reach |-> Later(t.reach)]

\* A sum of two values: aligned when their centres agree.
Sum2(s, t) ==
  [centre |-> IF s.centre = t.centre THEN s.centre ELSE Unclear,
   reach  |-> IF s.reach > t.reach THEN s.reach ELSE t.reach]

\* (1 - part/Ticks) * s + (part/Ticks) * t: linear interpolation between
\* two stored samples; the second takes part only when part is not zero.
Between(s, t, part) ==
  IF part = 0 THEN s
  ELSE [centre |-> IF Unclear \in {s.centre, t.centre} THEN Unclear
                   ELSE ((Ticks - part) * s.centre + part * t.centre) \div Ticks,
        reach  |-> Sum2(s, t).reach]

Line(capacity) == [slots |-> [k \in 0..capacity - 1 |-> Silent], writePos |-> 0]

CapacityOf(line) == 1 + (CHOOSE k \in DOMAIN line.slots :
                            \A j \in DOMAIN line.slots : j <= k)

\* Push one sample and advance the write position.
Write(line, x) ==
  [slots    |-> [line.slots EXCEPT ![line.writePos] = x],
   writePos |-> (line.writePos + 1) % CapacityOf(line)]

\* MUTANT of ReadFractional: the older neighbour is on the wrong side.
ReadBackwards(line, delay) ==
  LET C == CapacityOf(line)
      i == delay \div Ticks
  IN  Between(line.slots[(line.writePos - 1 - i + 2 * C) % C],
              line.slots[(line.writePos - i + 2 * C) % C], delay % Ticks)

\* Read `delay` ticks back, interpolating; the delay is clamped to the line.
ReadFractional(line, delay) ==
  LET C == CapacityOf(line)
      clamped == IF delay < 0 THEN 0
                 ELSE IF delay > (C - 1) * Ticks THEN (C - 1) * Ticks ELSE delay
      i == clamped \div Ticks
      newer == line.slots[(line.writePos - 1 - i + 2 * C) % C]
      older == line.slots[(line.writePos - 2 - i + 2 * C) % C]
  IN  Between(newer, older, clamped % Ticks)

LineAged(line) == [line EXCEPT !.slots = [k \in DOMAIN @ |-> Aged(@[k])]]
=============================================================================
