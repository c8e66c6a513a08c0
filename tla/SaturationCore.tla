--------------------------- MODULE SaturationCore ---------------------------
(***************************************************************************)
(* core/effects/saturation/saturation-core.h, one channel: the three tiers *)
(* of the nonlinear stage (naive, adaa, oversampled), of which only the    *)
(* selected one runs, the delay ring that keeps the dry signal aligned     *)
(* with it, and the input and antiderivative the adaa shaper carries from  *)
(* one sample to the next.  A sample is the trace of the input it was      *)
(* computed from (DelayLine); the parameters that only scale it (drive,    *)
(* bias, tone, mix, output) and the recursive memories of the filters are  *)
(* left out.                                                               *)
(***************************************************************************)
EXTENDS Oversampler

CONSTANTS
  Stages,        \* 2x stages of the oversampler (2: a factor of 4)
  DryCapacity,   \* slots of the dry ring (128 in the code)
  Voicing,       \* nonlinear shapes a voicing selects
  MaxSaturationEdits  \* bound of the model: control calls in one behaviour

\* "Capacity exceeds the max group delay + the fractional read's reach."
SaturationConstants ==
  /\ CascadeConstants
  /\ Stages \in 1..3 /\ Ticks % FactorOf(Stages) = 0
  /\ DryCapacity \in Nat /\ DryCapacity * Ticks > GroupDelay(FactorOf(Stages)) + 2 * Ticks
  /\ Horizon >= Span(FactorOf(Stages)) + Ticks    \* ages are told apart as far back
  /\ Voicing # {} /\ MaxSaturationEdits \in Nat

VARIABLES
  quality,       \* quality_: the selected tier
  voicing,       \* voicing_: its shape is in all three shapers
  antiderivative,\* the shape whose F(uPrev_) the adaa shaper holds as FPrev_
  uPrev,         \* uPrev_: the input the adaa shaper heard last
  oversampler,   \* oversampler_: the lines of the cascade
  dryMixRing,    \* dryMixRing_ and dryMixWrite_
  wet, dry,      \* the two terms of the last sample's mix
  satRun,        \* samples since the last reset or change of tier (counted)
  satFresh,      \* it was a reset
  satEdits       \* control calls so far

saturationVars == <<quality, voicing, antiderivative, uPrev, oversampler, dryMixRing, wet, dry,
                    satRun, satFresh, satEdits>>

Tier == {"naive", "adaa", "oversampled"}

\* Samples until a tier's output depends on nothing from before it ran.
SettlingTime == Span(FactorOf(Stages)) \div Ticks + 1

SaturationTypeOK ==
  /\ quality \in Tier /\ voicing \in Voicing /\ antiderivative \in Voicing
  /\ dryMixRing.writePos \in 0..DryCapacity - 1
  /\ \A k \in 0..DryCapacity - 1 : dryMixRing.slots[k] \in Traces
  /\ wet \in Traces /\ dry \in Traces /\ uPrev \in Traces
  /\ satRun \in 0..SettlingTime /\ satFresh \in BOOLEAN /\ satEdits \in 0..MaxSaturationEdits

SaturationInit ==
  /\ quality = "adaa" /\ voicing = CHOOSE v \in Voicing : TRUE
  /\ antiderivative = voicing /\ uPrev = Silent
  /\ oversampler = ClearedStages(Stages) /\ dryMixRing = Line(DryCapacity)
  /\ wet = Silent /\ dry = Silent
  /\ satRun = 0 /\ satFresh = TRUE /\ satEdits = 0

SaturationEdit == satEdits < MaxSaturationEdits /\ satEdits' = satEdits + 1

\* The delay of the dry term: the wet path's own, exactly.
DryDelay(tier) == IF tier = "oversampled" THEN GroupDelay(FactorOf(Stages)) ELSE 0

\* MUTANT of AdaaShaped: the shape of the newest input alone.
AdaaDirect(u) == u

\* (F(u) - F(uPrev_)) / (u - uPrev_): the mean of the shape over the way from the
\* input before to this one; on a short way, the shape of its middle.
AdaaShaped(u) == Between(u, Aged(uPrev), Ticks \div 2)

\* What the selected shaper returns, and the cascade afterwards.
Shaped(tier) ==
  LET aged == OversamplerAged(oversampler)
  IN  CASE tier = "oversampled" -> Oversampled(aged, Input)
        [] tier = "adaa"        -> [os |-> aged, out |-> <<AdaaShaped(Input)>>]
        [] tier = "naive"       -> [os |-> aged, out |-> <<Input>>]

\* One sample.  The memories of an idle tier are left alone: they only age.
ProcessSaturation ==
  LET shaped == Shaped(quality)
      ring   == Write(LineAged(dryMixRing), Input)
  IN  /\ oversampler' = shaped.os
      /\ wet' = shaped.out[1]
      /\ dryMixRing' = ring
      /\ dry' = ReadFractional(ring, DryDelay(quality))
      /\ uPrev' = IF quality = "adaa" THEN Input ELSE Aged(uPrev)
      /\ antiderivative' = IF quality = "adaa" THEN voicing ELSE antiderivative
      /\ satRun' = IF satRun < SettlingTime THEN satRun + 1 ELSE satRun
      /\ UNCHANGED <<quality, voicing, satFresh, satEdits>>

\* setQuality: only selects which tier process() runs.
SetQuality(q) ==
  /\ SaturationEdit
  /\ quality' = q
  /\ satRun' = IF q = quality THEN satRun ELSE 0
  /\ satFresh' = (q = quality /\ satFresh)
  /\ UNCHANGED <<voicing, antiderivative, uPrev, oversampler, dryMixRing, wet, dry>>

\* MUTANT of SetVoicing: setShape keeps the old shape's F(uPrev_).
SetVoicingUnpaired(v) ==
  /\ SaturationEdit
  /\ voicing' = v
  /\ UNCHANGED <<quality, antiderivative, uPrev, oversampler, dryMixRing, wet, dry, satRun, satFresh>>

\* setVoicing: the new shape goes to all three shapers, and the adaa shaper
\* takes the antiderivative at its history point again, active or not.
SetVoicing(v) ==
  /\ SaturationEdit
  /\ voicing' = v
  /\ antiderivative' = v
  /\ UNCHANGED <<quality, uPrev, oversampler, dryMixRing, wet, dry, satRun, satFresh>>

\* MUTANT of ResetSaturation: the cascade's lines are left as they were.
ResetKeepsLines ==
  /\ SaturationEdit
  /\ antiderivative' = voicing /\ uPrev' = Silent
  /\ dryMixRing' = Line(DryCapacity)
  /\ wet' = Silent /\ dry' = Silent /\ satRun' = 0 /\ satFresh' = TRUE
  /\ UNCHANGED <<quality, voicing, oversampler>>

\* reset(), and prepare(), which clears the same memories: the parameters stay.
ResetSaturation ==
  /\ SaturationEdit
  /\ antiderivative' = voicing /\ uPrev' = Silent
  /\ oversampler' = ClearedStages(Stages)
  /\ dryMixRing' = Line(DryCapacity)
  /\ wet' = Silent /\ dry' = Silent /\ satRun' = 0 /\ satFresh' = TRUE
  /\ UNCHANGED <<quality, voicing>>

SaturationNext ==
  \/ ProcessSaturation
  \/ \E q \in Tier : SetQuality(q)
  \/ \E v \in Voicing : SetVoicing(v)
  \/ ResetSaturation

SaturationSpec == SaturationInit /\ [][SaturationNext]_saturationVars

-----------------------------------------------------------------------------
(* Properties.                                                             *)

\* How far the two terms of the mix are apart: the dry one is delayed in the
\* oversampled tier only, and the adaa tier's quotient is half a sample late.
Apart(tier) == IF tier = "adaa" THEN Ticks \div 2 ELSE 0

\* Once a tier has run for its settling time, wet and dry are of the same input
\* sample, and in the adaa tier half a sample apart and no more, whatever was
\* selected, switched or reset before (saturation-core.h:226-236, whose comment
\* gives the adaa tier no latency; adaa-waveshaper.h:117-140).
DryWetOffsetIsKnown ==
  satRun = SettlingTime => dry.centre # Unclear /\ wet.centre = dry.centre + Apart(quality)

\* reset() and prepare() leave nothing to be heard: until the filters are full,
\* neither term of the mix reaches back beyond the first sample after them.
ResetIsSilent ==
  satFresh /\ satRun \in 1..SettlingTime - 1 =>
     wet.reach <= (satRun - 1) * Ticks /\ dry.reach <= (satRun - 1) * Ticks

\* The difference quotient of the adaa tier is taken with one antiderivative:
\* no voicing change, in whatever tier, leaves the old shape's value in it.
OneAntiderivative == antiderivative = voicing
=============================================================================
