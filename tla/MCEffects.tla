------------------------------ MODULE MCEffects ------------------------------
(***************************************************************************)
(* The effects in one run: a behaviour picks one of them and takes that    *)
(* one's steps only, so the state space is the sum of theirs.  Compressor  *)
(* declares the plain Init, Next, Spec and TypeOK; the other effects'      *)
(* carry its name.                                                         *)
(***************************************************************************)
EXTENDS Compressor, SaturationCore, TapeDynamics, ModulatedDelay, Dynamics, ProgramDependent

VARIABLE effect      \* the one that runs

effectsVars == <<effect, vars, saturationVars, tapeVars, delayVars, followerVars, curveVars, pdsVars>>

\* Every mode of the curve, with a hard corner and with a knee of 4 dB, at a
\* ratio of 1 and of 3.
CurveSettings ==
  [mode : {"compress", "limit", "expand", "gate"}, ratio : {1, 3}, knee : {0, 4}, range : {-3}]

\* A tone depth of either kind: it moves the tone down, or not at all.
DownOrNot == {-1, 0}

ASSUME EffectsAssumption ==
  SaturationConstants /\ TapeConstants /\ DelayConstants /\ DynamicsConstants /\ PdsConstants

\* An idle effect stays in one of its initial states.
EffectsInit ==
  /\ effect \in {"saturation", "tape", "compressor", "delay", "follower", "curve", "pds"}
  /\ SaturationInit /\ TapeInit /\ Init /\ DelayInit /\ FollowerInit /\ CurveInit /\ PdsInit
  /\ effect # "delay" => CapacityOf(delayLine) = Greatest(Capacities)
  /\ effect # "curve" => curve = CHOOSE c \in Curves : TRUE

EffectsNext ==
  /\ UNCHANGED effect
  /\ IF effect = "saturation" THEN SaturationNext ELSE UNCHANGED saturationVars
  /\ IF effect = "tape" THEN TapeNext ELSE UNCHANGED tapeVars
  /\ IF effect = "compressor" THEN Next ELSE UNCHANGED vars
  /\ IF effect = "delay" THEN DelayNext ELSE UNCHANGED delayVars
  /\ IF effect = "follower" THEN FollowerNext ELSE UNCHANGED followerVars
  /\ IF effect = "curve" THEN AskNext ELSE UNCHANGED curveVars
  /\ IF effect = "pds" THEN PdsNext ELSE UNCHANGED pdsVars

EffectsSpec == EffectsInit /\ [][EffectsNext]_effectsVars

-----------------------------------------------------------------------------
(* Properties, each stated in the effect's module.                         *)

\* Every effect keeps its types and ranges.
EffectsTypeOK ==
  /\ effect = "saturation" => SaturationTypeOK
  /\ effect = "tape" => TapeTypeOK
  /\ effect = "compressor" => TypeOK
  /\ effect = "delay" => DelayTypeOK
  /\ effect \in {"follower", "curve"} => DynamicsTypeOK
  /\ effect = "pds" => PdsTypeOK

\* How late a signal is is known: the two terms of a dry/wet mix are of the same
\* input sample in the naive and the oversampled tier of the saturation core and at
\* every factor of the tape effect, and half a sample apart in the core's adaa tier,
\* which does not compensate its own lateness; the delayed sample is the one that was asked for, at any divisor,
\* and a live change of the lo-fi rate neither holds a value beyond one internal
\* sample nor loses what is in the line.  The compressor's is LatencyIsDelay.
LatenessIsKnown ==
  /\ effect = "saturation" => DryWetOffsetIsKnown
  /\ effect = "tape" => TapeAligned
  /\ effect = "delay" => DelayIsHonoured /\ HeldIsFresh /\ RateChangeKeepsEcho

\* No memory that stood still, or that belongs to another setting, is heard:
\* not after a reset, a switch of core, a change of voicing or of linking, nor
\* when the wow depth is raised; no level is reported that was never heard, and
\* no modulated tone is left in a saturator that was prepared or reset.
NothingStale ==
  /\ effect = "saturation" => ResetIsSilent /\ OneAntiderivative
  /\ effect = "tape" => SwitchStartsClean
  /\ effect = "compressor" => LinkedDetectorHears
  /\ effect = "delay" => TapeHearsCurrent
  /\ effect = "follower" => EnvelopeWasHeard
  /\ effect = "pds" => StoppedIsStatic

\* Parameters reach all that must act with them, and act as they are defined:
\* the idle tape cores, the delay's filter after a restart, the hold time, the
\* curve of a gain computer, and bases and depths on every saturator.
ParametersReach ==
  /\ effect = "tape" => CoresAgree
  /\ effect = "delay" => FilterKeepsValue
  /\ effect = "follower" => PeakIsHeld
  /\ effect = "curve" => CurveIsAsDefined
  /\ effect = "pds" => ModulationIsBasePlusOffset
=============================================================================
