------------------------- MODULE ParameterControls -------------------------
(***************************************************************************)
(* One parameter of an effect and the control that drives it, in each of   *)
(* the adapters: the workbench's auto-rendered control with a MIDI         *)
(* controller bound to it, the plugin's host parameter, the knobs of the   *)
(* Daisy and the Teensy.  All of them publish a normalized 0..1 value and  *)
(* the effect maps it back with the descriptor (core/dsp/parameter.h).     *)
(*                                                                         *)
(* A float in 0..1 is a multiple of 1/Grid, and division rounds down to    *)
(* one: the rounding a bucket's centre must survive.  The curve of a       *)
(* continuous parameter is one to one, so its plain value is the position. *)
(***************************************************************************)
EXTENDS Integers, Sequences

CONSTANTS
  Grid,          \* steps of the normalized range
  Descriptors,   \* [kind, discreteCount, defaultValue]
  Controllers,   \* MIDI controller values that arrive, of 0..MidiTop
  MidiTop,       \* 127
  KnobPositions, \* what a converter may read, 0..Grid
  Deadband,      \* kKnobDeadband
  MaxPosted      \* model bound: reflections waiting for the message thread

isValidDescriptor(d) ==
  /\ d.kind = "discrete" => d.discreteCount \in 2..Grid \div 2 /\ d.defaultValue \in 0..d.discreteCount-1
  /\ d.kind = "continuous" => d.discreteCount = 0 /\ d.defaultValue \in 0..Grid

ControlConstants ==
  /\ {Grid, MidiTop} \subseteq Nat \ {0} /\ MaxPosted \in Nat
  /\ \A d \in Descriptors : d.kind \in {"discrete", "continuous"} /\ isValidDescriptor(d)
  /\ Controllers \subseteq 0..MidiTop /\ KnobPositions \subseteq 0..Grid
  /\ Deadband \in 0..Grid-1
ASSUME ControlAssumption == ControlConstants

VARIABLES
  adapter, desc,
  pending, dirty,   \* the effect's cross-thread cell: pendingBits_, pendingDirty_
  applied,          \* the plain value the effect runs with
  shown,            \* the control: a combo's index or a slider's position; the host's parameter
  posted,           \* callAsync: reflections of MIDI edits not yet shown
  knob, lastKnob,   \* what the converter reads, what was last published
  lastEdit          \* GHOST: who edited last, "crossed" once a reflection overran a control edit

controlVars == <<adapter, desc, pending, dirty, applied, shown, posted, knob, lastKnob, lastEdit>>

Clamp(x, lo, hi) == IF x < lo THEN lo ELSE IF x > hi THEN hi ELSE x
IsDiscrete(d) == d.kind = "discrete"

\* MUTANT of BucketOf: the top of the range falls off the last bucket.
BucketUnclamped(d, norm) == (Clamp(norm, 0, Grid) * d.discreteCount) \div Grid

\* The bucket a normalized value is in.
BucketOf(d, norm) == Clamp((norm * d.discreteCount) \div Grid, 0, d.discreteCount - 1)

\* MUTANT of BucketCentre: the lower edge, which rounding drops into the bucket below.
BucketEdge(d, index) == (index * Grid) \div d.discreteCount

BucketCentre(d, index) == ((2 * index + 1) * Grid) \div (2 * d.discreteCount)

denormalize(d, norm) ==
  IF IsDiscrete(d) THEN BucketOf(d, Clamp(norm, 0, Grid)) ELSE Clamp(norm, 0, Grid)

normalize(d, plain) ==
  IF IsDiscrete(d) THEN BucketCentre(d, Clamp(plain, 0, d.discreteCount - 1)) ELSE Clamp(plain, 0, Grid)

\* What a control at position x publishes, and where it stands for a published value.
Published(d, x) == IF IsDiscrete(d) THEN BucketCentre(d, x) ELSE x

\* MUTANT of Standing: the nearest bucket rather than the one the value is in.
StandingNearest(d, norm) ==
  IF IsDiscrete(d) THEN Clamp((2 * norm * d.discreteCount + Grid) \div (2 * Grid), 0, d.discreteCount - 1) ELSE norm

Standing(d, norm) == IF IsDiscrete(d) THEN BucketOf(d, norm) ELSE norm

Positions(d) == IF IsDiscrete(d) THEN 0..d.discreteCount-1 ELSE KnobPositions

ControlInit ==
  /\ adapter \in {"workbench", "plugin", "daisy", "teensy"}
  /\ desc \in Descriptors
  /\ pending = 0 /\ dirty = FALSE
  /\ applied = desc.defaultValue
  /\ shown = IF adapter = "workbench" /\ IsDiscrete(desc) THEN 0        \* setSelectedItemIndex(0)
             ELSE Standing(desc, normalize(desc, desc.defaultValue))
  /\ posted = <<>>
  /\ knob \in KnobPositions /\ lastKnob = -Grid
  /\ lastEdit = "none"

setParameter(norm) == pending' = norm /\ dirty' = TRUE

\* The operator moves the workbench's control; one already there fires no change.
TurnControl(x) ==
  /\ adapter = "workbench" /\ x # shown
  /\ shown' = x
  /\ setParameter(Published(desc, x))
  /\ lastEdit' = "control"
  /\ UNCHANGED <<adapter, desc, applied, posted, knob, lastKnob>>

\* A controller arrives on the MIDI thread: the effect first, the view later.
handleIncomingMidiMessage(value) ==
  /\ adapter = "workbench" /\ Len(posted) < MaxPosted
  /\ setParameter((value * Grid) \div MidiTop)
  /\ posted' = Append(posted, (value * Grid) \div MidiTop)
  /\ lastEdit' = "midi"
  /\ UNCHANGED <<adapter, desc, applied, shown, knob, lastKnob>>

\* The message thread shows it, without firing onChange.
setNormalized ==
  /\ posted # <<>> /\ posted' = Tail(posted)
  /\ shown' = Standing(desc, Head(posted))
  /\ lastEdit' = IF lastEdit = "control" THEN "crossed" ELSE lastEdit
  /\ UNCHANGED <<adapter, desc, pending, dirty, applied, knob, lastKnob>>

\* The host automates the plugin's parameter.
Automate(x) ==
  /\ adapter = "plugin" /\ x # shown
  /\ shown' = x
  /\ UNCHANGED <<adapter, desc, pending, dirty, applied, posted, knob, lastKnob, lastEdit>>

TurnKnob(v) ==
  /\ adapter \in {"daisy", "teensy"} /\ v # knob
  /\ knob' = v
  /\ UNCHANGED <<adapter, desc, pending, dirty, applied, shown, posted, lastKnob, lastEdit>>

\* The Teensy's loop() publishes every reading.
loop ==
  /\ adapter = "teensy"
  /\ setParameter(knob)
  /\ UNCHANGED <<adapter, desc, applied, shown, posted, knob, lastKnob, lastEdit>>

\* The Daisy's maybeSet(): only past the dead band.
Moved == knob < lastKnob - Deadband \/ knob > lastKnob + Deadband

\* MUTANT of Remembered: every reading is remembered, so a slow turn is never a move.
RememberedAlways == knob

Remembered == IF Moved THEN knob ELSE lastKnob

\* What a block publishes before it processes.
PublishedByBlock ==
  CASE adapter = "plugin" -> <<Published(desc, shown)>>
    [] adapter = "daisy" /\ Moved -> <<knob>>
    [] OTHER -> <<>>

\* The audio callback: publish, then process() consumes what is pending.
process ==
  LET latest == IF PublishedByBlock # <<>> THEN Head(PublishedByBlock) ELSE pending IN
  /\ pending' = latest
  /\ dirty' = FALSE
  /\ applied' = IF dirty \/ PublishedByBlock # <<>> THEN denormalize(desc, latest) ELSE applied
  /\ lastKnob' = IF adapter = "daisy" THEN Remembered ELSE lastKnob
  /\ UNCHANGED <<adapter, desc, shown, posted, knob, lastEdit>>

ControlNext ==
  \/ \E x \in Positions(desc) : TurnControl(x) \/ Automate(x)
  \/ \E v \in Controllers : handleIncomingMidiMessage(v)
  \/ setNormalized
  \/ \E v \in KnobPositions : TurnKnob(v)
  \/ loop
  \/ process

ControlSpec == ControlInit /\ [][ControlNext]_controlVars

---------------------------------------------------------------------------
(* Properties.                                                             *)

ControlTypeOK ==
  /\ desc \in Descriptors /\ pending \in 0..Grid /\ dirty \in BOOLEAN
  /\ applied \in (IF IsDiscrete(desc) THEN 0..desc.discreteCount-1 ELSE 0..Grid)
  /\ shown \in (IF IsDiscrete(desc) THEN 0..desc.discreteCount-1 ELSE 0..Grid)
  /\ Len(posted) <= MaxPosted /\ knob \in KnobPositions /\ lastKnob \in -Grid..Grid

\* Once every reflection is shown, the workbench's control stands where the
\* effect maps what was published last, whoever published it, unless a
\* reflection overran an edit of the control (workbench-app.cpp:402-413,
\* parameter-view.cpp:55-71, parameter.h:58-115).
ControlStandsForTheEffect ==
  adapter = "workbench" /\ posted = <<>> /\ lastEdit \in {"control", "midi"} =>
    denormalize(desc, pending) = denormalize(desc, Published(desc, shown))

\* A block of the plugin runs with the choice the host shows, a block of the
\* Daisy within the dead band of its knob (plugin-parameters.h:28-40,
\* daisy-main.cpp:51-57).
BlockFollowsTheControl ==
  [][process =>
       /\ adapter = "plugin" => applied' = shown
       /\ adapter = "daisy" => /\ knob - lastKnob' \in -Deadband..Deadband
                               /\ applied' = denormalize(desc, lastKnob')]_controlVars

\* What specs/svf-vertical-slice says of the defaults (SC-006, and the table of
\* contracts/parameter-model.md): an untouched control shows the value in use.
UntouchedControlShowsTheDefault ==
  adapter = "workbench" /\ lastEdit = "none" => denormalize(desc, Published(desc, shown)) = applied
=============================================================================
