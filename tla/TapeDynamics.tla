---------------------------- MODULE TapeDynamics -----------------------------
(***************************************************************************)
(* core/effects/tape-dynamics: the effect keeps one core per oversampling  *)
(* factor (2x, 4x, 8x), all of them prepared and all of them given every   *)
(* parameter, and runs the selected one.  One channel: channels share only *)
(* the parameters.  The magnetics are kept as what they were stepped from  *)
(* (hysteresis.h: the stored field and magnetization of the last step);    *)
(* the parameters a preset writes are one, "colour", the two it leaves     *)
(* alone (mix, output) another, "blend".                                   *)
(***************************************************************************)
EXTENDS Oversampler

CONSTANTS
  TapeValues,       \* values of a parameter; the least is its default
  TapeDryCapacity,  \* slots of a core's dry ring (128 in the code)
  MaxTapeEdits      \* bound of the model: control calls in one behaviour

VARIABLES
  tapeCores,          \* core2x_, core4x_, core8x_
  applied,            \* the effect's applied parameter values
  oversamplingIndex,  \* oversamplingIndex_: the core process() runs
  tapePending,        \* the values published and not yet applied
  last,               \* the two terms of the last sample's mix
  tapeRun,            \* samples since the selected core's lines were cleared (counted)
  tapeFresh,          \* its magnetics were cleared then too: by a switch or a reset
  tapeEdits           \* control calls so far

tapeVars == <<tapeCores, applied, oversamplingIndex, tapePending, last, tapeRun, tapeFresh,
              tapeEdits>>

Core      == 0..2
Factor(k) == FactorOf(k + 1)
Param     == {"colour", "blend"}
TapeDefaults == [p \in Param |-> 0]

\* What a preset writes: the neutral one, the coloured ones (all of them 8x).
Presets == {[colour |-> v, oversampling |-> 2] : v \in TapeValues}

TapeConstants ==
  /\ CascadeConstants
  /\ TapeValues \subseteq Nat /\ 0 \in TapeValues
  /\ \A k \in Core : /\ Ticks % Factor(k) = 0
                     /\ TapeDryCapacity * Ticks > GroupDelay(Factor(k)) + Ticks
                     /\ Horizon >= Span(Factor(k)) + Ticks    \* ages are told apart as far back
  /\ TapeDryCapacity \in Nat /\ MaxTapeEdits \in Nat

Magnet == {"clear", "running", "stale"}

\* Samples until the output depends on nothing from before the lines were cleared.
TapeSettlingTime(k) == Span(Factor(k)) \div Ticks + 1

TapeTypeOK ==
  /\ oversamplingIndex \in Core /\ applied \in [Param -> TapeValues]
  /\ DOMAIN tapePending \subseteq Param \cup {"oversampling"}
  /\ \A k \in Core : /\ tapeCores[k].applied \in [Param -> TapeValues]
                     /\ tapeCores[k].magnet \in Magnet
                     /\ tapeCores[k].dryMixRing.writePos \in 0..TapeDryCapacity - 1
  /\ last \in [wet : Traces, dry : Traces]
  /\ tapeRun \in 0..TapeSettlingTime(oversamplingIndex) /\ tapeFresh \in BOOLEAN
  /\ tapeEdits \in 0..MaxTapeEdits

\* TapeDynamicsCore::reset(): every memory cleared, the parameters kept.
ResetTapeCore(k, core) ==
  [core EXCEPT !.oversampler = ClearedStages(k + 1), !.dryMixRing = Line(TapeDryCapacity),
               !.magnet = "clear"]

\* TapeDynamicsCore::prepare(): as reset(), but Hysteresis::prepare() sets
\* the step size and leaves the field and the magnetization as they were.
PrepareCore(k, core) ==
  [ResetTapeCore(k, core) EXCEPT !.magnet = IF core.magnet = "clear" THEN "clear" ELSE "stale"]

\* Values of some parameters, over those of all of them.
Over(values, all) == [p \in Param |-> IF p \in DOMAIN values THEN values[p] ELSE all[p]]

\* MUTANT of PushedToAll: a value reaches only the core that runs.
PushedToSelected(values) ==
  [tapeCores EXCEPT ![oversamplingIndex].applied = Over(values, @)]

\* Each apply* pushes its value to all three cores.
PushedToAll(values) ==
  [k \in Core |-> [tapeCores[k] EXCEPT !.applied = Over(values, @)]]

\* MUTANT of Selected: no reset on a switch.
SelectedUncleared(all, k) == all

\* setOversamplingIndex(): on a change, the newly selected core is reset.
Selected(all, k) ==
  IF k = oversamplingIndex THEN all ELSE [all EXCEPT ![k] = ResetTapeCore(k, @)]

\* MUTANT of TapeDryDelay: every core is given the 8x delay.
TapeDryDelayWorst(k) == GroupDelay(Factor(2))

\* dryDelaySamples_, cached by prepare(): the oversampler's own delay.
TapeDryDelay(k) == GroupDelay(Factor(k))

\* processSample() on the core that runs.
Sampled(k, core) ==
  LET shaped == Oversampled(OversamplerAged(core.oversampler), Input)
  IN  [core EXCEPT !.oversampler = shaped.os,
                   !.dryMixRing = Write(LineAged(@), Input),
                   !.magnet = IF @ = "stale" THEN "stale" ELSE "running"]

\* A core that does not run: its memories only get older.
Idled(core) ==
  [core EXCEPT !.oversampler = OversamplerAged(@), !.dryMixRing = LineAged(@),
               !.magnet = IF @ = "running" THEN "stale" ELSE @]

Wet(k, core) == Oversampled(OversamplerAged(core.oversampler), Input).out[1]

TapeInit ==
  /\ tapeCores = [k \in Core |-> [applied |-> TapeDefaults, oversampler |-> ClearedStages(k + 1),
                              dryMixRing |-> Line(TapeDryCapacity), magnet |-> "clear"]]
  /\ applied = TapeDefaults /\ oversamplingIndex = 2 /\ tapePending = <<>>
  /\ last = [wet |-> Silent, dry |-> Silent]
  /\ tapeRun = 0 /\ tapeFresh = TRUE /\ tapeEdits = 0

TapeEdit == tapeEdits < MaxTapeEdits /\ tapeEdits' = tapeEdits + 1

\* setParameter(): from any thread, at any time; applied by the next process().
SetTapeParameter ==
  /\ TapeEdit
  /\ \E p \in Param \cup {"oversampling"} :
       \E v \in IF p = "oversampling" THEN Core ELSE TapeValues :
          tapePending' = [q \in DOMAIN tapePending \cup {p} |-> IF q = p THEN v ELSE tapePending[q]]
  /\ UNCHANGED <<tapeCores, applied, oversamplingIndex, last, tapeRun, tapeFresh>>

\* The ghosts after core k is selected: it starts again if it was not the one.
TapeRestarted(k) ==
  /\ tapeRun' = IF k = oversamplingIndex THEN tapeRun ELSE 0
  /\ tapeFresh' = (k # oversamplingIndex \/ tapeFresh)

\* applyPending(): what was published over what was applied.
TapeCurrent == Over(tapePending, applied)

\* process(): the pending edits, then one sample through the selected core.
ProcessTape ==
  LET values == TapeCurrent
      k      == IF "oversampling" \in DOMAIN tapePending THEN tapePending["oversampling"]
                ELSE oversamplingIndex
      ready  == Selected(PushedToAll(tapePending), k)
      next   == [c \in Core |-> IF c = k THEN Sampled(c, ready[c]) ELSE Idled(ready[c])]
  IN  /\ applied' = values /\ oversamplingIndex' = k /\ tapePending' = <<>>
      /\ tapeCores' = next
      /\ last' = [wet |-> Wet(k, ready[k]),
                  dry |-> ReadFractional(next[k].dryMixRing, TapeDryDelay(k))]
      /\ tapeRun' = LET r == IF k = oversamplingIndex THEN tapeRun ELSE 0
                    IN  IF r < TapeSettlingTime(k) THEN r + 1 ELSE r
      /\ tapeFresh' = (k # oversamplingIndex \/ tapeFresh)
      /\ UNCHANGED tapeEdits

\* applyPreset(), the stream stopped: the preset's values to every core, then
\* its oversampling factor.  Edits still pending override it at the next block.
ApplyPreset ==
  /\ TapeEdit
  /\ \E cfg \in Presets :
        /\ applied' = [applied EXCEPT !.colour = cfg.colour]
        /\ tapeCores' = Selected(PushedToAll([colour |-> cfg.colour]), cfg.oversampling)
        /\ oversamplingIndex' = cfg.oversampling
        /\ TapeRestarted(cfg.oversampling)
  /\ UNCHANGED <<tapePending, last>>

\* prepare() and reset(), the stream stopped: all three cores, then every
\* applied value to every core.  Pending edits and the selection stay.
PrepareTape ==
  /\ TapeEdit
  /\ tapeCores' = [k \in Core |-> PrepareCore(k, PushedToAll(applied)[k])]
  /\ last' = [wet |-> Silent, dry |-> Silent] /\ tapeRun' = 0 /\ tapeFresh' = FALSE
  /\ UNCHANGED <<applied, oversamplingIndex, tapePending>>

ResetTape ==
  /\ TapeEdit
  /\ tapeCores' = [k \in Core |-> ResetTapeCore(k, PushedToAll(applied)[k])]
  /\ last' = [wet |-> Silent, dry |-> Silent] /\ tapeRun' = 0 /\ tapeFresh' = TRUE
  /\ UNCHANGED <<applied, oversamplingIndex, tapePending>>

TapeNext == SetTapeParameter \/ ProcessTape \/ ApplyPreset \/ PrepareTape \/ ResetTape

TapeSpec == TapeInit /\ [][TapeNext]_tapeVars

-----------------------------------------------------------------------------
(* Properties.                                                             *)

\* Once the selected core has run for its settling time, the two terms of the
\* mix are centred on the same input sample, whatever the factor and whatever
\* was switched, re-selected, preset, prepared or reset before.
TapeAligned ==
  tapeRun = TapeSettlingTime(oversamplingIndex) =>
     last.wet.centre # Unclear /\ last.dry.centre = last.wet.centre

\* After a switch of factor the selected core plays nothing of its earlier
\* run: neither its magnetics nor its lines hold what they were left with
\* ("starts it from a defined zero state", 285-298).
SwitchStartsClean ==
  /\ tapeFresh => tapeCores[oversamplingIndex].magnet # "stale"
  /\ tapeRun \in 1..TapeSettlingTime(oversamplingIndex) - 1 =>
       last.wet.reach <= (tapeRun - 1) * Ticks /\ last.dry.reach <= (tapeRun - 1) * Ticks

\* The param-sync invariant: every core, idle ones included, carries the
\* values the effect has applied, so a switch lands on the current ones.
CoresAgree == \A k \in Core : tapeCores[k].applied = applied
=============================================================================
