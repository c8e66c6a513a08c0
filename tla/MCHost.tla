------------------------------- MODULE MCHost -------------------------------
(***************************************************************************)
(* The desktop hosts and the analysis engine in one run.  A behaviour is   *)
(* about one part: a parameter's way from a control to the effect, the     *)
(* workbench's session, the live readout, the transform, the measurements, *)
(* or the twin-tone method.                                                *)
(***************************************************************************)
EXTENDS WorkbenchApp, HarmonicDisplay, ParameterControls

CONSTANTS
  Parts,        \* the parts a run is about
  AnySweep,     \* may a sweep ask for less than half a bin?
  MaxOrder      \* of the nonlinearity under the twin tones

VARIABLES
  part,
  kind, frame, loaded, len, out,
  task, processor, blockSize, steps, phase, memory, stimulus, captured, k, power, curve,
  method, rate, orders, result

spectrumVars == <<kind, frame, loaded, len, out>>
measureVars == <<task, processor, blockSize, steps, phase, memory, stimulus, captured, k, power, curve>>
imdVars == <<method, rate, orders, result>>
hostVars == <<part, controlVars, appVars, displayVars, spectrumVars, measureVars, imdVars>>

Discrete(n, d) == [kind |-> "discrete", discreteCount |-> n, defaultValue |-> d]
Continuous(d) == [kind |-> "continuous", discreteCount |-> 0, defaultValue |-> d]

TheDescriptors == {Discrete(3, 1), Discrete(5, 0), Continuous(32)}

\* One file shorter than two blocks, one longer; a device without inputs.
TheLength == [f \in Files |-> IF f = "riff" THEN 3 ELSE 5]
FirstLaunch ==
  [disk |-> [f \in Files |-> "good"],
   settings |-> [readable |-> TRUE, device |-> "none", source |-> [mode |-> "live", filePath |-> "none"]]]

Frames8 == {[n \in 0..7 |-> IF n = a THEN 1 ELSE IF n = b THEN 5 ELSE 0] : a, b \in 0..7}

\* 113 - 1 is a multiple of 16 and of 7: roots for the transforms and the window.
Engine == INSTANCE Spectrum WITH Prime <- 113, Generator <- 3, Size <- 8, Frames <- Frames8

Shape(a, b, c, d) == [shape |-> <<a, b, c>>, delay |-> d]
Sweep(start, stop, n) == [start |-> start, stop |-> stop, numSteps |-> n]

Measure == INSTANCE Measurement WITH
  Prime <- 113, Generator <- 3, Size <- 16, PerBin <- 4, FundamentalBin <- 2, NumHarmonics <- 5,
  Processors <- {Shape(1, 3, 5, 0), Shape(0, 2, 0, 0), Shape(2, 0, 0, 3), Shape(112, 0, 0, 3)},
  BlockSizes <- {0, 5, 16},
  Sweeps <- {Sweep(2, 28, 4), Sweep(5, 5, 1)} \cup (IF AnySweep THEN {Sweep(0, 28, 4)} ELSE {}),
  ImdSamples <- 4800

ASSUME HostConstants ==
  /\ Engine!SpectrumConstants /\ Measure!MeasurementConstants
  /\ Parts \subseteq {"controls", "app", "display", "transform", "measure", "imd"}

HostInit ==
  /\ part \in Parts
  /\ ControlInit
  /\ part # "controls" => adapter = "teensy" /\ desc = Continuous(32) /\ knob = 0
  /\ AppInit
  /\ DisplayInit /\ (part # "display" => host = "plugin")
  /\ Engine!SpectrumInit
  /\ part # "transform" => kind = "Hann" /\ frame = [n \in 0..7 |-> IF n = 0 THEN 1 ELSE 0]
  /\ Measure!MeasureInit
  /\ part # "measure" => task = "latency" /\ processor = Shape(0, 2, 0, 0) /\ blockSize = 5
  /\ Measure!ImdInit /\ (part # "imd" => method = "SMPTE" /\ rate /\ orders = {1})

HostNext ==
  /\ UNCHANGED part
  /\ \/ part = "controls" /\ ControlNext
     \/ part # "controls" /\ UNCHANGED controlVars
  /\ \/ part = "app" /\ AppNext
     \/ part # "app" /\ UNCHANGED appVars
  /\ \/ part = "display" /\ DisplayNext
     \/ part # "display" /\ UNCHANGED displayVars
  /\ \/ part = "transform" /\ Engine!SpectrumNext
     \/ part # "transform" /\ UNCHANGED spectrumVars
  /\ \/ part = "measure" /\ Measure!MeasureNext
     \/ part # "measure" /\ UNCHANGED measureVars
  /\ \/ part = "imd" /\ Measure!imd
     \/ part # "imd" /\ UNCHANGED imdVars

HostSpec == HostInit /\ [][HostNext]_hostVars

---------------------------------------------------------------------------
(* Properties of the instances, each of its part; a part that rests keeps   *)
(* its own.  What the controls, the session and the readout promise is      *)
(* stated in their modules.                                                 *)

\* The variables hold what the code's types allow.
HostTypeOK == ControlTypeOK /\ AppTypeOK

\* What a step of a host may not do: a block that runs on another value than the
\* control shows, a save that replaces the device that is away, a seam in a
\* looped file (plugin-parameters.h:28-40, daisy-main.cpp:51-57,
\* workbench-app.cpp:335-368, audio-source.cpp:70-96).
HostSteps == BlockFollowsTheControl /\ PreferenceSurvives /\ LoopIsSeamless

\* The FFT is the transform, and the Goertzel path reads the same bins
\* (fft.h:68-112, analyzers.h:127-175).
TransformIsExact == Engine!StagesAreTransforms /\ Engine!PathsAgree

\* A measurement starts at rest and reads the figures the processor has on
\* paper: harmonics, ratios, folded power, latency, and every twin-tone product
\* on a line of its own (host/analysis).
MeasuresAreExact ==
  /\ Measure!CaptureStartsAtRest /\ Measure!InharmonicIsFolded
  /\ Measure!FiguresAreOnPaper /\ Measure!LatencyIsFound /\ Measure!LoopEndsWithTheBins
  /\ Measure!ProductsAreTheirOwn

\* What the analyzers report is what the processor does.
AnalysisIsExact == TransformIsExact /\ MeasuresAreExact

\* A sweep's reading is defined and finite at any frequency (alias-sweep.h:31-33).
SweepReadsAnyFrequency == Measure!LoopEndsWithTheBins
=============================================================================
