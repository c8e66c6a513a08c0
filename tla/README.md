# Formal model of acfx

acfx is a portable library of audio effects (`core/`), with adapters that put
an effect on a board, in a plugin or in a desktop workbench (`adapters/`), and
measurement code shared by tests and tools (`host/`). This directory holds TLA+
modules translated from that code, TLC configurations that check them on small
instances, and TLAPS proofs of what holds on every instance. Names follow the
source; a definition whose comment begins `MUTANT of X` is a plausible mistake
in the code `X` models, kept to show that a property would notice it.

    tlc -workers 2 -config Nucleo.cfg MCNucleo
    tlc -workers 2 -config Effects.cfg MCEffects
    tlapm Rings_proofs.tla

## 1. The system

### Parts

| part | state it keeps | operations | what makes it correct |
|---|---|---|---|
| audio ring (`support/audio-ring.h`) | slots, tail, count, lifecycle state, watermarks | write (drops oldest), read (substitutes silence), reset, stop | it is a bounded drop-oldest queue; the lifecycle state and watermarks tell the truth about the past |
| USB OUT path (`support/usb-out-path.h`) | backlog high-water mark | one bounded read of the OUT FIFO a pass, decode, write to the input ring | frames are not torn, shifted or lost uncounted |
| DSP block path (`support/dsp-block-path.h`) | - | one block a pass, if the input ring holds one | never substitutes on the input side |
| USB IN path (`support/usb-in-path.h`) | carryover of a partial accept, cold-start flag | flush, capture-only silence, bounded pull, offer | in order and once; silence only for a genuine shortfall, counted in one counter |
| USB service and lifecycle (`usb-audio-service.h`, `usb-audio-controls.cpp`, `usb-lifecycle-callbacks.cpp`, `rate-/format-change-service.h`, `lifecycle-policy.h`) | streaming flags and their last-pass copies, format record, two latches | the TinyUSB callbacks; three reconciling services | a ring is restarted before it is used again; it is stopped while the bus sleeps; whoever listens is served |
| board bring-up (`startup.cpp`, `clock-init.h`, `board-init.h`, `nucleo-main.cpp`) | clock, power, flash and pin registers, initialised RAM | one write or bounded wait after another | no limit of the hardware is exceeded on the way; the loop starts with everything it uses |
| USB enumeration (`usb-descriptors.h`, `usb-descriptors.cpp`, `usb-audio-fifo-budget.h`, control callbacks) | static tables, the string buffer, rate and format | descriptor, string, clock and alternate-setting requests | what the host binds is what the drivers open, within the FIFO memory; both sides believe in the same rate and format |
| MIDI parameter path (`support/parameter-source.h`, `parameter-shadow.h`, `midi-cc-map.h`, `parameter-service.h`) | ring of updates, dead-band memory, shadow | receive, poll, flush | the last value of every controller arrives, once |
| diagnostics (`diagnostic-service.h`, `support/diagnostic-serializer.h`, `block-timer.h`, `transport-stats.h`) | counters, worst block time | snapshot to the CDC port | telemetry keeps coming, is whole and measures what it says |
| effects (`core/effects/*`) | published values and flags, applied values, DSP state | setParameter (any thread), process, prepare, reset | no edit is lost, order of preset and edits, restarts keep parameters |
| primitives (`core/primitives/*`) | delay buffers, filter and envelope state | per-sample processing | index arithmetic, state kept across samples |
| circuits (`primitives/circuit/*`) | netlist, matrix, plan, histories of capacitors and inductors, a warm start | build, prepare, plan, solve, step, reset, seed | an answer obeys the circuit's laws; a refusal or a failure leaves the histories alone |
| labs (`core/labs/*/solver`) | their own history and warm start | the same circuits, solved another way | agrees with the circuit engine |
| capture probe (`primitives/analysis/capture-probe.h`) | lock-free ring, two indices, two counters | push (audio thread), available and drain (analysis thread), reset | a returned window is whole or its damage is bounded; every loss is counted |
| analysis (`host/analysis`) | transform buffers, last result | capture, transform, Goertzel, THD, aliasing, sweep, latency, IMD, live readout | a figure is the one the processor has; a readout is of the device that plays |
| workbench (`adapters/workbench`) | source selection, settings, meters, MIDI bindings | device start and stop, source change, save | no stale source under a running stream; preferences survive a missing device |
| plugin, Daisy, Teensy | parameter objects, knobs | the host's callback, a scan of the knobs | parameters reach the effect |

### How they interact

On the Nucleo everything but the USB interrupt runs in one endless loop
(`nucleo-main.cpp:313`):

    tud_task -> ServiceUsbLifecycle -> ServiceRateChange -> ServiceFormatChange
             -> ServiceUsbAudioOut -> ServiceParameters -> ServiceDspBlock
             -> ServiceUsbAudioIn -> ServiceDiagnostics

`tud_task` runs the callbacks, which record what the host asked for (and, for
suspend, resume and mount, restart the rings at once). Audio goes OUT FIFO ->
input ring -> effect -> output ring -> IN FIFO. The FIFOs are TinyUSB's and have
no packet boundaries. Before the loop, `Reset_Handler` and `main` bring up clocks,
pins and the stack, one write after another, whatever each wait returned.

On the desktop the actors are threads: the audio callback runs `process()` and
pushes to the probe, the message thread and the MIDI thread call `setParameter()`,
a timer drains the probe and refreshes the controls. Files and devices come and go
under the program; a device change stops the callback, prepares and starts again.

A circuit is sequential but shared: a netlist, one assembler and one system are
handed to a Newton solver and to an integrator, and each plans them for the
topology it was prepared with.

### What is hard

* Steps of two actors in any order: the USB interrupt between any two services;
  threads between any two atomic accesses; a device change between two ticks.
* Levels compared where edges are meant, and latches served after the events
  drained behind them.
* Buffers at their limits: rings, FIFOs, partial accepts, blocks of 48 frames
  against packets of 44 to 49, a telemetry record that outgrows its FIFO.
* Memory that stands still while another path runs, and is switched back to,
  reset, or read at another rate: delay lines, oversampling lines, antiderivatives,
  envelopes, a modulated tone.
* A sequence of hardware writes of which one may do nothing.
* Singular systems, solvers that stop halfway, histories that must not move then.
* Liveness: a startup gate that must open, silence that must stop, a stream
  that must come back after any sequence of host requests, a boot that must end.

`PROJECT.json` lists each hazard at its line with the properties that cover it.

## 2. The modules

| module | models | state and actions |
|---|---|---|
| `RingQueue` | the ring as a value | what a write keeps, what a read returns, promotion |
| `RingContract` | the abstract ring | a sequence of frames, `Write`, `Read`, `Reset`, `Stop` |
| `AudioRing` | `audio-ring.h` slot by slot | `storage`, `tail`, `count`, watermarks; one action per operation; refines `RingContract` with `held <- Held` |
| `CaptureProbe` | `capture-probe.h` | shared indices and slots, one action per shared access |
| `ServiceLoop` | the three data services | FIFOs of bytes, both rings, carryover, cold start, statistics; one operator per branch of a service |
| `NucleoTransport` | the loop under an arbitrary host | the host sends numbered frames, whole or torn, and polls, between any two services |
| `PacedTransport` | the loop under the 1 ms frame | one OUT and one IN transaction a frame, at least `MinPasses` passes between frames |
| `UsbLifecycle` | control callbacks, latches, reconciliation | alt settings, streaming flags, format, latches; composes `ServiceLoop` |
| `BoardBoot` | `startup.cpp`, `vector-table.cpp`, `clock-init.h`, `board-init.h`, `main` | the program counter over named steps, registers, hardware flags that follow in their own time; interrupts, a debugger's start, a power cycle |
| `UsbEnumeration` | descriptors and the requests that read them | tables, string buffer, drivers, FIFO words; attach, requests, clock and alt settings, bus reset |
| `Diagnostics` | `block-timer.h`, `diagnostic-*.h` | cycle counter modulo its width, worst block, CDC FIFO; blocks, snapshots, a port that opens, reads and closes |
| `ParameterPath` | MIDI to effect on the board | RX FIFO, the source's ring, dead-band memory, shadow, published and applied values; one action per iteration of the three loops of `ServiceParameters`, each left only when its buffer is empty |
| `ParamHandoff` | `setParameter` against `applyPending` | atomics, one action per atomic access, the stream's stop and start |
| `DelayLine` | `delay-line.h`, `bounded-delay-line.h` and the copies inlined in the cores | a sample as the age of its inputs; slots and write position; `Write`, `ReadFractional` |
| `Oversampler` | `halfband-stage.h`, `oversampler.h` | lines of every stage; one sample up and down the cascade |
| `SaturationCore` | `saturation-core.h`, `adaa-waveshaper.h` | tier, cascade, dry ring, the adaa shaper's last input and the shape of its antiderivative; a sample, the setters, reset |
| `TapeDynamics` | `tape-dynamics-effect.h` and `-core.h` | three cores, the selected one, published values; a sample, setParameter, applyPreset, prepare, reset |
| `Compressor` | `compressor-effect.h` and `-core.h` | per channel the lookahead line, detector and smoother; link, site, reported latency |
| `ModulatedDelay` | `modulated-delay-effect.h`, `wow-flutter.h`, `decimator.h` | main and wow line, divisor and phase, held value, where each parameter acts |
| `Dynamics` | `envelope-follower.h`, `gain-computer.h` | followed and held level, hold counter; a sample, the mode switches, reset; the curve asked at a distance from the threshold |
| `ProgramDependent` | the program-dependent core and routing | per channel the detected level, and what the saturator was set to by it; blocks, linking, prepare, reset |
| `CircuitNetlist` | the `double` of the solvers; `netlist.h`, components; `diode-clipper.h`, `opamp-stage.h`, `tone-stack.h`, `taper.h` | exact fractions; a netlist and its verdict; the netlist of every builder |
| `CircuitEngine` | `mna-system.h`, `mna-assembler.h`; `newton-solver.h`, `models/diode.h`; `reactive-integrator.h` and its two policies | the augmented matrix, plan, stamps, elimination with pivoting; warm starts, the loop with damping and its ways out; histories, one step |
| `LabSolvers` | `labs/*/solver` | the linear, nullor and clipper solvers |
| `CircuitBench` | a caller of all of these | add, build, prepare, plan, drive, rewire, seed, solve, step, reset |
| `WaveLeaf` | `wdf/*` one-ports | wave state; a sample |
| `Tones` | `stimulus.h`, the Goertzel recurrence | arithmetic of a finite field |
| `Spectrum` | `fft.h`, `window.h`, `spectrum.h` | one action per stage of butterflies |
| `Measurement` | `analyzers.h`, `thdn.h`, `aliasing.h`, `alias-sweep.h`, `drive-series.h`, latency; `imd.h` | a capture block by block, then the bins one by one; the table of twin-tone products and the lines they read |
| `HarmonicDisplay` | `live-readout.h`, `harmonic-readout.cpp`, the plugin's editor | ring of windows, device rate, last result; ticks, device changes |
| `ParameterControls` | `parameter.h` and a control in each adapter | position, MIDI, posted messages, published and applied value |
| `WorkbenchApp` | `workbench-app.cpp`, `audio-source.cpp`, settings | disk, devices, settings, source; one action per handler, a crash between any two |
| `MCRings`, `MCNucleo`, `MCBoard`, `MCParameters`, `MCEffects`, `MCCircuit`, `MCHost` | sums of the above | a variable `part` says which component a behaviour is about |
| `Rings_proofs`, `Parameters_proofs`, `ServiceLoop_proofs`, `Board_proofs`, `Effects_proofs`, `Circuit_proofs`, `Host_proofs` | theorems (section 4) | each EXTENDS the modules it is about |

`ServiceLoop` uses the ring as a value (`RingQueue`, `Written`, `Drained`);
`AudioRing` shows that the slots behave like that value, so the two layers meet
in `RingContract`.

The `MC` modules put components that do not interact into one run. `part` is chosen
initially and never changes; only that component takes steps and the others stay in
an initial state, so the state space is the sum of the parts and not their product.
In `MCRings`, `MCParameters`, `MCEffects`, `MCCircuit` and `MCBoard` every component is EXTENDed (one keeps the plain
`Init`, `Next`, `Spec`, the others' carry its name), so that a proof module that EXTENDS the `MC` module, or the
component's, names the very definitions the run checks: an idle component keeps its invariants because it stands still, the
moving one by its own theorem. `MCNucleo` EXTENDS `UsbLifecycle` and instantiates it a second time, with one format and bus
resets, on the same variables, and `MCCircuit` its `CircuitBench`, under the other integration rule. `MCHost` EXTENDS the workbench, the readout and the
controls, and instantiates `Spectrum` and `Measurement`, whose properties are restated as `part = "..." => X!P`. A theorem about
one of several gathered definitions is listed without `property`, its entry saying of which it is a part. Properties that
answer the same question are gathered under one name (section 3). The parts that do
interact are composed: services with the lifecycle in `UsbLifecycle`, receive,
dead-band and effect in `ParameterPath`, netlist, assembler, solvers and labs in
`CircuitBench`, probe, timer and device in `HarmonicDisplay`.

### Data that is abstracted

A frame is a number or a token; its bytes are numbered, two for 16-bit stereo
and three for 24-bit, so that tearing and misreading a format are visible
(`Garbled`) and sample arithmetic is not. The effect is the identity on frames in
the transport. Watermarks, cycle timing and the backlog maximum are
left out of the service loop; whether a backlog exceeded a packet is kept
(`fellBehind`). Cycle timing is `Diagnostics`.

In the effects a sample is what the alignment and staleness properties tell apart:
`centre`, the mean age of the inputs it was computed from, and `reach`, the age of the
oldest one. A symmetric filter is centred on its taps, a sum of two
samples with different centres has none, an interpolation lies between its
neighbours: the adaa shaper, which averages the shape between two successive inputs, is
such a mean and half a sample late. Scaling (drive, bias, mix, makeup, output, feedback gain) changes neither
and is left out, as are the recursive memories (SVF, DC blocker),
except that the compressor's detector and smoother and the tape's magnetics are
followed as clear, running, or standing still while the stream went on. A tier or core
that is not running keeps its lines, whose samples age. In `ModulatedDelay` the
smoothed and modulated delay is any member of `Delays` at any sample, and the wow
displacement anything two LFOs can sum to. Pending parameters are a function from
parameter to value here; the atomics below it are `ParamHandoff`.

In `Dynamics` a level is a step; a one-pole recursion ends anywhere from where it was
to where it is heading, so every coefficient in [0, 1) is covered and none is named. The gain
computer is exact, its gains being integers over a common denominator. In
`ProgramDependent` the level a detector stands at is any level, whatever it listens to.

A circuit is computed in exact rationals: what is lost is rounding, what is kept is
the order of the operations, each comparison and each zero the code guards against.
The diode's exponential is a law of straight pieces, increasing and convex, and the
limiter's logarithm an integer one, so that a Newton iterate stays exact; the guards, the
damping, the tolerance and the order of the loop are the code's.

The analysis engine computes sums of roots of unity. Those identities hold in any field
that has the roots, so `Tones` computes in GF(113), where nothing is rounded and a
figure can be compared for equality; what such a field lacks is an order, so a magnitude
is kept squared and a floor is zero. Twin tones are followed as the lines a polynomial
of them has, folded below Nyquist.

A control position is a multiple of `1/Grid`; the curve of a continuous parameter is one to
one, so its plain value is its position. A telemetry line is its length and the
values it shows.

### External behaviour assumed

TinyUSB, the host, the hardware's registers and JUCE are not in the repository. The modules
take from the way the code uses them: FIFOs are byte queues; `SET_INTERFACE` empties the FIFO of the
endpoint it closes; a bus reset empties both, puts both interfaces back to alt 0 and
calls `tud_mount_cb`, no alt-setting callback; flow control picks one of three IN
packet sizes from the level of the IN FIFO; the MIDI FIFO fills inside `tud_task`; a
write to a peripheral without a clock is dropped; drivers open interfaces in the order
of the configuration descriptor and draw FIFO words as they go; a device that is opened, or
opened anew in another format, stops the callback, prepares and starts it again, while
`restartLastAudioDevice` does that only when none is open and leaves an open one alone.
Such definitions are marked external in `PROJECT.json`.

## 3. The runs

| run | module, cfg | what it shows |
|---|---|---|
| rings | `MCRings`, `Rings.cfg` | slots, watermarks and gate are right for every sequence of operations, and the ring implements the queue; what a window returned by `drain()` may contain and what the counters cover; a stream through the whole loop is heard as it was sent, whatever the interleaving |
| parameters | `MCParameters`, `Parameters.cfg` | no edit lost between threads, restarts keep parameters, edits land; on the board every block runs on the controllers' last values, each delivered once |
| effects | `MCEffects`, `Effects.cfg` | how far the wet and dry of a mix lie apart is known, and zero but for half a sample in the adaa tier; a delay gives back what it was asked for; latency reported is latency heard; nothing stale after a switch or a reset; every parameter acts on all it should |
| circuit | `MCCircuit`, `Circuit.cfg` | an answer is the circuit's, a refusal is of a singular one, a failure leaves the histories alone, builders make circuits that play, labs and engine agree |
| host | `MCHost`, `Host.cfg` | controls stand for what the effect has; a stream plays the source it was opened for and what was picked is kept; readouts and measurements are right |
| nucleo | `MCNucleo`, `Nucleo.cfg` | formats not mixed, restart before use, silence put down to its cause, streams that settle under the host's changes of mind |
| board | `MCBoard`, `Board.cfg` | a boot within limits that ends, an enumeration both sides agree on, telemetry that is honest and goes on, and nothing lost or starved at the host's pace |
| cross_format | `UsbLifecycle`, `CrossFormat.cfg` | violated: a format change in one direction garbles the other |
| preset_race | `ParamHandoff`, `PresetRace.cfg` | violated: a preset can be applied over an edit made after it |
| site_switch | `Compressor`, `SiteSwitch.cfg` | violated: the gain smoother resumes with the reduction it was left with |
| alias_sweep | `MCHost`, `AliasSweep.cfg` | violated: a sweep asked for less than half a bin never ends |
| source_pick | `MCHost`, `SourcePick.cfg` | violated: a source picked while a device is open is shown and stored, and the stream goes on with the one before |

What the gathered properties say, in the code's terms (each part is stated in its
own module):

*rings*
* `RingIsExact` (`WatermarksExact`, `PromotionExact`): the watermarks are the extremes since the
  ring was emptied, and Running means that the fill was reached since.
* `StreamIsFaithful` (order; frames are lost iff a loss was counted; silence is heard iff an
  underrun was counted; a tear costs the torn frame only); `StreamDrains`: all that was sent is played.
* `DrainIsCoherent`: a window is torn at most by a push in flight, one lap deep, is as long
  as `available()` promised and holds nothing that was not pushed; `LossIsAccounted`: what
  the reader never gets is covered by `overrunCount`, and a dropped window was overtaken
  in every attempt.

*effects*
* `LatenessIsKnown`: the group delay formula, the cascade and the dry ring agree
  at every factor (`TapeAligned`), as do the two terms in the saturation's naive and oversampled tiers, while its
  adaa tier keeps them half a sample apart (`DryWetOffsetIsKnown`); in the modulated delay reading before
  writing costs one internal sample, the divisor scales it, a delay beyond the line
  gives its oldest sample (`DelayIsHonoured`); a new divisor restarts the hold and keeps the
  line (`HeldIsFresh`, `RateChangeKeepsEcho`).
* `LatencyIsDelay`: in the compressor two clamps of the lookahead, by bounds that cross over with
  the sample rate, give the same number on every channel, and the signal is late by it.
* `NothingStale`: `reset()` reaches the lines of the tiers that do not run
  (`ResetIsSilent`), the tape effect's switch those of the core it selects
  (`SwitchStartsClean`); `setShape` pairs the stored antiderivative with the new shape
  even while that tier is idle (`OneAntiderivative`); the designated detector never
  stands still (`LinkedDetectorHears`); the wow line is written while bypassed
  (`TapeHearsCurrent`); a follower reports no level above what was heard since it was
  cleared (`EnvelopeWasHeard`); a prepared or reset saturator has no modulated tone left
  (`StoppedIsStatic`).
* `ParametersReach`: idle tape cores get every value (`CoresAgree`), the delay's
  filter gets its value again after a restart (`FilterKeepsValue`), a peak is held for the
  whole hold time (`PeakIsHeld`), the four curves with and without a knee are
  the ones the header defines (`CurveIsAsDefined`), every saturator has base plus depth
  times the level of the channel it should listen to (`ModulationIsBasePlusOffset`).

*circuit*
* `TopologiesAreRight`: the forest of `prepare()` says what reachability from ground
  says (`PrepareIsReachability`); whatever a builder makes is planned and answered, and a
  gain stage amplifies by its ratio of resistors (`BuiltCircuitsPlay`).
* `AnswersObeyTheCircuit`: after a converged solve Kirchhoff's current law holds at every
  node, sources hold their voltage, op-amp inputs meet, capacitors and inductors moved by
  the integration rule; a solve is refused only if the determinant of what was assembled
  is zero, and then every output reads zero. Neither is read off the stamps.
* `LabsAgree`: from rest and with the same inputs the lab solver reports the same voltages.
* `StateCarriesTheLaw`: an unfinished or refused step moves no history; a wave leaf
  obeys its element from sample to sample.

*host*
* `ControlStandsForTheEffect`: what a control shows is what the effect has or has been sent, through
  the buckets of a discrete parameter, MIDI reflection and knob dead-band. `HostSteps`: a block
  runs on the value the control shows; a save never replaces the device that is only away; a
  file loops without a seam.
* `OpenedIsHeardPickedIsKept`: the callback plays the source that was selected when its stream was opened or,
  if that could not be opened, silence, never the one before; and what
  was picked survives in the settings, also over a crash between any two handlers.
* `ReadoutIsTheDevices`: at most two results after a device change mix rates, then each is
  of the device's rate and analysed at it; the workbench shows none computed at another rate.
* `AnalysisIsExact`, `TransformIsExact`: each stage combines sub-transforms and the last gives the transform;
  the Goertzel recurrence reads the same bins; and `MeasuresAreExact`: a capture starts at rest,
  figures are those of the polynomial, the latency found is the delay, no two tabled
  products share a line.

*nucleo*
* `NothingGarbled` (what is in a ring, or in the IN FIFO of a host that listens, was read in the
  format it was written in),
  `RingsRestart` (restart before use; Stopped iff asleep), `SilenceIsAttributed` (one
  counter per silence), `StreamsSettle` (silence stops; capture alone is served; a host that
  settles on both streams hears its own audio again).

*board*
* `EnumerationIsRight`: bound functions are opened functions and take up all interfaces, each endpoint
  has its FIFO words, strings arrive whole, rate and frame size agree on both sides.
* `BoardComesUpWhole`: never too few wait states or a bus too fast, no fault handler, no
  constructor before RAM; the loop is entered with all it uses and, after a clean bring-up,
  exactly 48 MHz at the USB core. `BoardSettles`: no boot stays dark.
* `TelemetryIsHonest`: a record is whole and carries the longest block there had been,
  over a wrap too, or, with a dead timer, the value no block can reach.
* `PaceIsKept`, of the service loop the board ends in: nothing lost, no packet short after the first, never a
  packet behind; `BoardSettles` has the stream flow, and its underruns cease.

### Bounds, and why they are enough

* Rings of 2 or 3 frames (20 under the paced host of `Board.cfg`), `Block` 1 or 2 and
  `MaxPacket = Block + 1` (1 in `Nucleo.cfg`, 4 and 5 paced): the code's relations, 48 + 1 = 49 and
  a fill of two packets, are kept where they matter; full, empty, part of a block
  and wrap-around all occur.
* `MaxFrames = 6`: more than both rings of the instance hold at once, so losses occur
  and are followed by frames that survive. `Tears`: a payload may end with one byte of a further frame.
* `CountLimit`: a counter saturates; only zero and non-zero are told apart.
  `0` keeps none, for parts whose properties read none.
* `FifoDepth`: two or more packets. The host does not overfill the OUT FIFO: what
  TinyUSB does with a packet it has no room for is not modelled.
* `MaxEvents = 1` (lifecycle): one host request per `tud_task`. Control transfers take several
  USB transactions, and a pass is far shorter than a millisecond. With two in one
  pass, a close and reopen cancel out (no edge, no restart) and a change followed by
  a suspend re-primes the rings of a sleeping bus: both are what
  `reconcileStreamOpenEdges` and the latches do, and are listed as hazards.
* `CleanSwitch`: the passing run lets the host change format only with nothing in
  flight; `CrossFormat.cfg` drops that and shows why it is needed.
* `MaxJitter = 0`, `MinPasses = 2`: the host keeps its schedule and a frame leaves
  time for two passes ("far faster than 1 ms"). `PaceIsKept` holds with jitter and with one pass (section 4);
  `UnderrunsCease` needs two, as one a frame leaves none between a late block and the poll that needs it. 48 kHz and 44.1 kHz are scaled
  by twelve.
* Probe: `MaxSamples = 7` over three slots, `MaxAttempts = 2`: two laps, and a drain
  that gives up. `Reordered` is FALSE: the copies happen in program order (section 5).
* Boot: `PollLimit = 2` polls a wait, at most one broken part, one power cycle, two
  interrupts. Enumeration: one bus reset anywhere, three requested rates of which the device
  has one. Telemetry: counters and cycles of three bits, so that one block wraps the timer;
  a FIFO that holds a record of small numbers and none of large ones.
* `NumParams = 3`: the preset, a parameter in its reach and one outside; two
  threads. `PresetRace.cfg` needs one thread.
* Parameter path: three packets in the FIFO, a ring of four (one stays empty), two
  parameters and a binding to one the effect lacks.
* Effects: the halfband has 3 or 7 taps for 91 (`Center` 1 or 3, odd as in the code), two
  stages for saturation and one, two and three for tape, so the group delays are 4.5,
  and 1, 1.5 and 1.75 samples: integer, half and quarter, as 45, 67.5 and 78.75 are.
  Eight `Ticks` to a sample make those ages whole for all effects, `Horizon` exceeds their longest reach, and the dry rings
  (8 and 4 slots) exceed the delay as 128 does. The compressor's budget of 3 samples is
  exceeded at the higher rate only. Delay lines of 2 and 3 slots, delays of none, one
  and beyond the line, divisors 1, 2 and 4; wow reads span its line. Levels 0 to 2 and holds of none, one and two
  samples: rise, fall, expiry, and a hold that is shortened while it runs. Curves with and without a knee, at distances of
  8 dB to either side, which is past the knee and the range. Two channels, prepared
  as one and as two. `MaxEdits` and its namesakes bound
  the control calls of a behaviour, 2 to 4; samples are unbounded.
* Circuits: up to three of ten components (one of each kind, a second source on a driven
  node, a source between nodes, a node nobody added) on up to three nodes, and the circuit of
  every builder; six Newton iterations; two solves or steps of a behaviour, which a replan, reset or seed
  may separate. A singular matrix, a conflict of sources, a loop that runs out and a
  replaced component all occur. Leaves take four samples. `Shared = FALSE` is the callers'
  discipline: an assembler planned for one netlist is not handed to a solver of another.
* Analysis: transforms of 8 over GF(113), on frames with up to two non-zero samples, which
  span the rest by linearity; captures of 16 with harmonics that fold; polynomials up to
  third order in `Measurement`, the twin tones at the real 4800 bins.
* Controls: discrete parameters of three and five values and a continuous one on a grid of
  1/64, the MIDI values around the bucket edges. Workbench: two files, two devices and three upsets
  (a file lost or gone bad, a device plugged or unplugged, a crash). Readout: windows of 2 in a ring
  of 3, the ratio of 8192 to 12288.

Deadlock is not checked in the configurations of `MCNucleo`, `MCBoard`, `MCCircuit` and `MCHost`, where a
behaviour may come to its end: all frames sent, the last request made, the last
sample of a leaf, a measurement read.

### Fairness, and why the code justifies it

The service loop never blocks and nothing else moves its program counter, so it moves
for ever (`TheLoopGoesOn`; weak fairness of its next service in the modules themselves). The bus polls an
open IN endpoint every frame: weak fairness of `TakeFrame` and `TakePayload`; a host that plays
sends (`UsbLifecycle` only), and of the two transactions and the frame in
`PacedTransport`. The boot is one program whose waits are bounded: weak fairness of its
next step, and of a hardware flag nothing. A host that enumerates goes on asking; the diagnostics
service is called every pass, and a host with the port open reads. The device calls `process()` while it streams, and
`setParameter()` is two stores: weak fairness of each. Nothing is assumed about
when a host opens, closes or changes anything.

## 4. What is proved

The theorems are proved for every value of the constants that satisfies the named
`ASSUME` of the module that declares them, or the component's `...Constants`, which its `MC` module
assumes. A theorem that needs more states it as a hypothesis of its own; only those of
`ServiceLoop_proofs` and the last two of the probe's do. Each
theorem of the list in `PROJECT.json` with a `property` states, for every size, the very
definition a run checks on a small one. Every invariant below was checked by TLC before it was
proved, and each proof has one step for each action.

### The rings (`Rings_proofs`)

The audio ring, for every capacity, startup fill, frame set and request bound:

* `TypeCorrect`: inductive as it stands, once `advance()` is known to stay in the
  ring (`AdvanceInSlot`) and a write's sizes to add up (`WriteSizes`).
* `RingsTypeCorrect`: the types of the ring, the probe and the stream in their run. That no queue of
  the transport outgrows its bound is not a fact about types: `RangesHold` takes it from the FIFO's room,
  and what a read takes from what is there.
* `WatermarksAreExact`, `PromotionIsExact`, together `ReportsAreExact`: by `RingInv`, the two
  with `UntouchedIsEmpty` (a ring nobody observed is empty), which is what
  makes the seeding branch of `observeOccupancy` sound.
* `RunningUntilEmptied`: `OnlyEmptyingLeavesRunning`, an action property of each
  operation; proved only.
* `RefinesContract`: every operation maps to the operation of the same name in
  `RingContract`. The content is the lemmas `WriteHeld` and `ReadHeld`, which follow a
  frame from its slot to its place in the queue through `Advance` and `Distance`.

The capture probe, for every capacity, block and window length, number of attempts, and
every interleaving of single accesses. `ProbeInv` says where the producer stands, that the slots
behind it hold the last lap (`SameSlot` and `OtherSlot` tell which indices share a slot modulo the
capacity), where the reader stands, what it has delivered and dropped, and what the window
it is copying may hold.

* `ProbeTypeCorrect`, `LossIsCounted` and `WindowsArePublished` in either memory order.
* `WindowsAreCoherent`, `LapsAreRejected` for copies in program order (`~Reordered`): the check after the copy is of
  use only if the copy came before it, and the invariant of the copied slots is true then only.

### The data services (`Rings_proofs`)

* `StreamIsHeardAsSent`: `StreamIsFaithful` for every ring capacity, block and packet size, fill,
  FIFO depth and both formats, payloads torn anywhere, sinks that accept any number of
  bytes, and any interleaving of host and services. From `TransportAssumption`: a packet holds
  a block, the fill fits the ring, frames are numbers and
  silence is not, losses are counted. A torn payload is read before the next one arrives,
  as in the model.

The four parts of the property speak of frames and the services move bytes: alone they are not
inductive. `StreamInv` adds that both FIFOs, the carryover included, are
whole frames from the first byte on, a tear at the end of the OUT FIFO excepted
(`Framed`); and that all that is on its way, from the host's ear back to the
host, rises up to the last frame sent (`OrderHolds`). A step then either leaves this
sequence alone, moving frames from one part of it to the next (`QuietStep`), or drops a piece
of it where a loss is counted (`Passed`), or puts silence in where an underrun is. That a
partial accept may cut a frame and the carryover mends it is the reason why `Framed` is about the
FIFO and the carryover together.

### The pace (`ServiceLoop_proofs`)

`StreamsKeepPace` (`PaceIsKept`): at the host's pace no ring overruns, no block is short, no payload is torn, no OUT pass leaves more
than a packet behind, and once audio has gone out no IN packet is short or empty. For every block, packet, fill,
FIFO and ring size, both formats, any number of passes in a frame from one on, any set of rates with their packet schedules
and any jitter, from `PaceConstants`: the sizes' own assumptions and `RoomyConstants`. What the latter asks, and what the
code has: rings of `2 * (fill + jitter + packet) + block` less half an IN FIFO (342 frames and twice the jitter; 1024), an
IN FIFO of two packets (98; 196 or 294), a startup fill of a packet or more (49; 98) that is no multiple of a block (98 and
48), and a host that never schedules more than flow control drains from a well filled FIFO (48 of 48; 44 or 45 of 45).

None of the three parts is inductive, for the room in one buffer depends on what the others hold. `PaceInv` is
a table by the loop's place in its round (`passTurn`) and the host's in its frame (`Expected`: the next
transaction of a kind may come at once), each of its rows a sum of buffers, counted in frames:

* `Backlog`: before OUT runs at most a packet waits, and another if the host has had its turn since.
* `InputBounded`: what waits, with the input ring, less what the host sent in advance, is below the fill, the jitter and what
  a round has still to move: the host's schedule is bounded by a block, the DSP path moves a block each pass it can, and
  so no sum over the pattern of packets is needed, but for their advance.
* `Cushion`: the output ring starts above its fill, so the cold start ends with the first pull; from then
  on each pull brings the IN FIFO to a packet before the host may ask.
* `OutputHeld`: the output ring exceeds its fill only when the IN FIFO is full but for the packet just taken.
* `TotalBounded`: the two ends have no common clock, and this is what holds them together. Everything in the adapter, less the
  advance, is bounded: below a well filled IN FIFO by the other rows, above it because flow control
  takes at least what the host brings. This bounds the output ring while the FIFO is full.

A step is proved in two parts: `OutCounted`, `DspCounted` and `InCounted` say what a service does to the
counts (`CutFrames`, `EncodedFrames` and `DecodedFrames` bring bytes to frames), and `OutPaced` to `TakePaced` are
the arithmetic of the table.

### Lifecycle (`ServiceLoop_proofs`)

For every ring, block, packet and FIFO size, both formats and any order of requests:

* `RingsSleepWithTheBus`, when a pass drains one event at most (`MaxEvents = 1`), bus resets
  included: by `LifecycleInv`, which says after each of the three services what it has reconciled,
  and that a sleeping bus has nothing left that could restart a ring.
* `RingsRestartInTime`, for one event a pass and no bus reset: `Payable` says that a ring that owes a restart still has the
  edge or the latch that will bring it. After a bus reset it does not: section 5.
* `SilenceHasItsCause`, for any number of events, without a bus reset: since the callbacks' flags then follow the
  alternate settings (`FlagsFollow`).
* `FramesArriveWhole`: `NothingGarbled`, for any number of events, bus resets included, when the host changes
  the format only with nothing on its way (`CleanSwitch`) and the sink takes what it has
  room for (`~ShortAccepts`). The property speaks of decoded frames; `SoundInv` says that
  both FIFOs are at all times the encoding of whole frames in the one format on record (`Whole`), that an open
  interface has that format, that a closed playback stream leaves no bytes, and that the carryover stays empty. The lemmas
  on the converters (`DecodeEncode`, `EncodeJoin`, `EncodeCut`, `Recognised`) make a cut after any number of
  frames, and a join, again an encoding.
* `LifecycleTypes`: `TypeOK`, of which the part worth a proof is that no ring outgrows its slots and no FIFO its depth, for
  any number of events, bus resets, and format switches with anything in flight. What is in a FIFO may then be
  read in a format it was not written in, so `DataTypes` says no more of a frame than that it is one, sent or garbled
  (`Heard`). It needs `~ShortAccepts`: the carryover of a sink that takes part of what it has room for is not empty.

The hypotheses are not for the proof's convenience. Without them the code
does otherwise (sections 3 and 5), and the run has the same bounds.

### The board (`Board_proofs`)

* `BoardBoots`, `BootIsInOrder`: with any one part broken, any number of polls, interrupts
  and power cycles, and from either kind of start. The limits on the clocks rest on the order of the steps,
  so `BootInv` says for each place of the program what the steps before have left: memory
  (`MemoryInOrder`), clock tree (`ClockInOrder`, `OnThePll`) and objects (`InPlace`).
* `TelemetryTellsTheTruth`: for every width of the counter, clock, record and FIFO. `TimerIsHonest` relates
  the statistics to the longest block there was; `SentinelIsApart` shows that no
  block can be measured as the value of a dead timer; `WireIsHonest` says
  it of every record still waiting.
* `EnumerationStays`, `EnumeratedRight` (`EnumerationIsRight`): over any number of bus resets and requests in any order. The
  descriptors are one value, the table of 47 that the code builds, so the invariant says where the host stands in it: what
  it has read (`Course`; the announced length is 469, the sum of the 47), how far the walk over the functions has come and which
  endpoints it has opened (`Walk`), what the shared string buffer holds (`Letters`), and which alternate settings and
  rates are in force (`Streaming`). From it, that the walk stops at the table's functions and takes up every interface
  (`AllFunctionsOpen`), with 266, then 282, then 300 of the 320 FIFO words used, and that both sides go
  by one rate and format whose largest packet fits (`BothAgree`).
* `BoardTypesHold` (`BoardTypeOK`): the boot's polls stay within their limit (`BootRanges`, on top of
  `BootInv`), the telemetry within the width of its counters and the room of its FIFO (`DiagnosticsInv`). The latter is a
  bound on the length of a record: over its set of fields by the least set for which it fails, over the digits
  of a number by the least number; `WaitingGrows`, `WaitingShrinks` and `WaitingLeads` are what a
  sum over the FIFO makes of a record that joins or leaves. A record has finitely many fields (`DiagnosticsAssumption`).
* `EveryPartIsItself`: a behaviour of the run is one of each part, from which the theorems about a part are ones about the run.

### The oversampling cascade and the delay line (first in `Effects_proofs`)

* `ReadFractionalIsExact`, about the operators of `DelayLine` that five effects share: for every capacity,
  write position and fractional delay, what is read of a line written on every `d`-th sample is the
  input of exactly `d` times that long ago, once the line has heard that much. `Spaced` says which slots
  hold the newest samples and how old they are (`Recent`: one sample apart), `SpacedAges` and
  `WriteIsSpaced` what a sample and a write do to them; the modulo arithmetic of reads and writes
  is in `BehindIsRead` and `BehindAfterWrite`.
* `CascadeSample`: for every odd centre tap, one, two or three stages and any write position of any line, one sample of input
  through a cascade that has heard enough gives one centred `GroupDelay` behind it, which is the
  closed form both effects compensate with (`halfband-stage.h`, `oversampler.h`). That a cascade that was cleared gives nothing of
  before the clearing is the lemma `CascadeRemembers`. A line `Follows` a stream when its newest values are evenly spaced.
  `UpStepKnows` and `DownStepKnows` say what one stage makes of a stream it follows, `RaisedKnows` and `LoweredKnows`
  what it makes of a block of 1, 2 or 4 of them, and `UpDue`, `DownDue`, `UpCount`, `DownCount` are when
  the next value is due at each stage and how many have come to it. That the two polyphase branches of
  every stage down meet (`DownDues`) is what the depth of the odd line is for, and is arithmetic on those numbers.
* `Raised`, `Lowered` and `Oversampled` are recursive functions over the turns of a block. `TurnsExist` shows that such a function exists
  for any number of turns and any turn, by the least member of the set of turns for which it does not
  (`LeastNumber`, from the library's `WFMin`), and `RangeInduction` reads a property off them in the same way.

### The effects (`Effects_proofs`)

`MCEffects` runs seven components, and each of its five properties is a theorem of it (`EffectsTypeCorrect`,
`LatenessStaysKnown`, `LatencyStaysDelay`, `NothingGoesStale`, `ParametersReachAll`), for every value of all
constants at once, by `EffectsInv`, the conjunction of the invariants below: a step of one component is a stutter of
the others (`EachEffectSteps`).

* `LatencyIsTheDelay`: `LatencyIsDelay` for any number of channels, rates, lookahead and budget.
  It follows from the delay of the line only together with what the calls leave between
  samples, so `CompressorInv` adds that each prepared channel has the reported delay and the limit
  its rate allows (`DelaysAgree`), and that its line has heard all since it was
  cleared (`LinesRan`). `ReportedIsSet` is the point of it: the core's clamp and the
  effect's are the same number.
* `CompressorTypes`, and `LinkedDetectorRuns` (`LinkedDetectorHears`), from the same invariant.
* `PeaksAreHeld`: `PeakIsHeld` of the envelope follower, for every hold time and number of levels, through
  every change of mode, domain, ballistics and hold. `HoldInv` has two halves, one for the peak
  that masks and one for the peak that is held: what is held was given no longer ago than its hold
  has run (`MaskFades`), so an input louder than the hold time before it is always taken; from
  then on the counter has as long to run as is left of its hold (`HoldRuns`). The first attempt failed
  on a hold that was shortened while a peak was held (section 5), which two hold
  times in the run now show as well.
* `FollowersHear`: `EnvelopeWasHeard`, for the same settings.
* `CurvesAreAsDefined`: `CurveIsAsDefined` of the gain computer, for every mode, ratio, range and even knee, at every
  level. The law of the curve is local (`Climb`: what a decibel adds is the area under the slope), so that
  it follows from the parabola meeting its lines (`KneeForm`) and from signs of
  products; the gate's symmetry is an identity of cubics.
* The modulated delay, for every set of capacities, divisors and delays and any depth of wow, with edits, prepares and
  resets anywhere, in the middle of a hold included: `DelaysAreHonoured`, `HoldsAreFresh`,
  `EchoesOutlastTheRate`, `TapeIsCurrent`, `FiltersKeepTheirValue`, `DelayTypes`. `DelayIsHonoured` speaks of a
  line filled at one rate and says nothing of the samples before, so `DelayInv` adds `LineIsSpaced`: from the first
  tick after a change of rate the samples written are one internal sample apart, and the held value
  is as old as the decimator's phase says (`SinceTick`), never older. A tick then reads a
  whole number of steps back (`InternalDelay`, `TickReads`), or the oldest sample of the line
  (`ReadIsClamped`), and between ticks line and held value age together. That a line filled once
  stays filled (`Clear`) takes no more than that writes are of the input, at whatever rate.

* The saturation core (`SaturationInductive`): `DryWetOffsetIsKnown` says how far apart the input samples of wet and dry are,
  which is a fact about 2 * `Stages` lines of different rates and a ring, and `SaturationInv` says where each stands:
  `SaturationHeard` (each line has heard every sample of this run, and each at its own spacing),
  `SaturationReach` (until it has settled, nothing in a line that was cleared is older than the run; afterwards every line is
  full of this run). The adaa shaper's memory is one sample (`AdaaSample`). Both speak of the line of the tier that runs, and an idle tier's need only be lines. With
  them `ResetIsSilent` and `OneAntiderivative`, through any change of tier and voicing in between.
* The tape effect (`TapeInductive`): the same of whichever of the three cores is selected, each with a cascade of its own length
  (`CoreHeard`, `CoreReach`, one lemma for all three); and that all cores have the values the effect applied
  (`CoresAgree`), through edits and presets published at any time.
* The program-dependent effect (`PdsTypeCorrect`, `ModulationIsKept`, `StoppedStaysStatic`): `PdsInvariant` adds
  to the modulated values what the walk over channels and samples has already
  done, and with which level (`CarriedLevel`).

### Circuits and wave leaves (`Circuit_proofs`)

`StateKeepsTheLaw`: `StateCarriesTheLaw`, for every set of elements, waves and drives, and every netlist and component.

* A leaf keeps one wave, and its law is between two samples. `LeafInv` says what that wave carries (`Carries`): the voltage
  of the port and the drop of its current over the port resistance. It is inductive as `Port` gives each wave in
  these terms, whatever the element, so a sample of a capacitor or an inductor obeys the trapezoidal rule by rearrangement
  (`TakenBack`, `Distributes`, `Undone`), and the other six from the wave they answer alone (`SampleObeys`).
* The rearrangement is in fractions in lowest terms, where equal values are equal pairs, since the model compares pairs.
  `gcd` is a recursive function: that it exists and is a combination of its arguments (`IsGcd`) is shown by the least number for which it
  is not so (`GcdExists`, `GcdEquation`, `GcdIs`). Then `Stands` relates a fraction to an unreduced quotient, each operation is given
  on quotients (`AddStands`, `MulStands`, `QuotStands`...; that the crosswise reduction of `**` leaves nothing to
  reduce is in the second), and fractions of proportional quotients are the same (`Same`).
* The engine's half of it, `HistoryStays`, is read off `Step` and the other actions, under both rules (`HistoryWaits`, `HistoryWaitsTrapezoidal`).

### The hosts (`Host_proofs`)

* The workbench, for any files, lengths, devices and block sizes, with failures and crashes
  anywhere: `StreamAndSettingsHold` by `AppInv` (what is heard needs to know what the source
  plays and for what its stream was opened), the action properties `PreferenceOutlastsTheDevice` and
  `LoopsAreSeamless`.
* The readout, for any rates, window and ring at least as long: `StaleResultsAgeOut` by
  `DisplayInv`; the ring's stale samples are at its front and each result takes a window of them away.
* The controls, for any range, descriptor, controller values, dead-band and number of
  reflections under way: `ControlsStandForTheEffect` and `BlocksFollowTheirControls` by `ControlsInv`, from lemmas
  on the arithmetic of buckets and rounding.
* The run of all parts: `HostStepsHold` (`HostSteps`, the three action properties), and `HostTypesHold` (`HostTypeOK`) from `SessionTypes`
  and `ControlTypes`, which need the invariants of the session and of the controls: a position published is that of a
  choice there is, and a source plays within its file.

### Parameters (`Parameters_proofs`)

The handoff, for every number of parameters, values and threads, with or without a preset parameter:

* `TypeCorrect`; with the path of a MIDI controller, `ParametersTypeCorrect`: that the queue of updates never overfills is
  part of `PathInv` and not of the types.
* `EditsAreNotStranded`: `NoEditStranded` says nothing while a value is on its way,
  so it is strengthened to `HandoffInv`: a raised or just taken flag has a value under
  it (`FlagHasValue`, which is what the order of the two stores buys), the members
  agree with the atomics wherever nothing is on its way (`Settled`), and the DSP
  primitives agree with the members at all times (`LiveIsCached`).
* `RestartsKeepParameters`: from `LiveIsCached`.

The path of a MIDI controller on the board, for every CC table, every effect and every RX
FIFO that fits the source's ring:

* `EveryControllerArrives`, `BlocksHearTheHost`: by `PathInv`. What is inductive is where a
  controller stands (`HostIsHeard`): the last packet of the FIFO that moves it says so, or
  else the last update of the ring that does, or else the dead-band's memory. `BuffersEmpty`
  says that what left the FIFO in this pass fits the ring, so no update is dropped, and that each
  loop leaves its buffer empty; `FlushIsBehind` that the flush has cleaned the slots behind
  it. With both buffers empty and the shadow clean, the memory is what the host was left at,
  and by `DeadBandIsTrue` it is what the block will apply. Because a loop is one step per
  iteration, its induction is the one over steps and no recursive definition is involved.

### Assumptions

The assumptions are the named `ASSUME`s of the modules, and the `Constants` of the
instantiated ones, which the `MC` modules assume; all of them are asserted or
constructed in the code, except that the MIDI ring outsizes the RX FIFO
(`PathAssumption` in `ParameterPath`), which the code relies on and does not assert.
What else the theorems suppose is what the modules leave out (section 2).

### Only model-checked

* Liveness: `EditsLand`, `StreamDrains`, `StreamsSettle`, `BoardSettles`. The prover
  has no fairness rules and no ENABLED.
* What folds, parsers and solvers compute: `AnalysisIsExact` (transforms, recurrences over a finite field), and all that
  `MCCircuit` says of answers, topologies and labs, its types included, as elimination and Newton loop are nested recursions on rationals and their entries
  have no bound. The library's induction theorems take an operator
  as parameter, which the provers cannot instantiate; an induction over the least member of a set can be written out for one operator
  at a time, and was for the cascade, the FIFO words of the enumeration, the telemetry record and the greatest common divisor, but not for these. They are compared with a reference definition
  over the bounded inputs of section 3.

## 5. Observations without a run

Transport and lifecycle:

* The output ring is written a block at a time, so it is promoted at 144 frames, not
  at its fill of 98; the cold-start guard (`usb-in-path.h:357`), which expects
  occupancy to be exactly the fill at promotion, retires at its first look, and some
  silence is made up while the stream starts. `UnderrunsCease` holds: it stops.
* Two torn payloads that merge in the OUT FIFO into whole frames leave neither a
  malformed count nor a backlog; `NucleoTransport` has each tear read before the
  next payload arrives.
* The IN FIFO, and the carryover, survive a suspend, and the carryover a rate, format
  or bus reset; what they hold is sent first afterwards.
* With both streams closed and the output ring still Running, the IN service pulls
  and counts its silence as `outputUnderruns`.
* After a bus reset `g_outStreaming` and `g_inStreaming` stay set
  (`usb-lifecycle-callbacks.cpp:90`), so the edge of the next open is missed, the ring is
  not re-primed, and a host that only captures is not recognised as one (FR-029).
* After one of two streams closes, `g_currentAudioFormat` stays at the format selected
  last: the root of `cross_format`.

Board:

* Comments speak of adaptive endpoints (`usb-descriptors.h:130-131`, 366-374,
  `tusb_config.h:296-300`); `audio-streaming.h:60-72` declares synchronous ones. Comments speak of
  one 16-bit format (`usb-descriptors.h:157-160`, `audio-streaming.h:42`); there are two alternate
  settings.
* A telemetry record longer than the CDC FIFO is dropped at every attempt from then
  on: its counters only grow. `diagnostic-serializer.h:39-44` speaks of a drop that the next
  snapshot makes good. `RecordsGoOn` is stated for records that fit.
* `main()` discards the status of `InitSystemClock()` and goes on to the OTG pins and the USB stack
  (`nucleo-main.cpp:211-212`); `board-init.h:141-143` says "a PLL-lock failure MUST NOT proceed to USB init".
* After `kSysclkSwitchFailed` the USB core has its 48 MHz while the processor runs at
  16 MHz and `SystemCoreClock` says 168.

Parameters, probe and effects:

* `push()` counts a lap against the read index it loaded before its loop, so a drain
  in between makes `overrunCount` exceed the samples lost (`NoSilentLoss` is the
  direction that holds); a push of n samples in flight can tear n samples of a window.
* `drain()` re-reads the write index with an acquire load (`capture-probe.h:159`), which
  orders what follows it and not the plain loads of the copy before it. With
  `Reordered = TRUE` `CaptureProbe` lets the copies be satisfied late and `LapsRejected`
  ("the re-read reliably rejects ... a lapping push that completed during the copy",
  40-41) fails; on a machine that keeps loads in order it holds.
* Saturation: "naive/adaa have zero wet-path latency" (`saturation-core.h:229-231`) is untrue of adaa:
  `ADAAWaveshaper::process` averages the shape from the previous input to this one, half a sample late, and the
  dry term of that tier is not delayed, so a mix below 1 blends two signals half a sample apart.
* Saturation: a switch of tier without a reset replays what the idle cascade held, for
  as long as its filters reach; the note at `saturation-core.h:126` says at worst one
  sample.
* Tape: `Hysteresis::prepare` leaves the magnetization, so a prepared effect starts from
  the last one and a reset one from zero. At mix 0, after a switch of factor, the dry
  term is silent for the group delay, since the selected core's dry ring was cleared.
* Compressor: linked and in feedback detection, the common gain follows the previous
  output of channel 0 (`compressor-core.h:221`), not the loudest channel.
* Modulated delay: `prepare()` puts the LFO and wow values back to their defaults and does not
  apply the current ones (`PrepareAppliesCurrent`, stated in `ModulatedDelay`, fails).
* The delay effects read their line before they write it: a delay of n internal samples
  is heard n + 1 later.
* Envelope follower: a switch from branching to decoupled resumes the release stage where
  it stood, as a switch of detection resumes the mean square or the held peak;
  `envelope-follower.h:61-64` calls live tweaks click-free. When a hold expires the follower comes down
  to the current input and forgets lower peaks heard during the hold. No effect calls
  `setHold`, so their held peak is their peak. `setHold` leaves the counter of a
  running hold (`envelope-follower.h:90-93`): after a shorter one is set, the old peak masks the input for
  what is left of the longer, and an input that was masked when it ran out is not held
  itself. `PeakIsHeld` therefore looks only at inputs since then.
* Program-dependent routing: the comment that in linked mode "every core carried the SAME
  shared norm last block" is untrue of the first block after linking, or after a
  narrower buffer; `tonedBy` in `ProgramDependent` keeps what each really carried.

Circuits:

* After a singular solve `newton-solver.h:191-193` promises the last iterate in `sys`;
  `MnaSystem::solve` has zeroed it. The one clipper of the labs that warm-starts keeps its
  start also when it did not converge (`newton-clipper.h:190`).
* An assembler planned for another netlist of the same shape passes the guards of
  `newton-solver.h:228-262`; `Shared = TRUE` in `Circuit.cfg` lets a caller do this, and
  `AnswersObeyTheCircuit` then fails.
* The lab's `LinearSolver` ignores an op-amp without a word and takes the last of two
  sources that pin one node.
* `clipper-config.h` and `tone-stack.h` both define `acfx::detail::requirePositive`.

Hosts and analysis:

* `aliasSweep` and `imd` on an effect count its start-up transient as inharmonic
  power; a fundamental that divides 48 kHz folds its aliases onto its own harmonics and
  reads none; `thdPlusN` counts a constant offset as noise.
* The fifth harmonic of 19 kHz folds onto the 1 kHz product of the CCIF tones
  (`imd.h:46-54`; `NoHarmonicOnAProduct`, stated in `Measurement`, fails).
* A view shows the descriptor's default until it is touched, whatever the effect was
  prepared with (`parameter-view.cpp:20-32`; `UntouchedControlShowsTheDefault` fails).
* Cancelling the file dialog while a file that exists and cannot be read is selected
  leaves silence ("must never leave a broken no-source state", `workbench-app.cpp:84-85`). A
  device chosen while the preferred one is away is not kept in the settings, though every
  device change is said to be (`workbench-app.h:62-63`).
* A source picked while a device is open does not reach the stream (`source_pick`): `restartAudio` counts on
  `restartLastAudioDevice` stopping and preparing an open device, as `research.md:11-16` and
  `data-model.md:52-54` of `specs/workbench-audio-config` do.
* `ACFX_WORKBENCH_FILE` overrides a saved live source (`workbench-app.cpp:115-122`), though saved settings "take
  precedence" and the variable "only seeds the source when there is nothing saved yet" (110-112).
* A plugin whose rate goes A, B, A between two ticks of its editor does not notice; the
  level meter shows the last block's peak of a tick.

## 6. What is not modelled, and the plan

Not modelled, by choice: floating-point signal processing (filter coefficients,
wave-shaping, the hysteresis equation, the exponential of the diode), whose correctness is a matter of
numbers and not of states; painting and layout; the harnesses of the labs, which print
measurements; build, portability and hardware-in-the-loop scripts. The adaptors of wave
digital filters are not in the repository. `SignalFatalClockFaultAndHalt`,
`SetFaultLed` and `BusyWaitApprox` have no caller.

What could be proved and is not: the types of a circuit, whose entries stay fractions under every operation (`Closed`), through
the folds of assembly and elimination.
