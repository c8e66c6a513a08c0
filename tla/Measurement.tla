---------------------------- MODULE Measurement ----------------------------
(***************************************************************************)
(* The measurements of host/analysis: a stimulus is driven through a       *)
(* processor block by block (capture), and what comes out is read with the *)
(* Goertzel analyser.  Over the field of Tones, so that every figure can   *)
(* be compared with the one the processor's shape has on paper.            *)
(*                                                                         *)
(* A processor is a polynomial of its input behind a delay line: the state *)
(* reset() clears and a block hands to the next.                           *)
(*                                                                         *)
(* The last part is imd() of imd.h, at the bins it uses: two tones through *)
(* a nonlinearity, the output read at the bins of the tabled products.  A  *)
(* polynomial of the two tones has a line at every m1*f1 + m2*f2 with      *)
(* |m1| + |m2| one of its orders, or that less an even number; sampling    *)
(* folds the line below Nyquist.  A reading is the lines on its bin.       *)
(***************************************************************************)
EXTENDS Tones, Sequences, SequencesExt

CONSTANTS
  Size,          \* samples of one capture
  PerBin,        \* a requested frequency is a number of these parts of a bin
  FundamentalBin, NumHarmonics,
  Processors,    \* the processors measured: [shape, delay], shape the coefficients of x, x^2, x^3
  BlockSizes,    \* ctx.maxBlockSize
  Sweeps,        \* frequency ranges: [start, stop, numSteps]
  ImdSamples,    \* kImdNumSamples: the bins of imd()'s transform
  MaxOrder       \* model bound: the highest order of its nonlinearity

MeasurementConstants ==
  /\ FieldConstants /\ Size \in Nat /\ (Prime - 1) % Size = 0
  /\ PerBin \in Nat \ {0} /\ FundamentalBin \in 1..Size-1 /\ NumHarmonics \in Nat \ {0}
  /\ \A p \in Processors : p.shape \in Seq(0..Prime-1) /\ p.delay \in Nat
  /\ BlockSizes \subseteq Nat
  /\ ImdSamples \in Nat \ {0} /\ MaxOrder \in Nat

VARIABLES
  task,          \* "alias", "drive", "readout" or "latency"
  processor, blockSize,
  steps,         \* what the sweep still asks for: bins, or drives
  phase,         \* "next", "capture", "read"
  memory, stimulus, captured,
  k, power,      \* the loop over the harmonics, and what it has collected
  curve,
  method,        \* of imd(): "SMPTE" or "CCIF"
  rate,          \* is ctx.sampleRate the rate of the stimulus?
  orders,        \* the orders of the nonlinearity
  result         \* [state, difference, sum, carriers, ratio], the first "none", "rejected" or "measured"

measureVars == <<task, processor, blockSize, steps, phase, memory, stimulus, captured, k, power, curve>>

NotMeasured == -1

(* The sweeps' points. ----------------------------------------------------------*)

\* MUTANT of snapToBin: truncated instead of rounded.
SnapDown(numerator, denominator) == numerator \div (PerBin * denominator)

\* To the nearest whole bin.
snapToBin(numerator, denominator) ==
  (2 * numerator + PerBin * denominator) \div (2 * PerBin * denominator)

sweepFrequencies(s) ==
  IF s.numSteps = 1 THEN <<snapToBin(s.start, 1)>>
  ELSE [i \in 1..s.numSteps |->
          snapToBin(s.start * (s.numSteps - 1) + (s.stop - s.start) * (i - 1), s.numSteps - 1)]

(* The processor, and the capture seam. --------------------------------------------*)

Shaped(shape, x) == (shape[1] * x + shape[2] * Square(x) + shape[3] * ((Square(x) * x) % Prime)) % Prime

\* MUTANT of ClearedMemory: capture() does not reset the effect.
LastMemory == IF memory = <<>> THEN [i \in 1..processor.delay |-> 0] ELSE memory

ClearedMemory == [i \in 1..processor.delay |-> 0]

\* makeProcessor(drive): a new instance, driven that much harder.
Driven == IF task = "drive" THEN [i \in 1..3 |-> (processor.shape[i] * Head(steps)^i) % Prime] ELSE processor.shape

Stimulus ==
  IF task = "latency" THEN ImpulseGenerator(Size)
  ELSE SineGenerator(Size, IF task = "alias" THEN Head(steps) ELSE FundamentalBin, 1)

beginStep ==
  /\ phase = "next" /\ steps # <<>> /\ phase' = "capture"
  /\ memory' = ClearedMemory /\ stimulus' = Stimulus /\ captured' = <<>>
  /\ UNCHANGED <<task, processor, blockSize, steps, k, power, curve>>

BlockLength ==
  LET most == IF blockSize > 0 THEN blockSize ELSE 1
      left == Size - Len(captured) IN
  IF left < most THEN left ELSE most

process ==
  /\ phase = "capture" /\ Len(captured) < Size
  /\ LET line == memory \o [i \in 1..BlockLength |-> stimulus[(Len(captured) + i - 1) % Size]] IN
     /\ captured' = captured \o [i \in 1..BlockLength |-> Shaped(Driven, line[i])]
     /\ memory' = SubSeq(line, BlockLength + 1, Len(line))
  /\ UNCHANGED <<task, processor, blockSize, steps, phase, stimulus, k, power, curve>>

(* The readings. ---------------------------------------------------------------------*)

out == [i \in Samples(Size) |-> captured[i + 1]]
Bin == IF task = "alias" THEN Head(steps) ELSE FundamentalBin
MeanSquare == Over(Total(LAMBDA i : Square(out[i]), Samples(Size)), Size)
InBand(bin) == 2 * bin < Size

\* aliasingMeasure starts from the DC bin, harmonicSpectrum from nothing.
startReading ==
  /\ phase = "capture" /\ Len(captured) = Size /\ task # "latency" /\ phase' = "read"
  /\ k' = 1
  /\ power' = IF task = "alias" THEN Square(Over(Total(LAMBDA i : out[i], Samples(Size)), Size)) ELSE <<>>
  /\ UNCHANGED <<task, processor, blockSize, steps, memory, stimulus, captured, curve>>

\* MUTANT of HarmonicPower: the amplitude's square, not the sinusoid's power.
HarmonicPeak == Magnitude2(out, Size, k * Bin)

HarmonicPower == Over(Magnitude2(out, Size, k * Bin), 2)

\* One round of aliasingMeasure's loop over the harmonics below Nyquist.
addHarmonic ==
  /\ phase = "read" /\ task = "alias" /\ InBand(k * Bin)
  /\ power' = (power + HarmonicPower) % Prime /\ k' = k + 1
  /\ UNCHANGED <<task, processor, blockSize, steps, phase, memory, stimulus, captured, curve>>

\* One round of harmonicSpectrum's: a harmonic above Nyquist is not measured.
readHarmonic ==
  /\ phase = "read" /\ task \in {"drive", "readout"} /\ k <= NumHarmonics
  /\ power' = Append(power, IF InBand(k * Bin) THEN Magnitude2(out, Size, k * Bin) ELSE NotMeasured)
  /\ k' = k + 1
  /\ UNCHANGED <<task, processor, blockSize, steps, phase, memory, stimulus, captured, curve>>

\* MUTANT of thdFromSpectrum: a harmonic that is not measured counts as one.
ThdOfAll(h) == IF h[1] = 0 THEN NotMeasured
               ELSE Over(Total(LAMBDA i : h[i] % Prime, 2..Len(h)), h[1])

\* Squared; without a fundamental there is nothing to compare with.
thdFromSpectrum(h) ==
  IF h[1] = 0 THEN NotMeasured
  ELSE Over(Total(LAMBDA i : IF h[i] = NotMeasured THEN 0 ELSE h[i], 2..Len(h)), h[1])

\* The residual: everything that is not the fundamental.  Squared.
thdPlusN(h) ==
  IF h[1] = 0 THEN NotMeasured ELSE Over(MeanSquare - Over(h[1], 2), Over(h[1], 2))

peakIndex(x) == CHOOSE i \in DOMAIN x :
  /\ \A j \in DOMAIN x : Absolute(x[j]) <= Absolute(x[i])
  /\ \A j \in 0..i-1 : Absolute(x[j]) < Absolute(x[i])

\* Correlations by magnitude, so that an inverted delay is found too.
corrAt(in, lag) == Absolute(Total(LAMBDA n : in[n] * out[n + lag], 0..Size-lag-1))
lagSamples(in) == peakIndex([lag \in Samples(Size) |-> corrAt(in, lag)])

Reading ==
  CASE task = "alias"   -> [bin |-> Bin, inharmonic |-> (MeanSquare - power) % Prime]
    [] task = "drive"   -> [drive |-> Head(steps), harmonics |-> power, thd |-> thdFromSpectrum(power)]
    [] task = "readout" -> [harmonics |-> power, thdPlusN |-> thdPlusN(power)]
    [] task = "latency" -> [peak |-> peakIndex([i \in Samples(Size) |-> Absolute(out[i])]), lag |-> lagSamples(stimulus)]

Finished ==
  CASE task = "alias"   -> phase = "read" /\ ~InBand(k * Bin)
    [] task = "latency" -> phase = "capture" /\ Len(captured) = Size
    [] OTHER            -> phase = "read" /\ k > NumHarmonics

endStep ==
  /\ Finished /\ phase' = "next"
  /\ curve' = Append(curve, Reading) /\ steps' = Tail(steps)
  /\ UNCHANGED <<task, processor, blockSize, memory, stimulus, captured, k, power>>

MeasureInit ==
  /\ task \in {"alias", "drive", "readout", "latency"}
  /\ processor \in Processors /\ blockSize \in BlockSizes
  /\ CASE task = "alias" -> \E s \in Sweeps : steps = sweepFrequencies(s)
       [] task = "drive" -> steps = <<1, 2, 3>>
       [] OTHER -> steps = <<1>>
  /\ phase = "next" /\ memory = <<>> /\ stimulus = <<>> /\ captured = <<>>
  /\ k = 1 /\ power = 0 /\ curve = <<>>

MeasureNext == beginStep \/ process \/ startReading \/ addHarmonic \/ readHarmonic \/ endStep

(* Intermodulation. ------------------------------------------------------------------*)

Product(m1, m2) == [m1 |-> m1, m2 |-> m2]

\* The tones in bins of 10 Hz, and the products in the tables' order.
imdSpec ==
  [SMPTE |-> [f1 |-> 6, f2 |-> 700,
              difference |-> <<Product(-1, 1), Product(-2, 1)>>,
              sum        |-> <<Product(1, 1), Product(2, 1)>>],
   CCIF  |-> [f1 |-> 1900, f2 |-> 2000,
              difference |-> <<Product(-1, 1), Product(2, -1), Product(-1, 2)>>,
              sum        |-> <<Product(1, 1)>>]]

FrequencyOf(p) == p.m1 * imdSpec[method].f1 + p.m2 * imdSpec[method].f2

Order(m1, m2) == (IF m1 < 0 THEN -m1 ELSE m1) + (IF m2 < 0 THEN -m2 ELSE m2)
Makes(p) == \E n \in orders : Order(p.m1, p.m2) <= n /\ (n - p.m1 - p.m2) % 2 = 0
Lines == {p \in [m1 : -MaxOrder..MaxOrder, m2 : -MaxOrder..MaxOrder] : Makes(p)}
Image(bin) == LET b == bin % ImdSamples IN IF 2 * b > ImdSamples THEN ImdSamples - b ELSE b

OutOfBand == {"not measured"}

\* MUTANT of productAmplitude: nothing is out of band.
AmplitudeAnywhere(bin) == {p \in Lines : Image(FrequencyOf(p)) = Image(bin)}

\* A product outside the band is not measured, never zero.
productAmplitude(bin) ==
  IF bin <= 0 \/ 2 * bin >= ImdSamples THEN OutOfBand
  ELSE {p \in Lines : Image(FrequencyOf(p)) = bin}

Readings(table) == [i \in DOMAIN table |-> productAmplitude(FrequencyOf(table[i]))]

NoResult == [state |-> "none", difference |-> <<>>, sum |-> <<>>, carriers |-> {}, ratio |-> FALSE]

\* imd(): a rate that would leave the bins is refused.  The ratio is a number
\* only when a carrier came through.
imd ==
  /\ result.state = "none"
  /\ LET spec == imdSpec[method]
         carriers == {productAmplitude(spec.f1), productAmplitude(spec.f2)} IN
     result' = IF ~rate THEN [NoResult EXCEPT !.state = "rejected"]
               ELSE [state |-> "measured", difference |-> Readings(spec.difference), sum |-> Readings(spec.sum),
                     carriers |-> carriers, ratio |-> UNION carriers # {}]
  /\ UNCHANGED <<method, rate, orders>>

ImdInit ==
  /\ method \in {"SMPTE", "CCIF"} /\ rate \in BOOLEAN
  /\ orders \in SUBSET (1..MaxOrder) \ {{}} /\ result = NoResult

---------------------------------------------------------------------------
(* Properties.                                                             *)

\* On paper: the amplitudes a shape gives a unit sine's harmonics, 0 the mean.
Amplitude(shape, m) ==
  CASE m = 0 -> Over(shape[2], 2)
    [] m = 1 -> (shape[1] + Over(3 * shape[3], 4)) % Prime
    [] m = 2 -> Over(shape[2], 2)
    [] m = 3 -> Over(shape[3], 4)
    [] OTHER -> 0

DrivenBy(d) == [i \in 1..3 |-> (processor.shape[i] * d^i) % Prime]
Folded(bin) == LET b == bin % Size IN IF 2 * b > Size THEN Size - b ELSE b
Coincident(bin) == \E m \in 2..3 : ~InBand(m * bin) /\ Folded(m * bin) % bin = 0
PowerOf(shape, M) == Total(LAMBDA m : Over(Square(Amplitude(shape, m)), 2), M)

\* Whatever the block size and whatever ran before, a capture is the processor's
\* answer to the stimulus from rest (analyzers.h:47-84).
CaptureStartsAtRest ==
  phase = "capture" =>
    \A i \in 1..Len(captured) :
      captured[i] = Shaped(Driven, IF i > processor.delay THEN stimulus[i - 1 - processor.delay] ELSE 0)

\* The inharmonic power of a step is the power the shape's harmonics above
\* Nyquist fold down, and nothing of the ones below (aliasing.h:55-98,
\* alias-sweep.h:109-205), unless a fold lands on a harmonic.
InharmonicIsFolded ==
  task = "alias" /\ processor.delay = 0 =>
    \A i \in 1..Len(curve) :
      LET bin == curve[i].bin IN
      ~Coincident(bin) =>
        curve[i].inharmonic = PowerOf(processor.shape, {m \in 2..3 : ~InBand(m * bin)})

\* Each harmonic reads its amplitude or, above Nyquist, not at all; the ratios
\* compare what was measured with the fundamental (spectrum.h:112-167,
\* drive-series.h:129-222, thdn.h:92-145).
FiguresAreOnPaper ==
  \A i \in 1..Len(curve) :
    LET c == curve[i]
        shape == DrivenBy(IF task = "drive" THEN c.drive ELSE 1)
        noFundamental == Amplitude(shape, 1) = 0
        harmonic(m) == Square(Amplitude(shape, m)) IN
    task \in {"drive", "readout"} /\ processor.delay = 0 =>
      /\ \A m \in 1..NumHarmonics :
           c.harmonics[m] = IF InBand(m * FundamentalBin) THEN harmonic(m) ELSE NotMeasured
      /\ task = "drive" =>
           c.thd = IF noFundamental THEN NotMeasured
                   ELSE Over(harmonic(2) + harmonic(3), harmonic(1))
      /\ task = "readout" =>
           c.thdPlusN = IF noFundamental THEN NotMeasured
                        ELSE Over(2 * harmonic(0) + harmonic(2) + harmonic(3), harmonic(1))

\* The latency of a delay is found by its peak and by correlation, also when it
\* turns the signal over (analyzers.h:108-124, 206-245).
LatencyIsFound ==
  task = "latency" /\ processor.shape[2] = 0 /\ processor.shape[3] = 0 =>
    \A i \in 1..Len(curve) : curve[i].peak = processor.delay /\ curve[i].lag = processor.delay

\* Every round of the loop reads a bin of its own, so the loop ends with the
\* bins (aliasing.h:80; alias-sweep.h:31-33 promises a defined, finite reading
\* for a frequency that is on no bin).
LoopEndsWithTheBins == task = "alias" => k <= Size

Tables == [difference |-> imdSpec[method].difference, sum |-> imdSpec[method].sum]
Places == {p \in {"difference", "sum"} \X (1..3) : p[2] \in DOMAIN Tables[p[1]]}
ReadAt(place) == result[place[1]][place[2]]
Opposite(p) == Product(-p.m1, -p.m2)

\* A measured product reads its own line and the lines of nothing else that the
\* nonlinearity makes, no line is read at two places, and a product above
\* Nyquist is not measured though its image is in the band (imd.h:36-54, 135-157).
ProductsAreTheirOwn ==
  result.state = "measured" =>
    \A a \in Places :
      LET p == Tables[a[1]][a[2]] IN
      IF FrequencyOf(p) <= 0 \/ 2 * FrequencyOf(p) >= ImdSamples THEN ReadAt(a) = OutOfBand
      ELSE /\ ReadAt(a) \subseteq {p, Opposite(p)}
           /\ Makes(p) => ReadAt(a) = {p, Opposite(p)}
           /\ \A b \in Places \ {a} : Makes(p) => ReadAt(b) # ReadAt(a)

\* No harmonic of one tone is on a product's bin: "For the standard SMPTE/CCIF
\* tone pairs no such coincidence occurs" (imd.h:46-54).
NoHarmonicOnAProduct ==
  result.state = "measured" =>
    \A a \in Places : ReadAt(a) # OutOfBand => \A p \in ReadAt(a) : p.m1 # 0 /\ p.m2 # 0
=============================================================================
