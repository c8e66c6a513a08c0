------------------------------ MODULE Spectrum ------------------------------
(***************************************************************************)
(* Fft and Window of host/analysis, over the field of Tones: the windowed  *)
(* frame is loaded in bit-reversed order and combined in place, one action *)
(* per stage of butterflies.                                               *)
(***************************************************************************)
EXTENDS Tones, Sequences

CONSTANTS Size, Frames      \* the transform's length, and the frames given to it

SpectrumConstants ==
  /\ FieldConstants /\ \E b \in 1..16 : Size = 2^b          \* requirePowerOfTwo
  /\ (Prime - 1) % Size = 0 /\ (Prime - 1) % (Size - 1) = 0
  /\ Frames \subseteq [Samples(Size) -> 0..Prime-1]

VARIABLES
  kind, frame,
  loaded, len,    \* has the frame been loaded, and the sub-transforms' length so far
  out

spectrumVars == <<kind, frame, loaded, len, out>>

Bits == CHOOSE b \in 1..16 : 2^b = Size

\* The closed forms' terms of cos(m phase), scaled to integers.
Terms ==
  [BlackmanHarris |-> <<35875, -48829, 14128, -1168>>,
   Hann           |-> <<1, -1>>,
   FlatTop        |-> <<215578950, -416631580, 277263158, -83578947, 6947368>>]

\* Over Size - 1: the window is symmetric, its last coefficient the first again.
coeffs(k) ==
  [n \in Samples(Size) |-> Total(LAMBDA m : (Terms[k][m+1] % Prime) * Cosine(Size - 1, n * m), 0..Cardinality(DOMAIN Terms[k])-1)]

Windowed == LET w == coeffs(kind) IN [n \in Samples(Size) |-> (frame[n] * w[n]) % Prime]

bitReverse(i) == MapThenSumSet(LAMBDA b : ((i \div 2^b) % 2) * 2^(Bits - 1 - b), 0..Bits-1)

\* MUTANT of Twiddle: the table is read without the stage's stride.
TwiddleUnstrided(length, j) == Root(Size, -j)

\* exp(-2 pi i j/length), out of the table of the whole transform.
Twiddle(length, j) == Root(Size, -(j * (Size \div length)))

load ==
  /\ ~loaded /\ loaded' = TRUE /\ len' = 1
  /\ out' = [i \in Samples(Size) |-> Windowed[bitReverse(i)]]
  /\ UNCHANGED <<kind, frame>>

\* One pass of the outer loop, len being the length it starts from.
butterflies ==
  /\ loaded /\ len < Size /\ len' = 2 * len
  /\ out' = [i \in Samples(Size) |->
       LET j == i % (2 * len)
           even == i - (IF j < len THEN 0 ELSE len)
           t == Twiddle(2 * len, j % len) * out[even + len] IN
       (IF j < len THEN out[even] + t ELSE out[even] - t) % Prime]
  /\ UNCHANGED <<kind, frame, loaded>>

SpectrumInit ==
  /\ kind \in DOMAIN Terms /\ frame \in Frames
  /\ loaded = FALSE /\ len = 0 /\ out = [i \in Samples(Size) |-> 0]

SpectrumNext == load \/ butterflies

---------------------------------------------------------------------------
(* Properties.                                                             *)

\* After every stage each block of out is the transform of the samples it is
\* made of, those a stride of Size/len apart from the block's bit-reversed place;
\* after the last it is the transform of the frame (fft.h:90-110).
StagesAreTransforms ==
  loaded =>
    LET x == Windowed IN
    \A i \in Samples(Size) :
      LET block == [m \in Samples(len) |-> x[bitReverse(i - (i % len)) + m * (Size \div len)]] IN
      out[i] = Transform(block, len, i % len)

\* The two paths of the engine agree: the recurrence read at a whole bin is the
\* transform's bin, a sample later in phase (analyzers.h:146-175).
PathsAgree ==
  loaded /\ len = Size =>
    LET x == Windowed IN
    \A k \in Samples(Size) :
      LET y == GoertzelAnalyzer(x, Size, k) IN
      (y.real + Imaginary * y.imag) % Prime = (Root(Size, -k) * out[k]) % Prime
=============================================================================
