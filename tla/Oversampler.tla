----------------------------- MODULE Oversampler -----------------------------
(***************************************************************************)
(* core/primitives/oversampling: a cascade of 2x halfband stages up to     *)
(* Factor times the base rate and the mirrored cascade down again, as      *)
(* operators on a value.  The coefficients are abstracted (the dense       *)
(* branch is symmetric, so its output is centred on its taps); the lines,  *)
(* their write positions, the tap depths and the order in which the phases *)
(* travel are the code's.                                                  *)
(***************************************************************************)
EXTENDS DelayLine, Sequences

CONSTANT Center        \* centre tap of the halfband (45 in the shipped table)

\* The static_asserts of halfband-stage.h: the centre tap is at an odd index.
CascadeConstants == TraceConstants /\ Center \in Nat /\ Center % 2 = 1

EvenCount    == Center + 1
OddDepthUp   == (Center - 1) \div 2
OddDepthDown == OddDepthUp + 1
OddLineSize  == OddDepthDown + 1

\* MUTANT of OddDepthDown: the commutator's extra step is forgotten.
OddDepthShallow == OddDepthUp

\* The n values of a line from its newest one at position pos backwards.
Tap(line, pos, depth) == line[(pos - depth) % EvenCount]

\* The sum over the dense branch: centred when the taps are evenly spaced.
Dense(line, pos) ==
  LET tap(j) == Tap(line, pos, j)
      step   == tap(1).centre - tap(0).centre
      even   == \A j \in 0..EvenCount - 1 : /\ tap(j).centre # Unclear
                                            /\ tap(j).centre = tap(0).centre + j * step
  IN  [centre |-> IF even THEN (tap(0).centre + tap(EvenCount - 1).centre) \div 2
                  ELSE Unclear,
       reach  |-> CHOOSE a \in {line[k].reach : k \in DOMAIN line} :
                     \A k \in DOMAIN line : line[k].reach <= a]

UpInit   == [line |-> [k \in 0..EvenCount - 1 |-> Silent], pos |-> 0]
DownInit == [even |-> [k \in 0..EvenCount - 1 |-> Silent], posE |-> 0,
             odd  |-> [k \in 0..OddLineSize - 1 |-> Silent], posO |-> 0]

\* One sample in, the even and the odd phase out, in that order.
UpStep(run, x) ==
  LET line == [run.stage.line EXCEPT ![run.stage.pos] = x]
      pos  == run.stage.pos
  IN  [stage |-> [line |-> line, pos |-> (pos + 1) % EvenCount],
       out   |-> run.out \o <<Dense(line, pos), Tap(line, pos, OddDepthUp)>>]

\* One even and one odd phase in, one sample out.
DownStep(run, pair) ==
  LET s    == run.stage
      even == [s.even EXCEPT ![s.posE] = pair[1]]
      odd  == [s.odd EXCEPT ![s.posO] = pair[2]]
  IN  [stage |-> [even |-> even, posE |-> (s.posE + 1) % EvenCount,
                  odd  |-> odd,  posO |-> (s.posO + 1) % OddLineSize],
       out   |-> Append(run.out, Sum2(Dense(even, s.posE),
                                      odd[(s.posO - OddDepthDown) % OddLineSize]))]

Pairs(s) == [k \in 1..Len(s) \div 2 |-> <<s[2 * k - 1], s[2 * k]>>]

ClearedStages(stages) == [up |-> [s \in 1..stages |-> UpInit], down |-> [s \in 1..stages |-> DownInit]]

\* A stage's turn in one base-rate sample: what reaches it, one after the other.
Raised(stage, s) ==
  LET after[n \in 0..Len(s)] ==
        IF n = 0 THEN [stage |-> stage, out |-> <<>>] ELSE UpStep(after[n - 1], s[n])
  IN  after[Len(s)]

Lowered(stage, s) ==
  LET after[n \in 0..Len(s)] ==
        IF n = 0 THEN [stage |-> stage, out |-> <<>>] ELSE DownStep(after[n - 1], s[n])
  IN  after[Len(s)]

Upsampled(run, s) ==
  LET r == Raised(run.os.up[s], run.out)
  IN  [os |-> [run.os EXCEPT !.up[s] = r.stage], out |-> r.out]

Downsampled(run, s) ==
  LET r == Lowered(run.os.down[s], Pairs(run.out))
  IN  [os |-> [run.os EXCEPT !.down[s] = r.stage], out |-> r.out]

\* One base-rate sample through the whole cascade: up the stages in order,
\* the nonlinearity (memoryless in what a trace records) on each sample,
\* and down the stages in the opposite order.
Oversampled(os, x) ==
  LET stages == Len(os.up)
      up[s \in 0..stages] == IF s = 0 THEN [os |-> os, out |-> <<x>>] ELSE Upsampled(up[s - 1], s)
      down[n \in 0..stages] == IF n = 0 THEN up[stages] ELSE Downsampled(down[n - 1], stages + 1 - n)
  IN  down[stages]

OversamplerAged(os) ==
  [up   |-> [s \in DOMAIN os.up |-> [os.up[s] EXCEPT !.line = [k \in DOMAIN @ |-> Aged(@[k])]]],
   down |-> [s \in DOMAIN os.down |->
               [os.down[s] EXCEPT !.even = [k \in DOMAIN @ |-> Aged(@[k])],
                                  !.odd  = [k \in DOMAIN @ |-> Aged(@[k])]]]]

\* The factor of a cascade: 2, 4 or 8, its template's only arguments.
FactorOf(stages) == <<2, 4, 8>>[stages]

\* 2 * kCenter * (Factor - 1) / Factor samples, in ticks.
GroupDelay(factor) == (2 * Center * (factor - 1) * Ticks) \div factor

\* The base-rate samples a value can reach back: every dense line in turn.
Span(factor) == GroupDelay(factor) * 2
=============================================================================
