------------------------------- MODULE Tones -------------------------------
(***************************************************************************)
(* stimulus.h and GoertzelAnalyzer of host/analysis/analyzers.h, exactly.  *)
(* The engine's sums are identities of complex roots of unity, and those   *)
(* are the same in a finite field that has the roots: samples are numbers  *)
(* modulo a prime, e^(2 pi i k/n) is a power of a generator, and nothing   *)
(* is rounded.  What the field has not is an order, so a magnitude is kept *)
(* squared and a floor of the code is zero.                                *)
(***************************************************************************)
EXTENDS Integers, FiniteSetsExt

CONSTANTS Prime, Generator     \* of the field, and of its multiplicative group

Power[n \in 0..Prime-2] == IF n = 0 THEN 1 ELSE (Generator * Power[n-1]) % Prime

\* Roots of every order the transforms ask for, among them i.
FieldConstants ==
  /\ Prime \in Nat /\ Prime % 4 = 1 /\ {Power[n] : n \in 0..Prime-2} = 1..Prime-1

Root(n, k) == Power[((Prime - 1) \div n) * (k % n)]
Reciprocal(a) == CHOOSE b \in 1..Prime-1 : (a * b) % Prime = 1
Over(a, b) == (a * Reciprocal(b % Prime)) % Prime
Square(a) == (a * a) % Prime
Imaginary == Root(4, 1)
Total(Term(_), S) == MapThenSumSet(Term, S) % Prime

\* The size of a small number, whichever its sign.
Absolute(a) == IF 2 * (a % Prime) < Prime THEN a % Prime ELSE Prime - (a % Prime)

Cosine(n, k) == Over(Root(n, k) + Root(n, -k), 2)
Sine(n, k) == Over(Root(n, k) - Root(n, -k), 2 * Imaginary)

Samples(n) == 0..n-1
SineGenerator(n, bin, amplitude) == [i \in Samples(n) |-> (amplitude * Sine(n, bin * i)) % Prime]
ImpulseGenerator(n) == [i \in Samples(n) |-> IF i = 0 THEN 1 ELSE 0]

\* The two states after the samples, by the recurrence.
States(x, n, bin) ==
  LET after[i \in 0..n] ==
        IF i = 0 THEN [sPrev |-> 0, sPrev2 |-> 0]
        ELSE LET before == after[i-1] IN
             [sPrev |-> (x[i-1] + 2 * Cosine(n, bin) * before.sPrev - before.sPrev2) % Prime,
              sPrev2 |-> before.sPrev]
  IN after[n]

\* MUTANT of GoertzelAnalyzer: the real part forgets the cosine.
GoertzelUnturned(x, n, bin) ==
  LET s == States(x, n, bin) IN [real |-> s.sPrev - s.sPrev2, imag |-> s.sPrev2 * Sine(n, bin)]

GoertzelAnalyzer(x, n, bin) ==
  LET s == States(x, n, bin) IN
  [real |-> s.sPrev - s.sPrev2 * Cosine(n, bin), imag |-> s.sPrev2 * Sine(n, bin)]

\* magnitude, squared: 2 sqrt(real^2 + imag^2) / n.
Magnitude2(x, n, bin) ==
  LET y == GoertzelAnalyzer(x, n, bin) IN Over(4 * (Square(y.real) + Square(y.imag)), Square(n))

\* The definition both the FFT and the Goertzel recurrence must meet.
Transform(x, n, bin) == Total(LAMBDA i : (x[i] * Root(n, -(bin * i))) % Prime, Samples(n))
=============================================================================
