---------------------------- MODULE Effects_proofs ---------------------------
(***************************************************************************)
(* Theorems about the effects: what each of them keeps, and at the end     *)
(* what the run of all of them (MCEffects) states.                         *)
(*                                                                         *)
(* The delay line they are built from: what ReadFractional returns, for    *)
(* every capacity, every write position and every delay, once the line has *)
(* heard that much, one sample in every d of the input.                    *)
(*                                                                         *)
(* The oversampling cascade: that its group delay is the one the effects   *)
(* compensate, for every odd centre tap, every number of stages and every  *)
(* position of every line.  A line Follows a stream when its newest values *)
(* are evenly spaced; a stage in step with its stream gives one that is in *)
(* step with the next stage.  How many values have come to a stage, and    *)
(* when the next one is due there, are numbers (UpCount, UpDue, DownCount, *)
(* DownDue); that the centres of the two branches of each stage down meet  *)
(* is the arithmetic of them.  Raised, Lowered and Oversampled are         *)
(* recursive functions: that each exists, and is the last of its turns, is *)
(* shown by induction over the set of turns that have no such function     *)
(* (its least member).                                                     *)
(*                                                                         *)
(* The compressor: the delay its cores apply and the latency the host is   *)
(* told are clamped in two places, by two bounds; CompressorInv says that  *)
(* they agree on every prepared channel, and that its line holds the input *)
(* since it was cleared.  From this the compressed signal is as late as    *)
(* was reported, whatever was edited, prepared or reset, and when.         *)
(*                                                                         *)
(* The detector: HoldInv says when what is held was given and how long its *)
(* hold has still to run, so that no peak is masked beyond the hold time.  *)
(* The gain computer keeps nothing: its curve is a matter of arithmetic.   *)
(*                                                                         *)
(* The modulated delay: DelayInv ties the age of the value that is held to *)
(* the decimator's phase, and the spacing of what the main line holds to   *)
(* the divisor, from the first tick after a change of rate on.  From this  *)
(* an echo comes when it was asked for, at every divisor and capacity.     *)
(*                                                                         *)
(* Saturation and tape: the dry term's ring and the wet term's cascade are *)
(* cleared and run together, so both hold the samples of the run, as many  *)
(* as are counted.  Once those fill the longest path of the cascade, both  *)
(* terms are late by its group delay (CascadeSample); until then they      *)
(* reach back to the first sample of the run at most.                      *)
(*                                                                         *)
(* The program-dependent effect: a saturator alone does not show why it is *)
(* where its base, its depth and the level it heard put it.  What is       *)
(* inductive is that each prepared core is in step with the settings of    *)
(* the effect, that a tone nothing modulates is at its base, and that each *)
(* core, whoever detected, keeps the level its channel heard.              *)
(***************************************************************************)
EXTENDS MCEffects, FiniteSetTheorems, WellFoundedInduction, TLAPS

-----------------------------------------------------------------------------
(* The delay line                                                          *)

\* A line of C slots.
IsLine(line, C) ==
  /\ line = [slots |-> line.slots, writePos |-> line.writePos]
  /\ line.slots \in [0..C - 1 -> Traces] /\ line.writePos \in 0..C - 1

\* The slot of the sample written k writes before the last one.
Behind(w, k, C) == IF k < w THEN w - 1 - k ELSE w - 1 - k + C

\* The n newest samples are the input's, `step` ticks apart, the newest `age` old.
Spaced(line, C, n, step, age) ==
  \A k \in 0..C - 1 :
    k < n => line.slots[Behind(line.writePos, k, C)]
               = [centre |-> k * step + age, reach |-> k * step + age]

\* They are one sample apart, and the last one was just written.
Recent(line, C, n) == Spaced(line, C, n, Ticks, 0)

\* They are of an input at all.
Clear(line, C, n) ==
  \A k \in 0..C - 1 : k < n => line.slots[Behind(line.writePos, k, C)].centre # Unclear

\* The largest index of C slots.
LEMMA LargestSlot ==
  ASSUME NEW C \in Nat \ {0}, NEW S, S = 0..C - 1
  PROVE  (CHOOSE k \in S : \A j \in S : j <= k) = C - 1
<1>1. C - 1 \in S /\ \A j \in S : j <= C - 1
  OBVIOUS
<1>2. \A k \in S : (\A j \in S : j <= k) => k = C - 1
  OBVIOUS
<1> QED
  BY <1>1, <1>2

\* CapacityOf() is the number of slots.
LEMMA CapacityIsSlots ==
  ASSUME NEW C \in Nat \ {0}, NEW line, IsLine(line, C)
  PROVE  CapacityOf(line) = C
<1>1. DOMAIN line.slots = 0..C - 1
  BY DEF IsLine
<1>2. (CHOOSE k \in DOMAIN line.slots : \A j \in DOMAIN line.slots : j <= k) = C - 1
  BY <1>1, LargestSlot, Zenon
<1>3. CapacityOf(line) = 1 + (C - 1)
  BY <1>2, Zenon DEF CapacityOf
<1> QED
  BY <1>3

\* A remainder, by the multiple it is taken from.
LEMMA Remainder ==
  ASSUME NEW C \in Nat \ {0}, NEW i \in 0..C - 1
  PROVE  i % C = i /\ (i + C) % C = i /\ (i + 2 * C) % C = i
OBVIOUS

\* The slot the code reads k samples back is the one written k writes ago.
LEMMA BehindIsRead ==
  ASSUME NEW C \in Nat \ {0}, NEW w \in 0..C - 1, NEW k \in 0..C - 1
  PROVE  (w - 1 - k + 2 * C) % C = Behind(w, k, C) /\ Behind(w, k, C) \in 0..C - 1
<1>1. CASE k < w
  <2>1. w - 1 - k \in 0..C - 1
    BY <1>1
  <2> QED
    BY <1>1, <2>1, Remainder DEF Behind
<1>2. CASE ~(k < w)
  <2>1. w - 1 - k + C \in 0..C - 1 /\ w - 1 - k + 2 * C = (w - 1 - k + C) + C
    BY <1>2
  <2> QED
    BY <1>2, <2>1, Remainder DEF Behind
<1> QED
  BY <1>1, <1>2

\* A write takes the slot at the write position, and every other sample is one
\* write further behind.
LEMMA BehindAfterWrite ==
  ASSUME NEW C \in Nat \ {0}, NEW w \in 0..C - 1
  PROVE  /\ (w + 1) % C \in 0..C - 1
         /\ Behind((w + 1) % C, 0, C) = w
         /\ \A k \in 1..C - 1 : /\ Behind((w + 1) % C, k, C) = Behind(w, k - 1, C)
                                /\ Behind(w, k - 1, C) # w
<1>1. (w + 1) % C = IF w = C - 1 THEN 0 ELSE w + 1
  <2>1. CASE w = C - 1
    <3>1. 0 \in 0..C - 1 /\ w + 1 = 0 + C
      BY <2>1
    <3>2. (0 + C) % C = 0
      BY <3>1, Remainder
    <3> QED
      BY <2>1, <3>1, <3>2
  <2>2. CASE w # C - 1
    <3>1. w + 1 \in 0..C - 1
      BY <2>2
    <3> QED
      BY <2>2, <3>1, Remainder
  <2> QED
    BY <2>1, <2>2
<1> HIDE DEF Behind
<1>2. CASE w = C - 1
  BY <1>1, <1>2 DEF Behind
<1>3. CASE w # C - 1
  BY <1>1, <1>3 DEF Behind
<1> QED
  BY <1>2, <1>3

\* An age stays an age.
LEMMA LaterType ==
  ASSUME TraceConstants, NEW age \in Ages
  PROVE  Later(age) \in Ages
BY DEF TraceConstants, Ages, Unclear, Later

\* A trace stays a trace.
LEMMA AgedType ==
  ASSUME TraceConstants, NEW t \in Traces
  PROVE  Aged(t) \in Traces
BY LaterType DEF Aged, Traces

\* Aging a line ages what its slots hold.
LEMMA LineAgedType ==
  ASSUME TraceConstants, NEW C \in Nat \ {0}, NEW line, IsLine(line, C)
  PROVE  /\ IsLine(LineAged(line), C) /\ LineAged(line).writePos = line.writePos
         /\ \A k \in 0..C - 1 : LineAged(line).slots[k] = Aged(line.slots[k])
<1> DEFINE aged == LineAged(line)
<1>1. /\ line.slots \in [0..C - 1 -> Traces] /\ line.writePos \in 0..C - 1
      /\ line = [slots |-> line.slots, writePos |-> line.writePos]
  BY DEF IsLine
<1>2. /\ aged.slots = [k \in 0..C - 1 |-> Aged(line.slots[k])]
      /\ aged.writePos = line.writePos /\ aged = [slots |-> aged.slots, writePos |-> aged.writePos]
  BY <1>1 DEF LineAged
<1>3. aged.slots \in [0..C - 1 -> Traces]
  BY <1>1, <1>2, AgedType
<1> QED
  BY <1>1, <1>2, <1>3 DEF IsLine

\* A write changes one slot.
LEMMA WriteType ==
  ASSUME TraceConstants, NEW C \in Nat \ {0}, NEW line, IsLine(line, C), NEW x \in Traces
  PROVE  /\ IsLine(Write(line, x), C) /\ Write(line, x).writePos = (line.writePos + 1) % C
         /\ \A k \in 0..C - 1 :
              Write(line, x).slots[k] = IF k = line.writePos THEN x ELSE line.slots[k]
<1>1. /\ line.slots \in [0..C - 1 -> Traces] /\ line.writePos \in 0..C - 1
      /\ CapacityOf(line) = C
  BY CapacityIsSlots DEF IsLine
<1>2. Write(line, x) = [slots    |-> [line.slots EXCEPT ![line.writePos] = x],
                        writePos |-> (line.writePos + 1) % C]
  BY <1>1 DEF Write
<1>3. (line.writePos + 1) % C \in 0..C - 1
  BY <1>1, BehindAfterWrite
<1> QED
  BY <1>1, <1>2, <1>3 DEF IsLine

\* An input sample is a trace.
LEMMA InputType == TraceConstants => Input \in Traces
BY DEF Input, Traces, Ages, Unclear, TraceConstants

\* A cleared line holds nothing.
LEMMA LineType ==
  ASSUME TraceConstants, NEW C \in Nat \ {0}
  PROVE  IsLine(Line(C), C)
<1>1. Silent \in Traces
  BY DEF Silent, Traces, Ages, Unclear, TraceConstants
<1> QED
  BY <1>1 DEF Line, IsLine

\* One sample later, an age within the horizon is one sample more.
LEMMA LaterAge ==
  ASSUME TraceConstants, NEW age \in Nat, age + Ticks <= Horizon
  PROVE  Later(age) = age + Ticks
BY DEF TraceConstants, Later, Unclear

\* The bound of a product by that of its factor.
LEMMA StepsWithin ==
  ASSUME NEW C \in Nat \ {0}, NEW step \in Nat, NEW k \in 0..C - 1
  PROVE  k * step \in Nat /\ (C - 1) * step \in Nat /\ k * step <= (C - 1) * step
<1>1. k * step \in Nat /\ (C - 1) * step \in Nat /\ (C - 1 - k) * step \in Nat
  OBVIOUS
<1>2. (C - 1) * step = k * step + (C - 1 - k) * step
  OBVIOUS
<1> QED
  BY <1>1, <1>2

\* A product grows with its factors.
LEMMA ProductGrows ==
  ASSUME NEW a \in Nat, NEW b \in Nat, NEW m \in Nat, a <= b
  PROVE  a * m <= b * m /\ a * m \in Nat /\ b * m \in Nat
<1>1. (b - a) * m \in Nat /\ a * m \in Nat /\ b * m \in Nat
  OBVIOUS
<1>2. (b - a) * m = b * m - a * m
  OBVIOUS
<1> QED
  BY <1>1, <1>2

\* The bound of a quotient.
LEMMA QuotientWithin ==
  ASSUME NEW s \in Nat, NEW m \in Nat \ {0}, NEW h \in Nat, s <= m * h
  PROVE  s \div m \in 0..h
<1> DEFINE q == s \div m
<1>1. q \in Nat /\ q * m <= s /\ q * m \in Nat /\ h * m \in Nat /\ h * m = m * h
  BY Z3
<1> HIDE DEF q
<1>2. CASE q > h
  <2>1. h + 1 \in Nat /\ h + 1 <= q
    BY <1>1, <1>2
  <2>2. (h + 1) * m <= q * m
    BY <1>1, <2>1, ProductGrows
  <2>3. (h + 1) * m = h * m + m
    OBVIOUS
  <2> QED
    BY <1>1, <2>2, <2>3
<1> QED
  BY <1>1, <1>2 DEF q

\* What the line knows gets a sample older.
LEMMA SpacedAges ==
  ASSUME TraceConstants, NEW C \in Nat \ {0}, NEW line, IsLine(line, C), NEW n \in Nat,
         NEW step \in Nat, NEW age \in Nat, Spaced(line, C, n, step, age),
         \A k \in 0..C - 1 : k < n => k * step + age + Ticks <= Horizon
  PROVE  Spaced(LineAged(line), C, n, step, age + Ticks)
<1> DEFINE aged == LineAged(line)  w == line.writePos
<1>1. Ticks \in Nat /\ Horizon \in Nat /\ w \in 0..C - 1
  BY DEF TraceConstants, IsLine
<1>2. aged.writePos = w /\ \A k \in 0..C - 1 : aged.slots[k] = Aged(line.slots[k])
  BY LineAgedType
<1> HIDE DEF aged, w
<1> SUFFICES ASSUME NEW k \in 0..C - 1, k < n
             PROVE  aged.slots[Behind(w, k, C)] = [centre |-> k * step + (age + Ticks),
                                                   reach |-> k * step + (age + Ticks)]
  BY <1>2 DEF Spaced, aged
<1>3. Behind(w, k, C) \in 0..C - 1
  BY <1>1, BehindIsRead
<1>4. line.slots[Behind(w, k, C)] = [centre |-> k * step + age, reach |-> k * step + age]
  BY DEF Spaced, w
<1>5. k * step \in Nat
  BY StepsWithin
<1>6. k * step + age \in Nat /\ k * step + age + Ticks <= Horizon
  BY <1>1, <1>5
<1>7. Later(k * step + age) = k * step + age + Ticks
  BY <1>6, LaterAge
<1>8. k * step + age + Ticks = k * step + (age + Ticks)
  BY <1>1, <1>5
<1> QED
  BY <1>2, <1>3, <1>4, <1>7, <1>8 DEF Aged

\* After an input sample the line knows one more, and the oldest is forgotten.
LEMMA WriteIsSpaced ==
  ASSUME TraceConstants, NEW C \in Nat \ {0}, NEW line, IsLine(line, C), NEW n \in Nat,
         NEW step \in Nat, Spaced(line, C, n, step, step)
  PROVE  Spaced(Write(line, Input), C, n + 1, step, 0)
<1> DEFINE written == Write(line, Input)
           w == line.writePos
           v == (w + 1) % C
<1>1. /\ written.writePos = v
      /\ \A k \in 0..C - 1 : written.slots[k] = IF k = w THEN Input ELSE line.slots[k]
  BY WriteType, InputType
<1>2. w \in 0..C - 1
  BY DEF IsLine
<1>3. /\ v \in 0..C - 1 /\ Behind(v, 0, C) = w
      /\ \A k \in 1..C - 1 : Behind(v, k, C) = Behind(w, k - 1, C) /\ Behind(w, k - 1, C) # w
  BY <1>2, BehindAfterWrite
<1> HIDE DEF written, v, w
<1> SUFFICES ASSUME NEW k \in 0..C - 1, k < n + 1
             PROVE  written.slots[Behind(v, k, C)] = [centre |-> k * step + 0, reach |-> k * step + 0]
  BY <1>1 DEF Spaced, written
<1>4. CASE k = 0
  <2>1. 0 * step + 0 = 0
    OBVIOUS
  <2> QED
    BY <1>1, <1>2, <1>3, <1>4, <2>1 DEF Input
<1>5. CASE k # 0
  <2>1. k \in 1..C - 1 /\ k - 1 \in 0..C - 1 /\ k - 1 < n
    BY <1>5
  <2>2. Behind(w, k - 1, C) \in 0..C - 1
    BY <1>2, <2>1, BehindIsRead
  <2>3. line.slots[Behind(w, k - 1, C)] = [centre |-> (k - 1) * step + step, reach |-> (k - 1) * step + step]
    BY <2>1 DEF Spaced, w
  <2>4. (k - 1) * step + step = k * step + 0
    OBVIOUS
  <2> QED
    BY <1>1, <1>3, <2>1, <2>2, <2>3, <2>4
<1> QED
  BY <1>4, <1>5

\* A sample of a line that is written at every one.
LEMMA WriteIsRecent ==
  ASSUME TraceConstants, NEW C \in Nat \ {0}, (C - 1) * Ticks <= Horizon,
         NEW line, IsLine(line, C), NEW n \in Nat, Recent(line, C, n)
  PROVE  Recent(Write(LineAged(line), Input), C, n + 1)
<1> DEFINE m == IF n > C - 1 THEN C - 1 ELSE n
           aged == LineAged(line)
           written == Write(aged, Input)
<1>1. Ticks \in Nat /\ Horizon \in Nat /\ m \in Nat /\ m <= n /\ m <= C - 1
  BY DEF TraceConstants
<1>2. \A k \in 0..C - 1 : k < n + 1 => k < m + 1
  OBVIOUS
<1> HIDE DEF m, aged, written
<1>3. Spaced(line, C, m, Ticks, 0)
  <2>1. \A k \in 0..C - 1 : k < m => k < n
    BY <1>1
  <2> QED
    BY <2>1 DEF Recent, Spaced
<1>4. ASSUME NEW k \in 0..C - 1, k < m PROVE k * Ticks + 0 + Ticks <= Horizon
  <2>1. k + 1 \in 0..C - 1 /\ (k + 1) * Ticks = k * Ticks + Ticks /\ k * Ticks \in Nat
    BY <1>1, <1>4
  <2>2. (k + 1) * Ticks <= (C - 1) * Ticks /\ (k + 1) * Ticks \in Nat /\ (C - 1) * Ticks \in Nat
    BY <1>1, <2>1, StepsWithin
  <2> QED
    BY <1>1, <2>1, <2>2
<1>5. Spaced(aged, C, m, Ticks, 0 + Ticks) /\ IsLine(aged, C)
  BY <1>1, <1>3, <1>4, SpacedAges, LineAgedType DEF aged
<1>6. Spaced(aged, C, m, Ticks, Ticks)
  BY <1>1, <1>5
<1>7. Spaced(written, C, m + 1, Ticks, 0)
  BY <1>1, <1>5, <1>6, WriteIsSpaced DEF written
<1>8. Spaced(written, C, n + 1, Ticks, 0)
  BY <1>2, <1>7 DEF Spaced
<1> QED
  BY <1>8 DEF Recent, written, aged

\* What was of an input stays so.
LEMMA ClearAges ==
  ASSUME TraceConstants, NEW C \in Nat \ {0}, NEW line, IsLine(line, C), NEW n \in Nat,
         Clear(line, C, n)
  PROVE  Clear(LineAged(line), C, n)
<1> DEFINE aged == LineAged(line)  w == line.writePos
<1>1. aged.writePos = w /\ \A k \in 0..C - 1 : aged.slots[k] = Aged(line.slots[k])
  BY LineAgedType
<1>2. w \in 0..C - 1 /\ line.slots \in [0..C - 1 -> Traces]
  BY DEF IsLine
<1> HIDE DEF aged, w
<1> SUFFICES ASSUME NEW k \in 0..C - 1, k < n PROVE aged.slots[Behind(w, k, C)].centre # Unclear
  BY <1>1 DEF Clear, aged
<1>3. Behind(w, k, C) \in 0..C - 1
  BY <1>2, BehindIsRead
<1>4. line.slots[Behind(w, k, C)].centre # Unclear
  BY DEF Clear, w
<1>5. line.slots[Behind(w, k, C)].centre \in Ages
  BY <1>2, <1>3 DEF Traces
<1>6. Later(line.slots[Behind(w, k, C)].centre) # Unclear
  BY <1>4, <1>5 DEF Later, Ages, Unclear, TraceConstants
<1>7. aged.slots[Behind(w, k, C)] = Aged(line.slots[Behind(w, k, C)])
  BY <1>1, <1>3
<1>8. Aged(line.slots[Behind(w, k, C)]).centre = Later(line.slots[Behind(w, k, C)].centre)
  BY DEF Aged
<1> QED
  BY <1>6, <1>7, <1>8

\* After an input sample the line knows one more of an input.
LEMMA WriteIsClear ==
  ASSUME TraceConstants, NEW C \in Nat \ {0}, NEW line, IsLine(line, C), NEW n \in Nat,
         Clear(line, C, n)
  PROVE  Clear(Write(line, Input), C, n + 1)
<1> DEFINE written == Write(line, Input)
           w == line.writePos
           v == (w + 1) % C
<1>1. /\ written.writePos = v
      /\ \A k \in 0..C - 1 : written.slots[k] = IF k = w THEN Input ELSE line.slots[k]
  BY WriteType, InputType
<1>2. w \in 0..C - 1
  BY DEF IsLine
<1>3. /\ v \in 0..C - 1 /\ Behind(v, 0, C) = w
      /\ \A k \in 1..C - 1 : Behind(v, k, C) = Behind(w, k - 1, C) /\ Behind(w, k - 1, C) # w
  BY <1>2, BehindAfterWrite
<1> HIDE DEF written, v, w
<1> SUFFICES ASSUME NEW k \in 0..C - 1, k < n + 1 PROVE written.slots[Behind(v, k, C)].centre # Unclear
  BY <1>1 DEF Clear, written
<1>4. CASE k = 0
  BY <1>1, <1>2, <1>3, <1>4 DEF Input, Unclear
<1>5. CASE k # 0
  <2>1. k \in 1..C - 1 /\ k - 1 \in 0..C - 1 /\ k - 1 < n
    BY <1>5
  <2>2. Behind(w, k - 1, C) \in 0..C - 1
    BY <1>2, <2>1, BehindIsRead
  <2>3. line.slots[Behind(w, k - 1, C)].centre # Unclear
    BY <2>1 DEF Clear, w
  <2> QED
    BY <1>1, <1>3, <2>1, <2>2, <2>3
<1> QED
  BY <1>4, <1>5

\* What is read: the slot of the delay's whole samples, and for the rest of it
\* the one behind; a delay beyond the line reads its oldest.
LEMMA ReadForm ==
  ASSUME TraceConstants, NEW C \in Nat \ {0}, NEW line, IsLine(line, C), NEW delay \in Nat
  PROVE  \E i \in 0..C - 1, part \in 0..Ticks - 1, older \in Traces :
           LET newer == line.slots[Behind(line.writePos, i, C)] IN
           /\ ReadFractional(line, delay) = Between(newer, older, part)
           /\ i * Ticks + part = IF delay > (C - 1) * Ticks THEN (C - 1) * Ticks ELSE delay
           /\ part # 0 => /\ i + 1 \in 0..C - 1
                          /\ older = line.slots[Behind(line.writePos, i + 1, C)]
<1> DEFINE T == Ticks
           farthest == (C - 1) * T
           at == IF delay > farthest THEN farthest ELSE delay
           i == at \div T
           part == at % T
           w == line.writePos
           newer == line.slots[(w - 1 - i + 2 * C) % C]
           older == line.slots[(w - 2 - i + 2 * C) % C]
<1>1. T \in Nat \ {0} /\ w \in 0..C - 1 /\ CapacityOf(line) = C /\ line.slots \in [0..C - 1 -> Traces]
  BY CapacityIsSlots DEF TraceConstants, IsLine
<1>2. farthest \in Nat /\ at \in Nat /\ at <= farthest
  BY <1>1, Z3
<1>3. part \in 0..T - 1 /\ i \in Nat /\ at = i * T + part
  BY <1>1, <1>2, Z3
<1>4. ReadFractional(line, delay) = Between(newer, older, part)
  BY <1>1 DEF ReadFractional
<1>5. i <= C - 1 /\ (part # 0 => i + 1 <= C - 1)
  <2>1. i * T + part <= (C - 1) * T
    BY <1>2, <1>3
  <2> HIDE DEF i, part, at, T
  <2>2. CASE i > C - 1
    <3>1. (i - (C - 1)) * T >= T /\ (i - (C - 1)) * T = i * T - (C - 1) * T
      BY <1>1, <1>3, <2>2, Z3
    <3>2. i * T \in Nat /\ (C - 1) * T \in Nat
      BY <1>1, <1>3
    <3> QED
      BY <1>1, <1>3, <2>1, <3>1, <3>2, SMTT(30)
  <2>3. CASE i = C - 1
    <3>1. i * T = (C - 1) * T /\ i * T \in Nat
      BY <1>1, <1>3, <2>3
    <3> QED
      BY <1>1, <1>3, <2>1, <2>3, <3>1
  <2>4. CASE i < C - 1
    BY <1>3, <2>4
  <2> QED
    BY <1>3, <2>2, <2>3, <2>4
<1> HIDE DEF i, part, at
<1>6. i \in 0..C - 1 /\ newer = line.slots[Behind(w, i, C)]
  <2>1. i \in 0..C - 1
    BY <1>3, <1>5
  <2>2. (w - 1 - i + 2 * C) % C = Behind(w, i, C)
    BY <1>1, <2>1, BehindIsRead
  <2> QED
    BY <2>1, <2>2
<1>7. part # 0 => i + 1 \in 0..C - 1 /\ older = line.slots[Behind(w, i + 1, C)]
  <2> SUFFICES ASSUME part # 0 PROVE i + 1 \in 0..C - 1 /\ older = line.slots[Behind(w, i + 1, C)]
    OBVIOUS
  <2>1. i + 1 \in 0..C - 1 /\ w - 2 - i + 2 * C = w - 1 - (i + 1) + 2 * C
    BY <1>1, <1>3, <1>5
  <2> QED
    BY <1>1, <2>1, BehindIsRead
<1>8. older \in Traces
  <2>1. (w - 2 - i + 2 * C) % C \in 0..C - 1
    <3>1. w - 2 - i + 2 * C \in Int
      BY <1>1, <1>6
    <3>2. \A x \in Int : x % C \in 0..C - 1
      BY Z3
    <3> QED
      BY <3>1, <3>2
  <2> QED
    BY <1>1, <2>1
<1>9. i * Ticks + part = IF delay > (C - 1) * Ticks THEN (C - 1) * Ticks ELSE delay
  BY <1>3 DEF at
<1> HIDE DEF newer, older
<1> DEFINE newest == line.slots[Behind(w, i, C)]
<1>10. ReadFractional(line, delay) = Between(newest, older, part)
  BY <1>4, <1>6
<1> QED
  BY <1>3, <1>6, <1>7, <1>8, <1>9, <1>10, Zenon

\* Interpolation between neighbours a step of d samples apart.
LEMMA BetweenNeighbours ==
  ASSUME TraceConstants, NEW p \in Nat, NEW d \in Nat, NEW part \in 0..Ticks - 1, NEW older,
         part # 0 => older = [centre |-> p + d * Ticks, reach |-> p + d * Ticks]
  PROVE  Between([centre |-> p, reach |-> p], older, part).centre = p + d * part
<1> DEFINE T == Ticks
<1>1. T \in Nat \ {0}
  BY DEF TraceConstants
<1>2. CASE part = 0
  <2>1. d * 0 = 0
    OBVIOUS
  <2> QED
    BY <1>1, <1>2, <2>1 DEF Between
<1>3. CASE part # 0
  <2>1. d * T \in Nat /\ p + d * T \in Nat /\ d * part \in Nat
    BY <1>1
  <2>2. p # Unclear /\ p + d * T # Unclear
    BY <2>1 DEF Unclear
  <2>3. (T - part) * p + part * (p + d * T) = T * (p + d * part)
    BY <1>1, Z3
  <2>4. (T * (p + d * part)) \div T = p + d * part
    <3>1. ASSUME NEW a \in Nat PROVE (T * a) \div T = a
      BY <1>1, <3>1, Z3
    <3>2. p + d * part \in Nat
      BY <1>1, <2>1
    <3> QED
      BY <3>1, <3>2
  <2>5. ((T - part) * p + part * (p + d * T)) \div T = p + d * part
    BY <2>3, <2>4
  <2> QED
    BY <1>3, <2>2, <2>5 DEF Between
<1> QED
  BY <1>2, <1>3

\* What ReadFractional returns, of a line that was written every d samples: the
\* input of exactly that long ago, for every capacity and every delay within
\* what the line has heard.
THEOREM ReadFractionalIsExact ==
  ASSUME TraceConstants, NEW C \in Nat \ {0}, NEW line, IsLine(line, C), NEW n \in 1..C,
         NEW d \in Nat, NEW age \in Nat, Spaced(line, C, n, d * Ticks, age),
         NEW delay \in Nat, delay <= (n - 1) * Ticks
  PROVE  ReadFractional(line, delay).centre = d * delay + age
<1> DEFINE T == Ticks  w == line.writePos
<1>1. T \in Nat \ {0}
  BY DEF TraceConstants
<1>2. (n - 1) * T <= (C - 1) * T /\ (n - 1) * T \in Nat /\ (C - 1) * T \in Nat
  <2>1. n - 1 \in 0..C - 1
    OBVIOUS
  <2> QED
    BY <1>1, <2>1, StepsWithin
<1>3. PICK i \in 0..C - 1, part \in 0..T - 1, older \in Traces :
        LET newer == line.slots[Behind(w, i, C)] IN
        /\ ReadFractional(line, delay) = Between(newer, older, part)
        /\ i * T + part = IF delay > (C - 1) * T THEN (C - 1) * T ELSE delay
        /\ part # 0 => /\ i + 1 \in 0..C - 1
                       /\ older = line.slots[Behind(w, i + 1, C)]
  BY ReadForm, Zenon
<1>4. i * T + part = delay
  BY <1>2, <1>3
<1>5. i <= n - 1 /\ (part # 0 => i + 1 <= n - 1)
  <2>1. i * T + part <= (n - 1) * T
    BY <1>4
  <2>2. CASE i > n - 1
    <3>1. (i - (n - 1)) * T >= T /\ (i - (n - 1)) * T = i * T - (n - 1) * T
      BY <1>1, <2>2, Z3
    <3>2. i * T \in Nat /\ (n - 1) * T \in Nat
      BY <1>1
    <3> QED
      BY <1>1, <2>1, <3>1, <3>2
  <2>3. CASE i = n - 1
    <3>1. i * T = (n - 1) * T /\ i * T \in Nat
      BY <1>1, <2>3
    <3> QED
      BY <1>1, <2>1, <2>3, <3>1
  <2>4. CASE i < n - 1
    BY <2>4
  <2> QED
    BY <2>2, <2>3, <2>4
<1>6. i * (d * T) + age \in Nat /\ (i + 1) * (d * T) + age = i * (d * T) + age + d * T
  <2>1. d * T \in Nat
    BY <1>1
  <2> HIDE DEF T
  <2>2. i * (d * T) \in Nat
    BY <2>1
  <2>3. (i + 1) * (d * T) = i * (d * T) + d * T
    BY <2>1
  <2> QED
    BY <2>1, <2>2, <2>3
<1> DEFINE p == i * (d * T) + age
<1>7. line.slots[Behind(w, i, C)] = [centre |-> p, reach |-> p]
  <2>1. i < n /\ i \in 0..C - 1
    BY <1>5
  <2> QED
    BY <2>1 DEF Spaced
<1>8. part # 0 => older = [centre |-> p + d * T, reach |-> p + d * T]
  <2> SUFFICES ASSUME part # 0 PROVE older = [centre |-> p + d * T, reach |-> p + d * T]
    OBVIOUS
  <2>1. i + 1 \in 0..C - 1 /\ i + 1 < n /\ older = line.slots[Behind(w, i + 1, C)]
    BY <1>3, <1>5
  <2>2. older = [centre |-> (i + 1) * (d * T) + age, reach |-> (i + 1) * (d * T) + age]
    BY <2>1 DEF Spaced
  <2> QED
    BY <1>6, <2>2
<1>9. p + d * part = d * delay + age
  BY <1>1, <1>4
<1>10. p \in Nat
  BY <1>6
<1> HIDE DEF p
<1>11. Between([centre |-> p, reach |-> p], older, part).centre = p + d * part
  BY <1>8, <1>10, BetweenNeighbours
<1> QED
  BY <1>3, <1>7, <1>9, <1>11

\* What is read of a full line is of an input, however it was written.
LEMMA ReadIsClear ==
  ASSUME TraceConstants, NEW C \in Nat \ {0}, NEW line, IsLine(line, C), Clear(line, C, C),
         NEW delay \in Nat
  PROVE  ReadFractional(line, delay).centre \in Nat
<1> DEFINE T == Ticks  w == line.writePos
<1>1. T \in Nat \ {0} /\ w \in 0..C - 1 /\ line.slots \in [0..C - 1 -> Traces]
  BY DEF TraceConstants, IsLine
<1>2. PICK i \in 0..C - 1, part \in 0..T - 1, older \in Traces :
        LET newer == line.slots[Behind(w, i, C)] IN
        /\ ReadFractional(line, delay) = Between(newer, older, part)
        /\ i * T + part = IF delay > (C - 1) * T THEN (C - 1) * T ELSE delay
        /\ part # 0 => /\ i + 1 \in 0..C - 1
                       /\ older = line.slots[Behind(w, i + 1, C)]
  BY ReadForm, Zenon
<1>3. ASSUME NEW k \in 0..C - 1 PROVE line.slots[Behind(w, k, C)].centre \in Nat
  <2>1. Behind(w, k, C) \in 0..C - 1
    BY <1>1, BehindIsRead
  <2>2. line.slots[Behind(w, k, C)].centre \in Ages
    BY <1>1, <2>1 DEF Traces
  <2>3. line.slots[Behind(w, k, C)].centre # Unclear
    BY DEF Clear
  <2> QED
    BY <2>2, <2>3 DEF Ages, Unclear, TraceConstants
<1> DEFINE a == line.slots[Behind(w, i, C)].centre  b == older.centre
<1>4. a \in Nat /\ (part # 0 => b \in Nat)
  BY <1>2, <1>3
<1>5. CASE part = 0
  BY <1>2, <1>4, <1>5 DEF Between
<1>6. CASE part # 0
  <2>1. ReadFractional(line, delay).centre =
          IF Unclear \in {a, b} THEN Unclear ELSE ((T - part) * a + part * b) \div T
    BY <1>2, <1>6 DEF Between
  <2>2. Unclear \notin {a, b}
    BY <1>4, <1>6 DEF Unclear
  <2> HIDE DEF a, b
  <2>3. (T - part) * a \in Nat /\ part * b \in Nat
    BY <1>1, <1>4, <1>6
  <2>4. ((T - part) * a + part * b) \div T \in Nat
    BY <1>1, <2>3, Z3
  <2> QED
    BY <2>1, <2>2, <2>4
<1> QED
  BY <1>5, <1>6

\* A delay beyond the line reads its oldest sample.
LEMMA ReadIsClamped ==
  ASSUME TraceConstants, NEW C \in Nat \ {0}, NEW line, IsLine(line, C),
         NEW delay \in Nat, delay >= (C - 1) * Ticks
  PROVE  ReadFractional(line, delay) = ReadFractional(line, (C - 1) * Ticks)
<1>1. CapacityOf(line) = C /\ (C - 1) * Ticks \in Nat
  BY CapacityIsSlots DEF TraceConstants
<1> DEFINE farthest == (C - 1) * Ticks
<1>2. (IF delay < 0 THEN 0 ELSE IF delay > farthest THEN farthest ELSE delay) = farthest
      /\ (IF farthest < 0 THEN 0 ELSE IF farthest > farthest THEN farthest ELSE farthest) = farthest
  BY <1>1
<1> HIDE DEF farthest
<1> QED
  BY <1>1, <1>2 DEF ReadFractional, farthest

\* An interpolation between traces is a trace.
LEMMA BetweenType ==
  ASSUME TraceConstants, NEW newer \in Traces, NEW older \in Traces, NEW rest \in 0..Ticks - 1
  PROVE  Between(newer, older, rest) \in Traces
<1> DEFINE T == Ticks
<1>1. T \in Nat \ {0} /\ Horizon \in Nat
  BY DEF TraceConstants
<1>2. CASE rest = 0
  BY <1>2 DEF Between
<1>3. CASE rest # 0
  <2> DEFINE a == newer.centre  b == older.centre  sum == (T - rest) * a + rest * b
  <2>1. a \in Ages /\ b \in Ages /\ newer.reach \in Ages /\ older.reach \in Ages
    BY DEF Traces
  <2>2. Between(newer, older, rest) =
          [centre |-> IF Unclear \in {a, b} THEN Unclear ELSE sum \div T,
           reach  |-> IF newer.reach > older.reach THEN newer.reach ELSE older.reach]
    BY <1>3 DEF Between, Sum2
  <2>3. Unclear \notin {a, b} => sum \div T \in 0..Horizon
    <3> SUFFICES ASSUME Unclear \notin {a, b} PROVE sum \div T \in 0..Horizon
      OBVIOUS
    <3>1. a \in 0..Horizon /\ b \in 0..Horizon
      BY <2>1 DEF Ages, Unclear
    <3> HIDE DEF a, b
    <3>2. (T - rest) * a \in Nat /\ rest * b \in Nat /\ T * Horizon \in Nat
      <4>1. T - rest \in Nat /\ rest \in Nat /\ T \in Nat /\ Horizon \in Nat /\ a \in Nat /\ b \in Nat
        BY <1>1, <3>1
      <4>2. \A x \in Nat, y \in Nat : x * y \in Nat
        OBVIOUS
      <4> QED BY <4>1, <4>2, Zenon
    <3>3. (T - rest) * (Horizon - a) \in Nat /\ rest * (Horizon - b) \in Nat
      BY <1>1, <3>1
    <3>4. sum + (T - rest) * (Horizon - a) + rest * (Horizon - b) = T * Horizon
      BY <1>1, <3>1, Z3
    <3>5. sum \in Nat /\ sum <= T * Horizon
      BY <3>2, <3>3, <3>4
    <3> HIDE DEF sum, T
    <3> QED
      BY <1>1, <3>5, QuotientWithin
  <2> HIDE DEF a, b, sum
  <2> QED
    BY <1>1, <2>1, <2>2, <2>3 DEF Traces, Ages, Unclear
<1> QED
  BY <1>2, <1>3

\* What is read is a trace.
LEMMA ReadIsTrace ==
  ASSUME TraceConstants, NEW C \in Nat \ {0}, NEW line, IsLine(line, C), NEW delay \in Nat
  PROVE  ReadFractional(line, delay) \in Traces
<1> DEFINE w == line.writePos
<1>1. w \in 0..C - 1 /\ line.slots \in [0..C - 1 -> Traces]
  BY DEF IsLine
<1>2. PICK i \in 0..C - 1, part \in 0..Ticks - 1, older \in Traces :
        LET newer == line.slots[Behind(w, i, C)] IN
        /\ ReadFractional(line, delay) = Between(newer, older, part)
        /\ i * Ticks + part = IF delay > (C - 1) * Ticks THEN (C - 1) * Ticks ELSE delay
        /\ part # 0 => /\ i + 1 \in 0..C - 1
                       /\ older = line.slots[Behind(w, i + 1, C)]
  BY ReadForm, Zenon
<1>3. Behind(w, i, C) \in 0..C - 1
  BY <1>1, BehindIsRead
<1>4. line.slots[Behind(w, i, C)] \in Traces
  BY <1>1, <1>3
<1> QED
  BY <1>2, <1>4, BetweenType

-----------------------------------------------------------------------------
(* Induction and recursion over numbers                                    *)

\* A set of numbers has a least one.
LEMMA LeastNumber ==
  ASSUME NEW S, S \subseteq Nat, S # {}
  PROVE  \E m \in S : \A n \in S : m <= n
<1> DEFINE Less == {p \in Nat \X Nat : p[1] < p[2]}
<1>1. IsWellFoundedOn(Less, Nat)
  BY NatLessThanWellFounded, Zenon DEF OpToRel
<1>2. ASSUME NEW m \in Nat, NEW n \in Nat, n < m
      PROVE  <<n, m>> \in Less
  BY <1>2
<1> HIDE DEF Less
<1>3. \E m \in S : \A n \in S : ~(<<n, m>> \in Less)
  BY <1>1, WFMin, Zenon
<1>4. PICK m \in S : \A n \in S : ~(<<n, m>> \in Less)
  BY <1>3
<1>5. ASSUME NEW n \in S PROVE m <= n
  <2>1. m \in Nat /\ n \in Nat
    OBVIOUS
  <2>2. ~(n < m)
    BY <1>2, <1>4, <2>1
  <2> QED BY <2>1, <2>2
<1> QED BY <1>5

\* What holds of zero and of each successor holds of every number.
LEMMA SetInduction ==
  ASSUME NEW S, 0 \in S, \A n \in Nat : n \in S => n + 1 \in S
  PROVE  Nat \subseteq S
<1> DEFINE Out == Nat \ S
<1> SUFFICES ASSUME Out # {} PROVE FALSE
  OBVIOUS
<1>1. Out \subseteq Nat
  OBVIOUS
<1>2. \E m \in Out : \A n \in Out : m <= n
  <2> HIDE DEF Out
  <2> QED BY <1>1, LeastNumber, Zenon
<1>3. PICK m \in Out : \A n \in Out : m <= n
  BY <1>2
<1>4. m # 0 /\ m - 1 \in Nat /\ m - 1 \in Out /\ m - 1 < m
  OBVIOUS
<1> QED BY <1>3, <1>4

\* The same up to a bound.
LEMMA RangeInduction ==
  ASSUME NEW N \in Nat, NEW S, 0 \in S, \A n \in 1..N : n - 1 \in S => n \in S
  PROVE  0..N \subseteq S
<1> DEFINE Good == {n \in Nat : n <= N => n \in S}
<1>1. 0 \in Good
  OBVIOUS
<1>2. ASSUME NEW n \in Nat, n \in Good PROVE n + 1 \in Good
  <2>1. n + 1 <= N => n + 1 \in 1..N /\ (n + 1) - 1 = n /\ n \in S
    BY <1>2
  <2> QED BY <2>1
<1>3. Nat \subseteq Good
  <2> HIDE DEF Good
  <2>1. \A n \in Nat : n \in Good => n + 1 \in Good
    BY <1>2
  <2> QED BY <1>1, <2>1, SetInduction, Zenon
<1> QED BY <1>3

\* A value made in N turns exists, whatever a turn does.
IsMade(f, S, start, N, Turn) ==
  f \in [0..N -> S] /\ f[0] = start /\ \A i \in 1..N : f[i] = Turn[<<f[i - 1], i>>]

\* Such a function exists, however many turns there are.
LEMMA TurnsExist ==
  ASSUME NEW S, NEW start \in S, NEW N \in Nat, NEW Turn, Turn \in [S \X (1..N) -> S]
  PROVE  \E f : IsMade(f, S, start, N, Turn)
<1> SUFFICES \E f \in [0..N -> S] : f[0] = start /\ \A i \in 1..N : f[i] = Turn[<<f[i - 1], i>>]
  BY DEF IsMade
<1> DEFINE Made(n, f) == f[0] = start /\ \A i \in 1..n : f[i] = Turn[<<f[i - 1], i>>]
           Reached == {n \in Nat : n <= N => \E f \in [0..n -> S] : Made(n, f)}
<1>1. 0 \in Reached
  <2> DEFINE f == [i \in 0..0 |-> start]
  <2>1. f \in [0..0 -> S] /\ Made(0, f)
    OBVIOUS
  <2> QED BY <2>1
<1>2. ASSUME NEW n \in Nat, n \in Reached PROVE n + 1 \in Reached
  <2> SUFFICES ASSUME n + 1 <= N PROVE \E f \in [0..n + 1 -> S] : Made(n + 1, f)
    OBVIOUS
  <2>1. PICK f \in [0..n -> S] : Made(n, f)
    BY <1>2
  <2> DEFINE g == [i \in 0..n + 1 |-> IF i = n + 1 THEN Turn[<<f[n], n + 1>>] ELSE f[i]]
  <2>2. n + 1 \in 1..N /\ f[n] \in S /\ <<f[n], n + 1>> \in S \X (1..N)
    OBVIOUS
  <2>3. Turn[<<f[n], n + 1>>] \in S
    BY <2>2
  <2>4. g \in [0..n + 1 -> S]
    BY <2>3
  <2>5. \A i \in 0..n : g[i] = f[i]
    OBVIOUS
  <2>6. g[n + 1] = Turn[<<f[n], n + 1>>]
    OBVIOUS
  <2> HIDE DEF g
  <2>7. ASSUME NEW i \in 1..n + 1 PROVE g[i] = Turn[<<g[i - 1], i>>]
    <3>1. i - 1 \in 0..n
      OBVIOUS
    <3>2. CASE i = n + 1
      BY <2>5, <2>6, <3>1, <3>2
    <3>3. CASE i # n + 1
      BY <2>1, <2>5, <3>1, <3>3
    <3> QED BY <3>2, <3>3
  <2>8. g[0] = start
    BY <2>1, <2>5
  <2> QED BY <2>4, <2>7, <2>8
<1>3. Nat \subseteq Reached
  <2> HIDE DEF Reached
  <2>1. \A n \in Nat : n \in Reached => n + 1 \in Reached
    BY <1>2
  <2> QED BY <1>1, <2>1, SetInduction, Zenon
<1>4. N \in Reached
  BY <1>3
<1>5. N <= N
  OBVIOUS
<1> QED BY <1>4, <1>5, Zenon

-----------------------------------------------------------------------------
(* A stage's turn, input by input                                          *)

UpStages == [line : [0..EvenCount - 1 -> Traces], pos : 0..EvenCount - 1]
DownStages == [even : [0..EvenCount - 1 -> Traces], posE : 0..EvenCount - 1,
               odd : [0..OddLineSize - 1 -> Traces], posO : 0..OddLineSize - 1]
UpRuns == [stage : UpStages, out : Seq(Traces)]
DownRuns == [stage : DownStages, out : Seq(Traces)]

\* Raised is the last of its turns, one per sample.
LEMMA RaisedInTurns ==
  ASSUME NEW stage \in UpStages, NEW s \in Seq(Traces),
         \A run \in UpRuns, x \in Traces : UpStep(run, x) \in UpRuns
  PROVE  \E f \in [0..Len(s) -> UpRuns] :
            /\ f[0] = [stage |-> stage, out |-> <<>>]
            /\ \A n \in 1..Len(s) : f[n] = UpStep(f[n - 1], s[n])
            /\ Raised(stage, s) = f[Len(s)]
<1> DEFINE N == Len(s)
           start == [stage |-> stage, out |-> <<>>]
           IsRun(a) == a = [n \in 0..N |-> IF n = 0 THEN start ELSE UpStep(a[n - 1], s[n])]
           Turn == [p \in UpRuns \X (1..N) |-> UpStep(p[1], s[p[2]])]
           after == CHOOSE a : IsRun(a)
<1>1. N \in Nat /\ start \in UpRuns /\ \A n \in 1..N : s[n] \in Traces
  BY DEF UpRuns
<1>2. Turn \in [UpRuns \X (1..N) -> UpRuns]
  BY <1>1
<1>3. \A r \in UpRuns, n \in 1..N : Turn[<<r, n>>] = UpStep(r, s[n])
  OBVIOUS
<1>4. Raised(stage, s) = after[N]
  BY DEF Raised
<1> HIDE DEF Turn, start, N
<1>5. PICK f : IsMade(f, UpRuns, start, N, Turn)
  <2> HIDE DEF after, IsRun
  <2>1. N \in Nat
    BY <1>1
  <2>2. start \in UpRuns
    BY <1>1
  <2> QED BY <2>1, <2>2, <1>2, TurnsExist, Zenon
<1>6. IsRun(f)
  <2>0. f \in [0..N -> UpRuns] /\ f[0] = start /\ \A n \in 1..N : f[n] = Turn[<<f[n - 1], n>>]
    BY <1>5 DEF IsMade
  <2>1. ASSUME NEW n \in 0..N PROVE f[n] = IF n = 0 THEN start ELSE UpStep(f[n - 1], s[n])
    <3>1. CASE n = 0
      BY <2>0, <3>1
    <3>2. CASE n # 0
      <4>1. n \in 1..N /\ n - 1 \in 0..N
        BY <1>1, <3>2
      <4> QED BY <1>3, <2>0, <3>2, <4>1
    <3> QED BY <3>1, <3>2
  <2> QED BY <2>0, <2>1
<1>7. IsRun(after)
  <2> HIDE DEF IsRun
  <2> QED BY <1>6, Zenon
<1>8. after = [n \in 0..N |-> IF n = 0 THEN start ELSE UpStep(after[n - 1], s[n])]
  BY <1>7
<1> HIDE DEF after
<1>9. after[0] = start /\ \A n \in 1..N : after[n] = UpStep(after[n - 1], s[n])
  BY <1>1, <1>8
<1> DEFINE Good == {n \in Nat : n <= N => after[n] \in UpRuns}
<1>10. Nat \subseteq Good
  <2>1. 0 \in Good
    BY <1>1, <1>9
  <2>2. ASSUME NEW n \in Nat, n \in Good PROVE n + 1 \in Good
    <3>1. n + 1 <= N => n + 1 \in 1..N /\ after[n] \in UpRuns /\ (n + 1) - 1 = n
      BY <1>1, <2>2
    <3>2. n + 1 <= N => after[n + 1] = UpStep(after[n], s[n + 1]) /\ s[n + 1] \in Traces
      BY <1>1, <1>9, <3>1
    <3> QED BY <3>1, <3>2
  <2>3. \A n \in Nat : n \in Good => n + 1 \in Good
    BY <2>2
  <2> HIDE DEF Good
  <2> QED BY <2>1, <2>3, SetInduction, Zenon
<1>11. after \in [0..N -> UpRuns]
  <2>1. \A n \in 0..N : after[n] \in UpRuns
    BY <1>1, <1>10
  <2> QED BY <1>8, <2>1
<1> QED BY <1>4, <1>9, <1>11 DEF start, N

\* Lowered is the last of its turns, one per pair.
LEMMA LoweredInTurns ==
  ASSUME NEW stage \in DownStages, NEW s \in Seq(Traces \X Traces),
         \A run \in DownRuns, x \in Traces \X Traces : DownStep(run, x) \in DownRuns
  PROVE  \E f \in [0..Len(s) -> DownRuns] :
            /\ f[0] = [stage |-> stage, out |-> <<>>]
            /\ \A n \in 1..Len(s) : f[n] = DownStep(f[n - 1], s[n])
            /\ Lowered(stage, s) = f[Len(s)]
<1> DEFINE N == Len(s)
           start == [stage |-> stage, out |-> <<>>]
           IsRun(a) == a = [n \in 0..N |-> IF n = 0 THEN start ELSE DownStep(a[n - 1], s[n])]
           Turn == [p \in DownRuns \X (1..N) |-> DownStep(p[1], s[p[2]])]
           after == CHOOSE a : IsRun(a)
<1>1. N \in Nat /\ start \in DownRuns /\ \A n \in 1..N : s[n] \in Traces \X Traces
  BY DEF DownRuns
<1>2. Turn \in [DownRuns \X (1..N) -> DownRuns]
  BY <1>1
<1>3. \A r \in DownRuns, n \in 1..N : Turn[<<r, n>>] = DownStep(r, s[n])
  OBVIOUS
<1>4. Lowered(stage, s) = after[N]
  BY DEF Lowered
<1> HIDE DEF Turn, start, N
<1>5. PICK f : IsMade(f, DownRuns, start, N, Turn)
  <2> HIDE DEF after, IsRun
  <2>1. N \in Nat
    BY <1>1
  <2>2. start \in DownRuns
    BY <1>1
  <2> QED BY <2>1, <2>2, <1>2, TurnsExist, Zenon
<1>6. IsRun(f)
  <2>0. f \in [0..N -> DownRuns] /\ f[0] = start /\ \A n \in 1..N : f[n] = Turn[<<f[n - 1], n>>]
    BY <1>5 DEF IsMade
  <2>1. ASSUME NEW n \in 0..N PROVE f[n] = IF n = 0 THEN start ELSE DownStep(f[n - 1], s[n])
    <3>1. CASE n = 0
      BY <2>0, <3>1
    <3>2. CASE n # 0
      <4>1. n \in 1..N /\ n - 1 \in 0..N
        BY <1>1, <3>2
      <4> QED BY <1>3, <2>0, <3>2, <4>1
    <3> QED BY <3>1, <3>2
  <2> QED BY <2>0, <2>1
<1>7. IsRun(after)
  <2> HIDE DEF IsRun
  <2> QED BY <1>6, Zenon
<1>8. after = [n \in 0..N |-> IF n = 0 THEN start ELSE DownStep(after[n - 1], s[n])]
  BY <1>7
<1> HIDE DEF after
<1>9. after[0] = start /\ \A n \in 1..N : after[n] = DownStep(after[n - 1], s[n])
  BY <1>1, <1>8
<1> DEFINE Good == {n \in Nat : n <= N => after[n] \in DownRuns}
<1>10. Nat \subseteq Good
  <2>1. 0 \in Good
    BY <1>1, <1>9
  <2>2. ASSUME NEW n \in Nat, n \in Good PROVE n + 1 \in Good
    <3>1. n + 1 <= N => n + 1 \in 1..N /\ after[n] \in DownRuns /\ (n + 1) - 1 = n
      <4>1. n + 1 <= N => n <= N /\ n + 1 \in 1..N
        BY <1>1
      <4>2. n <= N => after[n] \in DownRuns
        BY <2>2
      <4>3. (n + 1) - 1 = n
        OBVIOUS
      <4> QED BY <4>1, <4>2, <4>3, Zenon
    <3>2. n + 1 <= N => after[n + 1] = DownStep(after[n], s[n + 1]) /\ s[n + 1] \in Traces \X Traces
      BY <1>1, <1>9, <3>1
    <3> QED BY <3>1, <3>2
  <2>3. \A n \in Nat : n \in Good => n + 1 \in Good
    BY <2>2
  <2> HIDE DEF Good
  <2> QED BY <2>1, <2>3, SetInduction, Zenon
<1>11. after \in [0..N -> DownRuns]
  <2>1. \A n \in 0..N : after[n] \in DownRuns
    BY <1>1, <1>10
  <2> QED BY <1>8, <2>1
<1> QED BY <1>4, <1>9, <1>11 DEF start, N

-----------------------------------------------------------------------------
(* A ring of n slots, read k writes back                                   *)

\* The slot the code's taps are read from.
LEMMA TapIsBehind ==
  ASSUME NEW n \in Nat \ {0}, NEW w \in 0..n - 1, NEW k \in 0..n - 1
  PROVE  (w - k) % n = Behind((w + 1) % n, k, n) /\ (w - k) % n \in 0..n - 1
<1>1. CASE k = 0
  <2>1. (w - k) % n = w
    BY <1>1, Remainder
  <2>2. Behind((w + 1) % n, 0, n) = w
    BY BehindAfterWrite
  <2> QED BY <1>1, <2>1, <2>2
<1>2. CASE k # 0
  <2>1. k \in 1..n - 1 /\ k - 1 \in 0..n - 1
    BY <1>2
  <2>2. Behind((w + 1) % n, k, n) = Behind(w, k - 1, n)
    BY <2>1, BehindAfterWrite
  <2>3. Behind(w, k - 1, n) = IF k - 1 < w THEN w - k ELSE w - k + n
    BY <2>1 DEF Behind
  <2>4. CASE k - 1 < w
    <3>1. w - k \in 0..n - 1
      BY <2>1, <2>4
    <3> QED BY <2>2, <2>3, <2>4, <3>1, Remainder
  <2>5. CASE ~(k - 1 < w)
    <3>1. w - k + n \in 0..n - 1
      BY <2>1, <2>5
    <3>2. (w - k) % n = w - k + n
      BY <3>1
    <3> QED BY <2>2, <2>3, <2>5, <3>1, <3>2
  <2> QED BY <2>4, <2>5
<1> QED BY <1>1, <1>2

\* One of the slots reaches back furthest.
LEMMA FurthestReach ==
  ASSUME TraceConstants, NEW n \in Nat \ {0}, NEW line \in [0..n - 1 -> Traces]
  PROVE  \E a \in {line[k].reach : k \in 0..n - 1} : \A k \in 0..n - 1 : line[k].reach <= a
<1> DEFINE Left == {Horizon - line[k].reach : k \in 0..n - 1}
<1>1. \A k \in 0..n - 1 : line[k].reach \in Int /\ line[k].reach <= Horizon
  BY DEF Traces, Ages, Unclear, TraceConstants
<1>2. Left \subseteq Nat /\ Left # {} /\ Horizon \in Nat
  BY <1>1, 0 \in 0..n - 1 DEF TraceConstants
<1> HIDE DEF Left
<1>3. PICK m \in Left : \A l \in Left : m <= l
  BY <1>2, LeastNumber
<1>4. PICK k \in 0..n - 1 : m = Horizon - line[k].reach
  BY <1>3 DEF Left
<1>5. \A j \in 0..n - 1 : m <= Horizon - line[j].reach
  BY <1>3 DEF Left
<1>6. \A j \in 0..n - 1 : line[j].reach <= line[k].reach
  BY <1>1, <1>2, <1>4, <1>5
<1> QED BY <1>6

-----------------------------------------------------------------------------
(* What a line knows                                                       *)

\* The K newest of n slots are evenly spaced, and the next value of the stream is due at c.
Follows(line, w, n, K, c, gap) ==
  \A k \in 0..n - 1 : k < K => line[Behind(w, k, n)].centre = c + (k + 1) * gap

\* Nothing in it reaches back further than B.
Within(line, n, B) == \A k \in 0..n - 1 : line[k].reach <= B

\* The value that was due is written: one more is evenly spaced.
LEMMA FollowsFurther ==
  ASSUME NEW n \in Nat \ {0}, NEW line \in [0..n - 1 -> Traces], NEW w \in 0..n - 1,
         NEW K \in Int, NEW c \in Int, NEW gap \in Nat, Follows(line, w, n, K, c, gap),
         NEW x \in Traces, K >= 0 => x.centre = c
  PROVE  LET after == [line EXCEPT ![w] = x] IN
         /\ after \in [0..n - 1 -> Traces] /\ (w + 1) % n \in 0..n - 1
         /\ Follows(after, (w + 1) % n, n, K + 1, c - gap, gap)
<1> DEFINE after == [line EXCEPT ![w] = x]
<1>1. after \in [0..n - 1 -> Traces] /\ (w + 1) % n \in 0..n - 1
  BY BehindAfterWrite
<1>2. ASSUME NEW k \in 0..n - 1, k < K + 1
      PROVE  after[Behind((w + 1) % n, k, n)].centre = c - gap + (k + 1) * gap
  <2>1. CASE k = 0
    <3>1. Behind((w + 1) % n, k, n) = w
      BY <2>1, BehindAfterWrite
    <3>2. after[w] = x /\ x.centre = c
      BY <1>2, <2>1
    <3> QED BY <2>1, <3>1, <3>2
  <2>2. CASE k # 0
    <3>1. k \in 1..n - 1 /\ k - 1 \in 0..n - 1 /\ k - 1 < K
      BY <1>2, <2>2
    <3>2. Behind((w + 1) % n, k, n) = Behind(w, k - 1, n) /\ Behind(w, k - 1, n) # w
      BY <3>1, BehindAfterWrite
    <3>3. after[Behind(w, k - 1, n)] = line[Behind(w, k - 1, n)]
      BY <3>2
    <3>4. line[Behind(w, k - 1, n)].centre = c + ((k - 1) + 1) * gap
      BY <3>1 DEF Follows
    <3>5. c + ((k - 1) + 1) * gap = c - gap + (k + 1) * gap
      OBVIOUS
    <3> QED BY <3>2, <3>3, <3>4, <3>5
  <2> QED BY <2>1, <2>2
<1>3. Follows(after, (w + 1) % n, n, K + 1, c - gap, gap)
  <2> HIDE DEF after
  <2> QED BY <1>2 DEF Follows
<1> QED BY <1>1, <1>3

-----------------------------------------------------------------------------
(* The dense branch                                                        *)

\* The sizes the centre tap gives the lines, and the depths of the two odd taps.
LEMMA CentreTap ==
  ASSUME CascadeConstants
  PROVE  /\ Center \in Nat /\ Center >= 1 /\ EvenCount \in Nat \ {0} /\ EvenCount = Center + 1
         /\ OddDepthUp \in 0..EvenCount - 1 /\ 2 * OddDepthUp = Center - 1
         /\ OddLineSize \in Nat \ {0} /\ OddDepthDown \in 0..OddLineSize - 1
         /\ 2 * OddDepthDown = Center + 1 /\ OddLineSize <= EvenCount
BY DEF CascadeConstants, EvenCount, OddDepthUp, OddDepthDown, OddLineSize

\* The dense branch reaches back no further than its line.
LEMMA DenseType ==
  ASSUME CascadeConstants, NEW line \in [0..EvenCount - 1 -> Traces], NEW w \in 0..EvenCount - 1
  PROVE  /\ Dense(line, w) \in Traces
         /\ \A B \in Int : Within(line, EvenCount, B) => Dense(line, w).reach <= B
<1> DEFINE R == {line[k].reach : k \in 0..EvenCount - 1}
           most == CHOOSE a \in R : \A k \in 0..EvenCount - 1 : line[k].reach <= a
           tap(j) == Tap(line, w, j)
           step   == tap(1).centre - tap(0).centre
           even   == \A j \in 0..EvenCount - 1 : /\ tap(j).centre # Unclear
                                            /\ tap(j).centre = tap(0).centre + j * step
           mid == (tap(0).centre + tap(EvenCount - 1).centre) \div 2
<1>0. TraceConstants /\ EvenCount \in Nat \ {0} /\ 0 \in 0..EvenCount - 1
      /\ EvenCount - 1 \in 0..EvenCount - 1
  BY CentreTap DEF CascadeConstants
<1>1. \E a \in R : \A k \in 0..EvenCount - 1 : line[k].reach <= a
  BY <1>0, FurthestReach
<1>2. most \in R
  BY <1>1, Zenon
<1>3. R \subseteq Ages
  BY DEF Traces
<1>4. \A j \in 0..EvenCount - 1 : tap(j) \in Traces
  BY <1>0, TapIsBehind DEF Tap
<1>5. Dense(line, w) = [centre |-> IF even THEN mid ELSE Unclear, reach |-> most]
  BY DEF Dense
<1>6. even => mid \in Ages
  <2> SUFFICES ASSUME even PROVE mid \in Ages
    OBVIOUS
  <2>1. tap(0).centre \in Ages \ {Unclear} /\ tap(EvenCount - 1).centre \in Ages \ {Unclear}
    BY <1>0, <1>4 DEF Traces
  <2>2. ASSUME NEW a \in Ages \ {Unclear}, NEW b \in Ages \ {Unclear}
        PROVE  (a + b) \div 2 \in Ages
    BY <1>0 DEF Ages, Unclear, TraceConstants
  <2> QED BY <2>1, <2>2
<1>7. Unclear \in Ages
  BY <1>0 DEF Ages, Unclear, TraceConstants
<1> HIDE DEF most, even, mid, R
<1>8. Dense(line, w) \in Traces
  BY <1>2, <1>3, <1>5, <1>6, <1>7 DEF Traces
<1>9. ASSUME NEW B \in Int, Within(line, EvenCount, B) PROVE Dense(line, w).reach <= B
  BY <1>2, <1>5, <1>9 DEF Within, R
<1> QED BY <1>8, <1>9

\* Taps an even step apart have their mean in the middle.
LEMMA DenseCentre ==
  ASSUME CascadeConstants, NEW line \in [0..EvenCount - 1 -> Traces], NEW w \in 0..EvenCount - 1,
         NEW c \in Nat, NEW h \in Nat,
         Follows(line, (w + 1) % EvenCount, EvenCount, EvenCount, c - 2 * h, 2 * h)
  PROVE  Dense(line, w).centre = c + Center * h
<1> DEFINE tap(j) == Tap(line, w, j)
           step   == tap(1).centre - tap(0).centre
           mid == (tap(0).centre + tap(EvenCount - 1).centre) \div 2
           even   == \A j \in 0..EvenCount - 1 : /\ tap(j).centre # Unclear
                                            /\ tap(j).centre = tap(0).centre + j * step
<1>0. Center \in Nat /\ Center >= 1 /\ EvenCount \in Nat \ {0} /\ EvenCount = Center + 1
      /\ 0 \in 0..EvenCount - 1 /\ 1 \in 0..EvenCount - 1 /\ EvenCount - 1 \in 0..EvenCount - 1
  <2>1. Center \in Nat /\ Center >= 1 /\ EvenCount \in Nat \ {0} /\ EvenCount = Center + 1
    BY CentreTap, Zenon
  <2>2. 0 \in 0..EvenCount - 1 /\ 1 \in 0..EvenCount - 1 /\ EvenCount - 1 \in 0..EvenCount - 1
    BY <2>1
  <2> QED BY <2>1, <2>2
<1>1. ASSUME NEW j \in 0..EvenCount - 1 PROVE tap(j).centre = c + j * (2 * h)
  <2>1. (w - j) % EvenCount = Behind((w + 1) % EvenCount, j, EvenCount)
    BY <1>0, TapIsBehind
  <2>2. line[Behind((w + 1) % EvenCount, j, EvenCount)].centre = c - 2 * h + (j + 1) * (2 * h)
    BY <1>0 DEF Follows
  <2>3. c - 2 * h + (j + 1) * (2 * h) = c + j * (2 * h)
    OBVIOUS
  <2> QED BY <2>1, <2>2, <2>3 DEF Tap
<1>2. tap(0).centre = c
  <2>1. c + 0 * (2 * h) = c
    OBVIOUS
  <2> QED BY <1>0, <1>1, <2>1
<1>3. step = 2 * h
  <2>1. c + 1 * (2 * h) = c + 2 * h
    OBVIOUS
  <2> QED BY <1>0, <1>1, <1>2, <2>1
<1>4. even
  <2>1. ASSUME NEW j \in 0..EvenCount - 1 PROVE c + j * (2 * h) # Unclear
    <3>1. j * (2 * h) \in Nat
      BY StepsWithin, <1>0
    <3> QED BY <3>1 DEF Unclear
  <2> HIDE DEF step, tap
  <2> QED BY <1>1, <1>2, <1>3, <2>1
<1>5. mid = c + Center * h
  <2>1. tap(EvenCount - 1).centre = c + Center * (2 * h)
    BY <1>0, <1>1
  <2>2. Center * h \in Nat /\ Center * (2 * h) = 2 * (Center * h)
    BY <1>0
  <2>3. ASSUME NEW p \in Nat PROVE (c + (c + 2 * p)) \div 2 = c + p
    OBVIOUS
  <2> HIDE DEF tap
  <2> QED BY <1>2, <2>1, <2>2, <2>3
<1>6. Dense(line, w).centre = IF even THEN mid ELSE Unclear
  BY DEF Dense
<1> HIDE DEF even, mid
<1> QED BY <1>4, <1>5, <1>6

-----------------------------------------------------------------------------
(* One stage up                                                            *)

\* The values of a stream are evenly spaced once K + i of them have come.
Fits(s, K, c, gap) ==
  \A i \in 1..Len(s) : K + i >= 1 => s[i].centre = c - (i - 1) * gap

Reaches(s, B) == \A i \in 1..Len(s) : s[i].reach <= B

UpKnows(stage, K, c, h) == Follows(stage.line, stage.pos, EvenCount, K, c, 2 * h)
UpWithin(stage, B) == Within(stage.line, EvenCount, B)

\* What a stage keeps and gives of one input.
LEMMA UpStepForm ==
  ASSUME CascadeConstants, NEW run \in UpRuns, NEW x \in Traces
  PROVE  LET line == [run.stage.line EXCEPT ![run.stage.pos] = x]
             pos  == run.stage.pos
         IN  /\ UpStep(run, x) \in UpRuns
             /\ UpStep(run, x).stage = [line |-> line, pos |-> (pos + 1) % EvenCount]
             /\ UpStep(run, x).out = run.out \o <<Dense(line, pos), Tap(line, pos, OddDepthUp)>>
             /\ line \in [0..EvenCount - 1 -> Traces] /\ pos \in 0..EvenCount - 1
             /\ (pos + 1) % EvenCount \in 0..EvenCount - 1
             /\ Dense(line, pos) \in Traces /\ Tap(line, pos, OddDepthUp) \in Traces
<1> DEFINE line == [run.stage.line EXCEPT ![run.stage.pos] = x]
           pos  == run.stage.pos
<1>1. line \in [0..EvenCount - 1 -> Traces] /\ pos \in 0..EvenCount - 1
      /\ run.out \in Seq(Traces)
  BY DEF UpRuns, UpStages
<1>2. (pos + 1) % EvenCount \in 0..EvenCount - 1
  BY <1>1, BehindAfterWrite, CentreTap
<1>3. Dense(line, pos) \in Traces
  BY <1>1, DenseType
<1>4. Tap(line, pos, OddDepthUp) \in Traces
  <2>1. (pos - OddDepthUp) % EvenCount \in 0..EvenCount - 1
    BY <1>1, TapIsBehind, CentreTap
  <2> QED BY <1>1, <2>1 DEF Tap
<1>5. UpStep(run, x) = [stage |-> [line |-> line, pos |-> (pos + 1) % EvenCount],
                        out |-> run.out \o <<Dense(line, pos), Tap(line, pos, OddDepthUp)>>]
  BY DEF UpStep
<1> HIDE DEF line, pos
<1>6. run.out \o <<Dense(line, pos), Tap(line, pos, OddDepthUp)>> \in Seq(Traces)
  <2> DEFINE e == Dense(line, pos)
             o == Tap(line, pos, OddDepthUp)
  <2>1. e \in Traces /\ o \in Traces
    BY <1>3, <1>4
  <2> HIDE DEF e, o
  <2>2. <<e, o>> \in Seq(Traces)
    BY <2>1
  <2>3. run.out \o <<e, o>> \in Seq(Traces)
    BY <1>1, <2>2
  <2> QED BY <2>3 DEF e, o
<1>7. UpStep(run, x) \in UpRuns
  BY <1>1, <1>2, <1>5, <1>6 DEF UpRuns, UpStages
<1> QED BY <1>1, <1>2, <1>3, <1>4, <1>5, <1>7 DEF line, pos

\* Once its line is evenly spaced, the two phases it gives are centred on its taps.
LEMMA UpStepKnows ==
  ASSUME CascadeConstants, NEW run \in UpRuns, NEW x \in Traces, NEW K \in Int, NEW c \in Int,
         NEW h \in Nat, UpKnows(run.stage, K, c, h), K >= 0 => c >= 0 /\ x.centre = c
  PROVE  /\ UpKnows(UpStep(run, x).stage, K + 1, c - 2 * h, h)
         /\ \E e \in Traces, o \in Traces :
              /\ UpStep(run, x).out = run.out \o <<e, o>>
              /\ K >= Center => e.centre = c + Center * h
              /\ K >= Center - 1 => o.centre = c + (Center - 1) * h
<1> DEFINE line == [run.stage.line EXCEPT ![run.stage.pos] = x]
           pos  == run.stage.pos
           e == Dense(line, pos)
           o == Tap(line, pos, OddDepthUp)
<1>0. EvenCount \in Nat \ {0} /\ Center \in Nat /\ EvenCount = Center + 1
      /\ OddDepthUp \in 0..EvenCount - 1 /\ 2 * OddDepthUp = Center - 1
  BY CentreTap
<1>1. run.stage.line \in [0..EvenCount - 1 -> Traces] /\ pos \in 0..EvenCount - 1
  BY DEF UpRuns, UpStages
<1>2. /\ UpStep(run, x).stage = [line |-> line, pos |-> (pos + 1) % EvenCount]
      /\ UpStep(run, x).out = run.out \o <<e, o>>
      /\ line \in [0..EvenCount - 1 -> Traces] /\ (pos + 1) % EvenCount \in 0..EvenCount - 1
      /\ e \in Traces /\ o \in Traces
  BY UpStepForm
<1>3. Follows(line, (pos + 1) % EvenCount, EvenCount, K + 1, c - 2 * h, 2 * h)
  <2>1. Follows(run.stage.line, pos, EvenCount, K, c, 2 * h) /\ 2 * h \in Nat
    BY DEF UpKnows
  <2>2. K >= 0 => x.centre = c
    OBVIOUS
  <2> HIDE DEF pos
  <2>3. run.stage.pos = pos
    BY DEF pos
  <2> QED BY <1>0, <1>1, <2>1, <2>2, <2>3, FollowsFurther, Zenon
<1> HIDE DEF line, pos
<1>4. UpKnows(UpStep(run, x).stage, K + 1, c - 2 * h, h)
  BY <1>2, <1>3 DEF UpKnows
<1>5. ASSUME K >= Center PROVE e.centre = c + Center * h
  <2>1. c \in Nat
    BY <1>0, <1>5
  <2>2. Follows(line, (pos + 1) % EvenCount, EvenCount, EvenCount, c - 2 * h, 2 * h)
    BY <1>0, <1>3, <1>5 DEF Follows
  <2> QED BY <1>1, <1>2, <2>1, <2>2, DenseCentre
<1>6. ASSUME K >= Center - 1 PROVE o.centre = c + (Center - 1) * h
  <2>4. (pos - OddDepthUp) % EvenCount = Behind((pos + 1) % EvenCount, OddDepthUp, EvenCount)
    BY <1>0, <1>1, TapIsBehind
  <2>5. o.centre = c - 2 * h + (OddDepthUp + 1) * (2 * h)
    <3>1. OddDepthUp < K + 1
      BY <1>0, <1>6
    <3> QED BY <1>0, <1>3, <2>4, <3>1 DEF Follows, Tap
  <2>6. c - 2 * h + (OddDepthUp + 1) * (2 * h) = c + (2 * OddDepthUp) * h
    BY <1>0
  <2> QED BY <1>0, <2>5, <2>6
<1> HIDE DEF e, o
<1> QED BY <1>2, <1>4, <1>5, <1>6

\* And neither reaches back further than the line and the input.
LEMMA UpStepWithin ==
  ASSUME CascadeConstants, NEW run \in UpRuns, NEW x \in Traces, NEW B \in Int,
         UpWithin(run.stage, B), x.reach <= B
  PROVE  /\ UpWithin(UpStep(run, x).stage, B)
         /\ \E e \in Traces, o \in Traces :
              /\ UpStep(run, x).out = run.out \o <<e, o>> /\ e.reach <= B /\ o.reach <= B
<1> DEFINE line == [run.stage.line EXCEPT ![run.stage.pos] = x]
           pos  == run.stage.pos
           e == Dense(line, pos)
           o == Tap(line, pos, OddDepthUp)
<1>1. /\ UpStep(run, x).stage = [line |-> line, pos |-> (pos + 1) % EvenCount]
      /\ UpStep(run, x).out = run.out \o <<e, o>>
      /\ line \in [0..EvenCount - 1 -> Traces] /\ pos \in 0..EvenCount - 1
      /\ e \in Traces /\ o \in Traces
  BY UpStepForm
<1>2. Within(line, EvenCount, B)
  BY <1>1 DEF Within, UpWithin, UpRuns, UpStages
<1> HIDE DEF line, pos
<1>3. e.reach <= B
  BY <1>1, <1>2, DenseType
<1>4. o.reach <= B
  <2>1. (pos - OddDepthUp) % EvenCount \in 0..EvenCount - 1
    BY <1>1, TapIsBehind, CentreTap
  <2> QED BY <1>2, <2>1 DEF Tap, Within
<1>5. UpWithin(UpStep(run, x).stage, B)
  BY <1>1, <1>2 DEF UpWithin
<1> HIDE DEF e, o
<1> QED BY <1>1, <1>3, <1>4, <1>5

\* Two more values of a stream.
LEMMA FitsTwo ==
  ASSUME NEW out \in Seq(Traces), NEW e \in Traces, NEW o \in Traces, NEW m \in Nat,
         Len(out) = 2 * m, NEW K \in Int, NEW c \in Int, NEW gap \in Nat, Fits(out, K, c, gap),
         K + (2 * m + 1) >= 1 => e.centre = c - (2 * m) * gap,
         K + (2 * m + 2) >= 1 => o.centre = c - (2 * m + 1) * gap
  PROVE  /\ out \o <<e, o>> \in Seq(Traces) /\ Len(out \o <<e, o>>) = 2 * (m + 1)
         /\ Fits(out \o <<e, o>>, K, c, gap)
<1> DEFINE more == out \o <<e, o>>
<1>1. more \in Seq(Traces) /\ Len(more) = 2 * m + 2
  OBVIOUS
<1>2. \A i \in 1..2 * m : more[i] = out[i]
  OBVIOUS
<1>3. more[2 * m + 1] = e /\ more[2 * m + 2] = o
  OBVIOUS
<1> HIDE DEF more
<1>4. ASSUME NEW i \in 1..2 * m + 2, K + i >= 1
      PROVE  more[i].centre = c - (i - 1) * gap
  <2>1. CASE i \in 1..2 * m
    BY <1>2, <1>4, <2>1 DEF Fits
  <2>2. CASE i = 2 * m + 1
    <3>1. i - 1 = 2 * m /\ more[i] = e /\ K + (2 * m + 1) >= 1
      BY <1>3, <1>4, <2>2
    <3> QED BY <3>1
  <2>3. CASE i = 2 * m + 2
    <3>1. i - 1 = 2 * m + 1 /\ more[i] = o /\ K + (2 * m + 2) >= 1
      BY <1>3, <1>4, <2>3
    <3> QED BY <3>1
  <2> QED BY <2>1, <2>2, <2>3
<1>5. Fits(more, K, c, gap)
  BY <1>1, <1>4 DEF Fits
<1> QED BY <1>1, <1>5 DEF more

\* A stage's turn takes a stream in step with its line to one twice as dense.
LEMMA RaisedKnows ==
  ASSUME CascadeConstants, NEW stage \in UpStages, NEW s \in Seq(Traces), NEW K \in Int,
         NEW c \in Int, NEW h \in Nat, UpKnows(stage, K, c, h), Fits(s, K, c, 2 * h),
         \A i \in 1..Len(s) : c - (i - 1) * (2 * h) >= 0
  PROVE  /\ Raised(stage, s).stage \in UpStages /\ Raised(stage, s).out \in Seq(Traces)
         /\ Len(Raised(stage, s).out) = 2 * Len(s)
         /\ UpKnows(Raised(stage, s).stage, K + Len(s), c - Len(s) * (2 * h), h)
         /\ Fits(Raised(stage, s).out, 2 * K - 2 * Center + 1, c + Center * h, h)
<1> DEFINE N == Len(s)
           L == 2 * K - 2 * Center + 1
           d == c + Center * h
<1>0. N \in Nat /\ Center \in Nat /\ L \in Int /\ d \in Int /\ \A i \in 1..N : s[i] \in Traces
  <2>1. Center \in Nat
    BY CentreTap
  <2> QED BY <2>1
<1>1. \A run \in UpRuns, x \in Traces : UpStep(run, x) \in UpRuns
  BY UpStepForm
<1>2. PICK f \in [0..N -> UpRuns] :
            /\ f[0] = [stage |-> stage, out |-> <<>>]
            /\ \A n \in 1..N : f[n] = UpStep(f[n - 1], s[n])
            /\ Raised(stage, s) = f[N]
  BY <1>1, RaisedInTurns
<1> HIDE DEF N, L, d
<1> DEFINE Good(n) == /\ Len(f[n].out) = 2 * n
                      /\ UpKnows(f[n].stage, K + n, c - n * (2 * h), h)
                      /\ Fits(f[n].out, L, d, h)
           S == {n \in 0..N : Good(n)}
<1>3. Good(0)
  <2>1. f[0].stage = stage /\ f[0].out = <<>> /\ K + 0 = K /\ c - 0 * (2 * h) = c
    BY <1>2
  <2> QED BY <2>1 DEF Fits
<1>4. ASSUME NEW n \in 1..N, Good(n - 1) PROVE Good(n)
  <2> DEFINE b == c - (n - 1) * (2 * h)
  <2>0. n - 1 \in 0..N /\ n - 1 \in Nat /\ n \in 0..N /\ b \in Int /\ K + (n - 1) \in Int
    BY <1>0
  <2>1. f[n - 1] \in UpRuns /\ s[n] \in Traces /\ f[n] = UpStep(f[n - 1], s[n])
    BY <1>0, <1>2, <2>0
  <2>2. K + (n - 1) >= 0 => b >= 0 /\ s[n].centre = b
    <3>1. n \in 1..Len(s) /\ n \in Int /\ K \in Int
      BY DEF N
    <3>2. b >= 0
      BY <3>1
    <3>3. K + n >= 1 => s[n].centre = b
      BY <3>1, Zenon DEF Fits
    <3> HIDE DEF b
    <3> QED BY <3>1, <3>2, <3>3
  <2>3. UpKnows(f[n - 1].stage, K + (n - 1), b, h)
    BY <1>4
  <2> HIDE DEF b
  <2>4. /\ UpKnows(f[n].stage, K + (n - 1) + 1, b - 2 * h, h)
        /\ \E e \in Traces, o \in Traces :
              /\ f[n].out = f[n - 1].out \o <<e, o>>
              /\ K + (n - 1) >= Center => e.centre = b + Center * h
              /\ K + (n - 1) >= Center - 1 => o.centre = b + (Center - 1) * h
    <3> DEFINE p == f[n - 1]
               x == s[n]
               k == K + (n - 1)
    <3>1. p \in UpRuns /\ x \in Traces /\ k \in Int /\ b \in Int
      BY <2>0, <2>1
    <3>2. UpKnows(p.stage, k, b, h) /\ (k >= 0 => b >= 0 /\ x.centre = b) /\ f[n] = UpStep(p, x)
      BY <2>1, <2>2, <2>3
    <3> HIDE DEF p, x, k
    <3>3. /\ UpKnows(UpStep(p, x).stage, k + 1, b - 2 * h, h)
          /\ \E e \in Traces, o \in Traces :
               /\ UpStep(p, x).out = p.out \o <<e, o>>
               /\ k >= Center => e.centre = b + Center * h
               /\ k >= Center - 1 => o.centre = b + (Center - 1) * h
      BY <3>1, <3>2, UpStepKnows, ZenonT(40)
    <3> QED BY <3>2, <3>3, Zenon DEF p, k
  <2>5. K + (n - 1) + 1 = K + n /\ b - 2 * h = c - n * (2 * h)
    BY <2>0 DEF b
  <2>6. PICK e \in Traces, o \in Traces :
              /\ f[n].out = f[n - 1].out \o <<e, o>>
              /\ K + (n - 1) >= Center => e.centre = b + Center * h
              /\ K + (n - 1) >= Center - 1 => o.centre = b + (Center - 1) * h
    BY <2>4
  <2>7. f[n - 1].out \in Seq(Traces) /\ Len(f[n - 1].out) = 2 * (n - 1) /\ Fits(f[n - 1].out, L, d, h)
    BY <1>4, <2>1 DEF UpRuns
  <2>8. L + (2 * (n - 1) + 1) >= 1 => e.centre = d - (2 * (n - 1)) * h
    <3>1. L + (2 * (n - 1) + 1) >= 1 => K + (n - 1) >= Center
      BY <1>0, <2>0 DEF L
    <3>2. b + Center * h = d - (2 * (n - 1)) * h
      BY <1>0, <2>0 DEF b, d
    <3> QED BY <2>6, <3>1, <3>2
  <2>9. L + (2 * (n - 1) + 2) >= 1 => o.centre = d - (2 * (n - 1) + 1) * h
    <3>1. L + (2 * (n - 1) + 2) >= 1 => K + (n - 1) >= Center - 1
      BY <1>0, <2>0 DEF L
    <3>2. b + (Center - 1) * h = d - (2 * (n - 1) + 1) * h
      BY <1>0, <2>0 DEF b, d
    <3> QED BY <2>6, <3>1, <3>2
  <2>10. Len(f[n].out) = 2 * ((n - 1) + 1) /\ Fits(f[n].out, L, d, h)
    <3> DEFINE p == f[n - 1].out
               m == n - 1
    <3>1. p \in Seq(Traces) /\ Len(p) = 2 * m /\ Fits(p, L, d, h) /\ m \in Nat
      BY <2>0, <2>7
    <3>2. /\ L + (2 * m + 1) >= 1 => e.centre = d - (2 * m) * h
          /\ L + (2 * m + 2) >= 1 => o.centre = d - (2 * m + 1) * h
          /\ f[n].out = p \o <<e, o>>
      BY <2>6, <2>8, <2>9
    <3> HIDE DEF p, m
    <3>3. Len(p \o <<e, o>>) = 2 * (m + 1) /\ Fits(p \o <<e, o>>, L, d, h)
      BY <1>0, <3>1, <3>2, FitsTwo, ZenonT(40)
    <3> QED BY <3>2, <3>3 DEF m
  <2>11. Len(f[n].out) = 2 * n
    BY <2>0, <2>10
  <2>12. UpKnows(f[n].stage, K + n, c - n * (2 * h), h)
    BY <2>4, <2>5
  <2> QED BY <2>10, <2>11, <2>12
<1>5. 0..N \subseteq S
  <2> HIDE DEF Good
  <2>1. 0 \in S
    BY <1>0, <1>3
  <2>2. \A n \in 1..N : n - 1 \in S => n \in S
    BY <1>0, <1>4
  <2> HIDE DEF S
  <2> QED BY <1>0, <2>1, <2>2, RangeInduction, Zenon
<1>6. Good(N)
  BY <1>0, <1>5
<1>7. f[N] \in UpRuns
  BY <1>0, <1>2
<1> QED BY <1>2, <1>6, <1>7 DEF N, L, d, UpRuns

\* And reaches back no further.
LEMMA RaisedWithin ==
  ASSUME CascadeConstants, NEW stage \in UpStages, NEW s \in Seq(Traces), NEW B \in Int,
         UpWithin(stage, B), Reaches(s, B)
  PROVE  UpWithin(Raised(stage, s).stage, B) /\ Reaches(Raised(stage, s).out, B)
<1> DEFINE N == Len(s)
<1>0. N \in Nat /\ \A i \in 1..N : s[i] \in Traces
  OBVIOUS
<1>1. \A run \in UpRuns, x \in Traces : UpStep(run, x) \in UpRuns
  BY UpStepForm
<1>2. PICK f \in [0..N -> UpRuns] :
            /\ f[0] = [stage |-> stage, out |-> <<>>]
            /\ \A n \in 1..N : f[n] = UpStep(f[n - 1], s[n])
            /\ Raised(stage, s) = f[N]
  BY <1>1, RaisedInTurns
<1> HIDE DEF N
<1> DEFINE Good(n) == UpWithin(f[n].stage, B) /\ Reaches(f[n].out, B)
           S == {n \in 0..N : Good(n)}
<1>3. Good(0)
  BY <1>2 DEF Reaches
<1>4. ASSUME NEW n \in 1..N, Good(n - 1) PROVE Good(n)
  <2>1. n - 1 \in 0..N /\ f[n - 1] \in UpRuns /\ s[n] \in Traces /\ f[n] = UpStep(f[n - 1], s[n])
    BY <1>0, <1>2
  <2>2. s[n].reach <= B
    BY DEF Reaches, N
  <2>3. PICK e \in Traces, o \in Traces :
              /\ f[n].out = f[n - 1].out \o <<e, o>> /\ e.reach <= B /\ o.reach <= B
    <3> DEFINE p == f[n - 1]
               x == s[n]
    <3>1. p \in UpRuns /\ x \in Traces /\ UpWithin(p.stage, B) /\ x.reach <= B /\ f[n] = UpStep(p, x)
      BY <1>4, <2>1, <2>2
    <3> HIDE DEF p, x
    <3>2. \E e \in Traces, o \in Traces :
             UpStep(p, x).out = p.out \o <<e, o>> /\ e.reach <= B /\ o.reach <= B
      BY <3>1, UpStepWithin, Zenon
    <3> QED BY <3>1, <3>2, Zenon DEF p
  <2>4. f[n - 1].out \in Seq(Traces) /\ Reaches(f[n - 1].out, B)
    BY <1>4, <2>1 DEF UpRuns
  <2>5. Reaches(f[n].out, B)
    <3> DEFINE p == f[n - 1].out
    <3> HIDE DEF p
    <3>1. p \in Seq(Traces) /\ Reaches(p, B) /\ f[n].out = p \o <<e, o>>
      BY <2>3, <2>4 DEF p
    <3>2. ASSUME NEW i \in 1..Len(p) + 2 PROVE (p \o <<e, o>>)[i].reach <= B
      <4>1. CASE i \in 1..Len(p)
        BY <3>1, <4>1 DEF Reaches
      <4>2. CASE i = Len(p) + 1
        BY <2>3, <3>1, <4>2
      <4>3. CASE i = Len(p) + 2
        BY <2>3, <3>1, <4>3
      <4> QED BY <3>1, <4>1, <4>2, <4>3
    <3>3. Len(p \o <<e, o>>) = Len(p) + 2
      BY <3>1
    <3> QED BY <3>1, <3>2, <3>3 DEF Reaches
  <2>6. UpWithin(f[n].stage, B)
    BY <1>4, <2>1, <2>2, UpStepWithin
  <2> QED BY <2>5, <2>6
<1>5. 0..N \subseteq S
  <2> HIDE DEF Good
  <2>1. 0 \in S
    BY <1>0, <1>3
  <2>2. \A n \in 1..N : n - 1 \in S => n \in S
    BY <1>0, <1>4
  <2> HIDE DEF S
  <2> QED BY <1>0, <2>1, <2>2, RangeInduction, Zenon
<1> QED BY <1>0, <1>2, <1>5

-----------------------------------------------------------------------------
(* One stage down                                                          *)

\* The pairs of a stream, its even and odd phase, once P + i of them have come.
PairsFit(s, P, c, h) ==
  \A i \in 1..Len(s) : P + i >= 1 => /\ s[i][1].centre = c - (i - 1) * (2 * h)
                                     /\ s[i][2].centre = c - h - (i - 1) * (2 * h)

PairsReach(s, B) == \A i \in 1..Len(s) : s[i][1].reach <= B /\ s[i][2].reach <= B

DownKnows(stage, P, c, h) ==
  /\ Follows(stage.even, stage.posE, EvenCount, P, c, 2 * h)
  /\ Follows(stage.odd, stage.posO, OddLineSize, P, c - h, 2 * h)

DownWithin(stage, B) == Within(stage.even, EvenCount, B) /\ Within(stage.odd, OddLineSize, B)

\* A sum of two aligned values is aligned with them.
LEMMA SumType ==
  ASSUME TraceConstants, NEW s \in Traces, NEW t \in Traces
  PROVE  /\ Sum2(s, t) \in Traces
         /\ \A B \in Int : s.reach <= B /\ t.reach <= B => Sum2(s, t).reach <= B
         /\ s.centre = t.centre => Sum2(s, t).centre = s.centre
<1>1. Unclear \in Ages
  BY DEF Ages, Unclear, TraceConstants
<1> QED BY <1>1 DEF Sum2, Traces

\* What a stage keeps and gives of one pair.
LEMMA DownStepForm ==
  ASSUME CascadeConstants, NEW run \in DownRuns, NEW pair \in Traces \X Traces
  PROVE  LET even == [run.stage.even EXCEPT ![run.stage.posE] = pair[1]]
             odd  == [run.stage.odd EXCEPT ![run.stage.posO] = pair[2]]
             posE == run.stage.posE
             posO == run.stage.posO
             d == Dense(even, posE)
             t == odd[(posO - OddDepthDown) % OddLineSize]
         IN  /\ DownStep(run, pair) \in DownRuns
             /\ DownStep(run, pair).stage = [even |-> even, posE |-> (posE + 1) % EvenCount,
                                             odd  |-> odd,  posO |-> (posO + 1) % OddLineSize]
             /\ DownStep(run, pair).out = Append(run.out, Sum2(d, t))
             /\ even \in [0..EvenCount - 1 -> Traces] /\ posE \in 0..EvenCount - 1
             /\ odd \in [0..OddLineSize - 1 -> Traces] /\ posO \in 0..OddLineSize - 1
             /\ d \in Traces /\ t \in Traces /\ Sum2(d, t) \in Traces
<1> DEFINE even == [run.stage.even EXCEPT ![run.stage.posE] = pair[1]]
           odd  == [run.stage.odd EXCEPT ![run.stage.posO] = pair[2]]
           posE == run.stage.posE
           posO == run.stage.posO
           d == Dense(even, posE)
           t == odd[(posO - OddDepthDown) % OddLineSize]
<1>1. even \in [0..EvenCount - 1 -> Traces] /\ posE \in 0..EvenCount - 1
      /\ odd \in [0..OddLineSize - 1 -> Traces] /\ posO \in 0..OddLineSize - 1
      /\ run.out \in Seq(Traces)
  BY DEF DownRuns, DownStages
<1>2. (posE + 1) % EvenCount \in 0..EvenCount - 1 /\ (posO + 1) % OddLineSize \in 0..OddLineSize - 1
  BY <1>1, BehindAfterWrite, CentreTap
<1>3. d \in Traces
  BY <1>1, DenseType
<1>4. t \in Traces
  <2>1. (posO - OddDepthDown) % OddLineSize \in 0..OddLineSize - 1
    BY <1>1, TapIsBehind, CentreTap
  <2> QED BY <1>1, <2>1
<1>5. Sum2(d, t) \in Traces
  BY <1>3, <1>4, SumType DEF CascadeConstants
<1>6. DownStep(run, pair) = [stage |-> [even |-> even, posE |-> (posE + 1) % EvenCount,
                                        odd  |-> odd,  posO |-> (posO + 1) % OddLineSize],
                             out |-> Append(run.out, Sum2(d, t))]
  BY DEF DownStep
<1> HIDE DEF even, odd, posE, posO, d, t
<1>7. Append(run.out, Sum2(d, t)) \in Seq(Traces)
  BY <1>1, <1>5
<1>8. DownStep(run, pair) \in DownRuns
  BY <1>1, <1>2, <1>6, <1>7 DEF DownRuns, DownStages
<1> QED BY <1>1, <1>3, <1>4, <1>5, <1>6, <1>8, SMTT(30) DEF even, odd, posE, posO, d, t

\* The two branches of a stage down meet at one centre.
LEMMA DownStepKnows ==
  ASSUME CascadeConstants, NEW run \in DownRuns, NEW pair \in Traces \X Traces, NEW P \in Int,
         NEW c \in Int, NEW h \in Nat, DownKnows(run.stage, P, c, h),
         P >= 0 => c >= 0 /\ pair[1].centre = c /\ pair[2].centre = c - h
  PROVE  /\ DownKnows(DownStep(run, pair).stage, P + 1, c - 2 * h, h)
         /\ \E y \in Traces : /\ DownStep(run, pair).out = Append(run.out, y)
                              /\ P >= Center => y.centre = c + Center * h
<1> DEFINE even == [run.stage.even EXCEPT ![run.stage.posE] = pair[1]]
           odd  == [run.stage.odd EXCEPT ![run.stage.posO] = pair[2]]
           posE == run.stage.posE
           posO == run.stage.posO
           d == Dense(even, posE)
           t == odd[(posO - OddDepthDown) % OddLineSize]
<1>0. EvenCount \in Nat \ {0} /\ Center \in Nat /\ EvenCount = Center + 1
      /\ OddLineSize \in Nat \ {0} /\ OddDepthDown \in 0..OddLineSize - 1
      /\ 2 * OddDepthDown = Center + 1 /\ OddDepthDown < EvenCount /\ 2 * h \in Nat /\ c - h \in Int
      /\ Center >= 1
  BY CentreTap
<1>1. /\ DownStep(run, pair).stage = [even |-> even, posE |-> (posE + 1) % EvenCount,
                                      odd  |-> odd,  posO |-> (posO + 1) % OddLineSize]
      /\ DownStep(run, pair).out = Append(run.out, Sum2(d, t))
      /\ even \in [0..EvenCount - 1 -> Traces] /\ posE \in 0..EvenCount - 1
      /\ odd \in [0..OddLineSize - 1 -> Traces] /\ posO \in 0..OddLineSize - 1
      /\ d \in Traces /\ t \in Traces /\ Sum2(d, t) \in Traces
  BY DownStepForm
<1>2. run.stage.even \in [0..EvenCount - 1 -> Traces] /\ run.stage.odd \in [0..OddLineSize - 1 -> Traces]
      /\ pair[1] \in Traces /\ pair[2] \in Traces
  BY DEF DownRuns, DownStages
<1>3. Follows(even, (posE + 1) % EvenCount, EvenCount, P + 1, c - 2 * h, 2 * h)
  <2> DEFINE x == pair[1]
  <2>1. Follows(run.stage.even, posE, EvenCount, P, c, 2 * h) /\ (P >= 0 => x.centre = c) /\ x \in Traces
    BY <1>2 DEF DownKnows
  <2> HIDE DEF posE, x
  <2>2. run.stage.posE = posE /\ pair[1] = x
    BY DEF posE, x
  <2> QED BY <1>0, <1>1, <1>2, <2>1, <2>2, FollowsFurther, Zenon
<1>4. Follows(odd, (posO + 1) % OddLineSize, OddLineSize, P + 1, (c - h) - 2 * h, 2 * h)
  <2> DEFINE x == pair[2]
             b == c - h
  <2>1. Follows(run.stage.odd, posO, OddLineSize, P, b, 2 * h) /\ (P >= 0 => x.centre = b) /\ x \in Traces
        /\ b \in Int
    BY <1>2 DEF DownKnows
  <2> HIDE DEF posO, x, b
  <2>2. run.stage.posO = posO /\ pair[2] = x /\ c - h = b
    BY DEF posO, x, b
  <2> QED BY <1>0, <1>1, <1>2, <2>1, <2>2, FollowsFurther, Zenon
<1> HIDE DEF even, odd, posE, posO
<1>5. DownKnows(DownStep(run, pair).stage, P + 1, c - 2 * h, h)
  <2>1. (c - h) - 2 * h = (c - 2 * h) - h
    OBVIOUS
  <2> QED BY <1>1, <1>3, <1>4, <2>1 DEF DownKnows
<1>6. ASSUME P >= Center PROVE Sum2(d, t).centre = c + Center * h
  <2>1. c \in Nat
    BY <1>0, <1>6
  <2>2. Follows(even, (posE + 1) % EvenCount, EvenCount, EvenCount, c - 2 * h, 2 * h)
    BY <1>0, <1>3, <1>6 DEF Follows
  <2>3. d.centre = c + Center * h
    BY <1>1, <2>1, <2>2, DenseCentre
  <2>4. (posO - OddDepthDown) % OddLineSize = Behind((posO + 1) % OddLineSize, OddDepthDown, OddLineSize)
    BY <1>0, <1>1, TapIsBehind
  <2>5. OddDepthDown < P + 1
    BY <1>0, <1>6
  <2>6. t.centre = (c - h) - 2 * h + (OddDepthDown + 1) * (2 * h)
    BY <1>0, <1>4, <2>4, <2>5 DEF Follows
  <2>7. (c - h) - 2 * h + (OddDepthDown + 1) * (2 * h) = c - h + (2 * OddDepthDown) * h
    BY <1>0
  <2>8. c - h + (Center + 1) * h = c + Center * h
    BY <1>0
  <2>9. t.centre = d.centre
    BY <1>0, <2>3, <2>6, <2>7, <2>8
  <2> QED BY <1>1, <2>3, <2>9, SumType DEF CascadeConstants
<1> HIDE DEF d, t
<1> QED BY <1>1, <1>5, <1>6

\* And neither reaches back further than the lines and the pair.
LEMMA DownStepWithin ==
  ASSUME CascadeConstants, NEW run \in DownRuns, NEW pair \in Traces \X Traces, NEW B \in Int,
         DownWithin(run.stage, B), pair[1].reach <= B, pair[2].reach <= B
  PROVE  /\ DownWithin(DownStep(run, pair).stage, B)
         /\ \E y \in Traces : DownStep(run, pair).out = Append(run.out, y) /\ y.reach <= B
<1> DEFINE even == [run.stage.even EXCEPT ![run.stage.posE] = pair[1]]
           odd  == [run.stage.odd EXCEPT ![run.stage.posO] = pair[2]]
           posE == run.stage.posE
           posO == run.stage.posO
           d == Dense(even, posE)
           t == odd[(posO - OddDepthDown) % OddLineSize]
<1>1. /\ DownStep(run, pair).stage = [even |-> even, posE |-> (posE + 1) % EvenCount,
                                      odd  |-> odd,  posO |-> (posO + 1) % OddLineSize]
      /\ DownStep(run, pair).out = Append(run.out, Sum2(d, t))
      /\ even \in [0..EvenCount - 1 -> Traces] /\ posE \in 0..EvenCount - 1
      /\ odd \in [0..OddLineSize - 1 -> Traces] /\ posO \in 0..OddLineSize - 1
      /\ d \in Traces /\ t \in Traces /\ Sum2(d, t) \in Traces
  BY DownStepForm
<1>2. Within(even, EvenCount, B) /\ Within(odd, OddLineSize, B)
  BY <1>1 DEF Within, DownWithin, DownRuns, DownStages
<1> HIDE DEF even, odd, posE, posO
<1>3. d.reach <= B
  BY <1>1, <1>2, DenseType
<1>4. t.reach <= B
  <2>1. (posO - OddDepthDown) % OddLineSize \in 0..OddLineSize - 1
    BY <1>1, TapIsBehind, CentreTap
  <2> QED BY <1>2, <2>1 DEF Within
<1>5. DownWithin(DownStep(run, pair).stage, B)
  BY <1>1, <1>2 DEF DownWithin
<1> HIDE DEF d, t
<1>6. Sum2(d, t).reach <= B
  BY <1>1, <1>3, <1>4, SumType DEF CascadeConstants
<1> QED BY <1>1, <1>5, <1>6

\* A stage's turn takes the pairs of a stream to one half as dense.
LEMMA LoweredKnows ==
  ASSUME CascadeConstants, NEW stage \in DownStages, NEW s \in Seq(Traces \X Traces), NEW P \in Int,
         NEW c \in Int, NEW h \in Nat, DownKnows(stage, P, c, h), PairsFit(s, P, c, h),
         \A i \in 1..Len(s) : c - (i - 1) * (2 * h) >= 0
  PROVE  /\ Lowered(stage, s).stage \in DownStages /\ Lowered(stage, s).out \in Seq(Traces)
         /\ Len(Lowered(stage, s).out) = Len(s)
         /\ DownKnows(Lowered(stage, s).stage, P + Len(s), c - Len(s) * (2 * h), h)
         /\ Fits(Lowered(stage, s).out, P - Center, c + Center * h, 2 * h)
<1> DEFINE N == Len(s)
           L == P - Center
           d == c + Center * h
<1>0. N \in Nat /\ Center \in Nat /\ L \in Int /\ d \in Int
      /\ \A i \in 1..N : s[i] \in Traces \X Traces
  <2>1. Center \in Nat
    BY CentreTap
  <2> QED BY <2>1
<1>1. \A run \in DownRuns, x \in Traces \X Traces : DownStep(run, x) \in DownRuns
  BY DownStepForm
<1>2. PICK f \in [0..N -> DownRuns] :
            /\ f[0] = [stage |-> stage, out |-> <<>>]
            /\ \A n \in 1..N : f[n] = DownStep(f[n - 1], s[n])
            /\ Lowered(stage, s) = f[N]
  BY <1>1, LoweredInTurns
<1> HIDE DEF N, L, d
<1> DEFINE Good(n) == /\ Len(f[n].out) = n
                      /\ DownKnows(f[n].stage, P + n, c - n * (2 * h), h)
                      /\ Fits(f[n].out, L, d, 2 * h)
           S == {n \in 0..N : Good(n)}
<1>3. Good(0)
  <2>1. f[0].stage = stage /\ f[0].out = <<>> /\ P + 0 = P /\ c - 0 * (2 * h) = c
    BY <1>2
  <2> QED BY <2>1 DEF Fits
<1>4. ASSUME NEW n \in 1..N, Good(n - 1) PROVE Good(n)
  <2> DEFINE b == c - (n - 1) * (2 * h)
             p == f[n - 1]
             x == s[n]
             k == P + (n - 1)
  <2>0. n - 1 \in 0..N /\ n - 1 \in Nat /\ n \in 0..N /\ b \in Int /\ k \in Int
    BY <1>0
  <2>1. p \in DownRuns /\ x \in Traces \X Traces /\ f[n] = DownStep(p, x)
    BY <1>0, <1>2, <2>0
  <2>2. k >= 0 => b >= 0 /\ x[1].centre = b /\ x[2].centre = b - h
    <3>1. b >= 0
      BY <1>0 DEF N
    <3>2. k >= 0 => /\ x[1].centre = c - (n - 1) * (2 * h)
                    /\ x[2].centre = c - h - (n - 1) * (2 * h)
      <4>1. (k >= 0 => P + n >= 1) /\ n \in 1..Len(s)
        BY <2>0 DEF N
      <4> HIDE DEF k
      <4> QED BY <4>1, Zenon DEF PairsFit
    <3>3. c - h - (n - 1) * (2 * h) = b - h
      BY <2>0
    <3> QED BY <3>1, <3>2, <3>3
  <2>3. DownKnows(p.stage, k, b, h)
    BY <1>4
  <2>4. Len(p.out) = n - 1 /\ Fits(p.out, L, d, 2 * h) /\ p.out \in Seq(Traces)
    BY <1>4, <2>1 DEF DownRuns
  <2> HIDE DEF b, p, x, k
  <2>5. /\ DownKnows(DownStep(p, x).stage, k + 1, b - 2 * h, h)
        /\ \E y \in Traces : /\ DownStep(p, x).out = Append(p.out, y)
                             /\ k >= Center => y.centre = b + Center * h
    <3>1. k \in Int /\ b \in Int
      BY <2>0
    <3>2. p \in DownRuns /\ x \in Traces \X Traces
      BY <2>1
    <3> QED BY <3>1, <3>2, <2>2, <2>3, DownStepKnows, ZenonT(60)
  <2>6. k + 1 = P + n /\ b - 2 * h = c - n * (2 * h)
    BY <2>0 DEF b, k
  <2>7. PICK y \in Traces : /\ DownStep(p, x).out = Append(p.out, y)
                            /\ k >= Center => y.centre = b + Center * h
    BY <2>5
  <2>8. L + n >= 1 => y.centre = d - (n - 1) * (2 * h)
    <3>1. L + n >= 1 => k >= Center
      BY <1>0, <2>0 DEF L, k
    <3>2. b + Center * h = d - (n - 1) * (2 * h)
      BY <1>0, <2>0 DEF b, d
    <3> QED BY <2>7, <3>1, <3>2, Zenon
  <2>9. Len(f[n].out) = n /\ Fits(f[n].out, L, d, 2 * h)
    <3> DEFINE q == p.out
    <3>1. q \in Seq(Traces) /\ Len(q) = n - 1 /\ Fits(q, L, d, 2 * h) /\ f[n].out = Append(q, y)
      BY <2>1, <2>4, <2>7, Zenon
    <3> HIDE DEF q
    <3>2. Len(Append(q, y)) = n /\ Append(q, y)[n] = y /\ \A i \in 1..n - 1 : Append(q, y)[i] = q[i]
      BY <2>0, <3>1
    <3>3. ASSUME NEW i \in 1..n, L + i >= 1 PROVE Append(q, y)[i].centre = d - (i - 1) * (2 * h)
      <4>1. CASE i = n
        BY <2>8, <3>2, <3>3, <4>1
      <4>2. CASE i # n
        <5>1. i \in 1..n - 1
          BY <1>0, <4>2
        <5> QED BY <3>1, <3>2, <3>3, <5>1 DEF Fits
      <4> QED BY <4>1, <4>2
    <3> QED BY <3>1, <3>2, <3>3 DEF Fits
  <2>10. DownKnows(f[n].stage, P + n, c - n * (2 * h), h)
    BY <2>1, <2>5, <2>6
  <2> QED BY <2>9, <2>10
<1>5. 0..N \subseteq S
  <2> HIDE DEF Good
  <2>1. 0 \in S
    BY <1>0, <1>3
  <2>2. \A n \in 1..N : n - 1 \in S => n \in S
    BY <1>0, <1>4
  <2> HIDE DEF S
  <2> QED BY <1>0, <2>1, <2>2, RangeInduction, Zenon
<1>6. Good(N)
  BY <1>0, <1>5
<1>7. f[N] \in DownRuns
  BY <1>0, <1>2
<1> QED BY <1>2, <1>6, <1>7 DEF N, L, d, DownRuns

\* And reaches back no further.
LEMMA LoweredWithin ==
  ASSUME CascadeConstants, NEW stage \in DownStages, NEW s \in Seq(Traces \X Traces), NEW B \in Int,
         DownWithin(stage, B), PairsReach(s, B)
  PROVE  DownWithin(Lowered(stage, s).stage, B) /\ Reaches(Lowered(stage, s).out, B)
<1> DEFINE N == Len(s)
<1>0. N \in Nat /\ \A i \in 1..N : s[i] \in Traces \X Traces
  OBVIOUS
<1>1. \A run \in DownRuns, x \in Traces \X Traces : DownStep(run, x) \in DownRuns
  BY DownStepForm
<1>2. PICK f \in [0..N -> DownRuns] :
            /\ f[0] = [stage |-> stage, out |-> <<>>]
            /\ \A n \in 1..N : f[n] = DownStep(f[n - 1], s[n])
            /\ Lowered(stage, s) = f[N]
  BY <1>1, LoweredInTurns
<1> HIDE DEF N
<1> DEFINE Good(n) == DownWithin(f[n].stage, B) /\ Reaches(f[n].out, B)
           S == {n \in 0..N : Good(n)}
<1>3. Good(0)
  BY <1>2 DEF Reaches
<1>4. ASSUME NEW n \in 1..N, Good(n - 1) PROVE Good(n)
  <2> DEFINE p == f[n - 1]
             x == s[n]
  <2>1. n - 1 \in 0..N /\ p \in DownRuns /\ x \in Traces \X Traces /\ f[n] = DownStep(p, x)
    BY <1>0, <1>2
  <2>2. x[1].reach <= B /\ x[2].reach <= B
    BY DEF PairsReach, N
  <2>3. DownWithin(p.stage, B) /\ Reaches(p.out, B) /\ p.out \in Seq(Traces)
    BY <1>4, <2>1 DEF DownRuns
  <2> HIDE DEF p, x
  <2>4. /\ DownWithin(DownStep(p, x).stage, B)
        /\ \E y \in Traces : DownStep(p, x).out = Append(p.out, y) /\ y.reach <= B
    BY <2>1, <2>2, <2>3, DownStepWithin, Zenon
  <2>5. PICK y \in Traces : f[n].out = Append(p.out, y) /\ y.reach <= B
    BY <2>1, <2>4
  <2>6. Reaches(f[n].out, B)
    <3> DEFINE q == p.out
    <3>1. q \in Seq(Traces) /\ Reaches(q, B) /\ f[n].out = Append(q, y)
      BY <2>3, <2>5
    <3> HIDE DEF q
    <3>2. ASSUME NEW i \in 1..Len(q) + 1 PROVE Append(q, y)[i].reach <= B
      BY <2>5, <3>1 DEF Reaches
    <3>3. Len(Append(q, y)) = Len(q) + 1
      BY <3>1
    <3> QED BY <3>1, <3>2, <3>3 DEF Reaches
  <2> QED BY <2>1, <2>4, <2>6
<1>5. 0..N \subseteq S
  <2> HIDE DEF Good
  <2>1. 0 \in S
    BY <1>0, <1>3
  <2>2. \A n \in 1..N : n - 1 \in S => n \in S
    BY <1>0, <1>4
  <2> HIDE DEF S
  <2> QED BY <1>0, <2>1, <2>2, RangeInduction, Zenon
<1> QED BY <1>0, <1>2, <1>5

-----------------------------------------------------------------------------
(* The arithmetic of a cascade of N stages, r samples after it was cleared *)

\* Values a stage takes in a base-rate sample, and the ticks between two of them.
Width(s) == <<1, 2, 4, 8>>[s]
Gap(s)   == Ticks \div Width(s)

\* What has come that is evenly spaced, up to stage s, and by when it is due there.
UpCount(s, r) == <<r, 2 * r - 2 * Center + 1, 4 * r - 6 * Center + 3, 8 * r - 14 * Center + 7>>[s]
UpDue(s) == <<0, Center * Gap(2), Center * Gap(2) + Center * Gap(3),
              Center * Gap(2) + Center * Gap(3) + Center * Gap(4)>>[s]

\* The same of the pairs that come down to stage s.
DownCount(N, s, r) ==
  CASE N = 1 -> r - Center
    [] N = 2 -> <<r - 2 * Center, 2 * r - 3 * Center + 1>>[s]
    [] N = 3 -> <<r - 5 * OddDepthUp - 2, 2 * r - 4 * Center + 1, 4 * r - 7 * Center + 3>>[s]
DownDue(N, s) == 2 * UpDue(N + 1) - UpDue(s + 1)

\* What comes to the stage as a stream.
InCount(N, s, r) == IF s = N THEN UpCount(N + 1, r) ELSE DownCount(N, s + 1, r) - Center

CascadeOf(N) ==
  /\ CascadeConstants /\ N \in 1..3 /\ Ticks % FactorOf(N) = 0
  /\ Horizon >= Span(FactorOf(N)) + Ticks

\* Each stage doubles the rate: the inputs of a stage are a base-rate sample together.
LEMMA GapsHalve ==
  ASSUME NEW N \in Nat, CascadeOf(N), NEW s \in 1..N
  PROVE  /\ Gap(s) = 2 * Gap(s + 1) /\ Gap(s) \in Nat \ {0} /\ Gap(s + 1) \in Nat \ {0}
         /\ Width(s) * Gap(s) = Ticks /\ Width(s) \in Nat \ {0} /\ Width(s + 1) = 2 * Width(s)
         /\ (Width(s) - 1) * Gap(s) = Ticks - Gap(s)
         /\ Gap(1) = Ticks
<1>1. Ticks \in Nat \ {0}
  BY DEF CascadeOf, CascadeConstants, TraceConstants
<1>2. CASE N = 1
  BY <1>1, <1>2 DEF CascadeOf, FactorOf, Gap, Width
<1>3. CASE N = 2
  BY <1>1, <1>3 DEF CascadeOf, FactorOf, Gap, Width
<1>4. CASE N = 3
  BY <1>1, <1>4 DEF CascadeOf, FactorOf, Gap, Width
<1> QED BY <1>2, <1>3, <1>4 DEF CascadeOf

\* What one stage up gives in time is what the next one counts.
LEMMA UpTimes ==
  ASSUME NEW N \in Nat, CascadeOf(N), NEW s \in 1..N, NEW r \in Nat
  PROVE  /\ UpCount(s, r) \in Int /\ UpCount(s + 1, r) = 2 * UpCount(s, r) - 2 * Center + 1
         /\ UpCount(s, r + 1) = UpCount(s, r) + Width(s)
         /\ UpDue(s) \in Nat /\ UpDue(s + 1) \in Nat /\ UpDue(s + 1) = UpDue(s) + Center * Gap(s + 1)
         /\ UpDue(s) - Ticks + Gap(s) >= 0
<1>1. Ticks \in Nat \ {0} /\ Center \in Nat /\ Center >= 1
  BY CentreTap DEF CascadeOf, CascadeConstants, TraceConstants
<1>2. s = 1 \/ s = 2 \/ s = 3
  BY DEF CascadeOf
<1>3. /\ UpCount(s, r) \in Int /\ UpCount(s + 1, r) = 2 * UpCount(s, r) - 2 * Center + 1
      /\ UpCount(s, r + 1) = UpCount(s, r) + Width(s)
  BY <1>1, <1>2 DEF UpCount, Width
<1>4. \A k \in 1..N : Gap(k) = 2 * Gap(k + 1) /\ Gap(k + 1) \in Nat \ {0}
  BY GapsHalve
<1>5. Gap(1) = Ticks
  BY GapsHalve
<1>6. CASE s = 1
  <2>1. Gap(2) \in Nat /\ Center * Gap(2) \in Nat
    BY <1>1, <1>4, <1>6
  <2> QED BY <1>1, <1>3, <1>5, <1>6, <2>1 DEF UpDue
<1>7. CASE s = 2
  <2>1. Gap(2) \in Nat /\ Gap(3) \in Nat /\ Gap(1) = 2 * Gap(2) /\ Gap(2) = 2 * Gap(3)
    BY <1>1, <1>4, <1>7
  <2>2. Center * Gap(2) \in Nat /\ Center * Gap(3) \in Nat /\ Gap(2) <= Center * Gap(2)
    BY <1>1, <2>1
  <2> QED BY <1>1, <1>3, <1>5, <1>7, <2>1, <2>2 DEF UpDue
<1>8. CASE s = 3
  <2>1. Gap(2) \in Nat /\ Gap(3) \in Nat /\ Gap(4) \in Nat
        /\ Gap(1) = 2 * Gap(2) /\ Gap(2) = 2 * Gap(3) /\ Gap(3) = 2 * Gap(4)
    BY <1>1, <1>4, <1>8
  <2>2. Center * Gap(2) \in Nat /\ Center * Gap(3) \in Nat /\ Center * Gap(4) \in Nat
        /\ Gap(2) <= Center * Gap(2) /\ Gap(3) <= Center * Gap(3)
    BY <1>1, <2>1
  <2> QED BY <1>1, <1>3, <1>5, <1>8, <2>1, <2>2 DEF UpDue
<1> QED BY <1>2, <1>6, <1>7, <1>8

\* A stage down has its pairs no earlier than its stream.
LEMMA DownTimes ==
  ASSUME NEW N \in Nat, CascadeOf(N), NEW s \in 1..N, NEW r \in Nat
  PROVE  /\ DownCount(N, s, r) \in Int /\ InCount(N, s, r) \in Int
         /\ 2 * DownCount(N, s, r) <= InCount(N, s, r)
         /\ DownCount(N, s, r + 1) = DownCount(N, s, r) + Width(s)
<1>1. Center \in Nat /\ Center >= 1 /\ OddDepthUp \in Nat /\ 2 * OddDepthUp = Center - 1
  BY CentreTap DEF CascadeOf
<1>2. CASE N = 1
  <2>1. s = 1
    BY <1>2
  <2> QED BY <1>1, <1>2, <2>1 DEF DownCount, InCount, UpCount, Width
<1>3. CASE N = 2
  <2>1. s = 1 \/ s = 2
    BY <1>3
  <2> QED BY <1>1, <1>3, <2>1 DEF DownCount, InCount, UpCount, Width
<1>4. CASE N = 3
  <2>1. s = 1 \/ s = 2 \/ s = 3
    BY <1>4
  <2> QED BY <1>1, <1>4, <2>1 DEF DownCount, InCount, UpCount, Width
<1> QED BY <1>2, <1>3, <1>4 DEF CascadeOf

\* Everything in the ticks of the highest rate.
LEMMA DuesInTicks ==
  ASSUME NEW N \in Nat, CascadeOf(N)
  PROVE  \E g \in Nat \ {0}, p \in Nat :
           /\ p = Center * g /\ g <= p /\ Ticks = FactorOf(N) * g
           /\ GroupDelay(FactorOf(N)) = 2 * (FactorOf(N) - 1) * p
           /\ Span(FactorOf(N)) = 4 * (FactorOf(N) - 1) * p
           /\ Span(FactorOf(N)) \div Ticks = (4 * (FactorOf(N) - 1) * Center) \div FactorOf(N)
           /\ UpDue(1) = 0 /\ Gap(1) = Ticks
           /\ N = 1 => UpDue(2) = p /\ Gap(2) = g
           /\ N = 2 => UpDue(2) = 2 * p /\ UpDue(3) = 3 * p /\ Gap(2) = 2 * g /\ Gap(3) = g
           /\ N = 3 => /\ UpDue(2) = 4 * p /\ UpDue(3) = 6 * p /\ UpDue(4) = 7 * p
                      /\ Gap(2) = 4 * g /\ Gap(3) = 2 * g /\ Gap(4) = g
<1> DEFINE g == Gap(N + 1)
           p == Center * g
<1>1. Ticks \in Nat \ {0} /\ Center \in Nat /\ Center >= 1
  BY CentreTap DEF CascadeOf, CascadeConstants, TraceConstants
<1>2. N \in 1..3
  BY DEF CascadeOf
<1>3. \A k \in 1..N : Gap(k) = 2 * Gap(k + 1) /\ Gap(k + 1) \in Nat \ {0}
  BY GapsHalve
<1>4. Gap(1) = Ticks
  BY <1>2, GapsHalve
<1>5. g \in Nat \ {0} /\ p \in Nat /\ g <= p
  BY <1>1, <1>2, <1>3
<1>6. ASSUME NEW F \in {2, 4, 8}, Ticks = F * g
      PROVE  /\ GroupDelay(F) = 2 * (F - 1) * p /\ Span(F) = 4 * (F - 1) * p
             /\ Span(F) \div Ticks = (4 * (F - 1) * Center) \div F
  <2> HIDE DEF g
  <2>1. 2 * Center * (F - 1) * Ticks = F * (2 * (F - 1) * p)
    BY <1>1, <1>5, <1>6
  <2>2. 2 * (F - 1) * p \in Nat
    BY <1>5
  <2>3. \A m \in Nat : (F * m) \div F = m
    OBVIOUS
  <2>4. GroupDelay(F) = 2 * (F - 1) * p
    BY <2>1, <2>2, <2>3 DEF GroupDelay
  <2>5. Span(F) = 4 * (F - 1) * p
    BY <1>5, <2>4 DEF Span
  <2>6. ASSUME NEW a \in Nat PROVE (a * g) \div (F * g) = a \div F
    <3> DEFINE m == a \div F
               k == a % F
    <3>1. a = F * m + k /\ k \in 0..F - 1 /\ m \in Nat
      <4>1. CASE F = 2
        BY <4>1
      <4>2. CASE F = 4
        BY <4>2
      <4>3. CASE F = 8
        BY <4>3
      <4> QED BY <4>1, <4>2, <4>3
    <3> HIDE DEF m, k
    <3>2. a * g = (F * g) * m + k * g
      BY <1>5, <3>1
    <3>3. k * g \in Nat /\ k * g < F * g /\ F * g \in Nat \ {0}
      <4>1. CASE F = 2
        BY <1>5, <3>1, <4>1
      <4>2. CASE F = 4
        BY <1>5, <3>1, <4>2
      <4>3. CASE F = 8
        BY <1>5, <3>1, <4>3
      <4> QED BY <4>1, <4>2, <4>3
    <3>4. ASSUME NEW x \in Nat, NEW d \in Nat \ {0}, NEW q \in Nat, NEW z \in Nat, z < d, x = d * q + z
          PROVE  x \div d = q
      BY <3>4
    <3>5. a * g \in Nat
      BY <1>5
    <3> QED BY <3>1, <3>2, <3>3, <3>4, <3>5 DEF m
  <2>7. 4 * (F - 1) * p = (4 * (F - 1) * Center) * g /\ 4 * (F - 1) * Center \in Nat
    BY <1>1, <1>5
  <2>8. (4 * (F - 1) * Center * g) \div (F * g) = (4 * (F - 1) * Center) \div F
    BY <2>6, <2>7
  <2>9. Span(F) = 4 * (F - 1) * Center * g
    BY <2>5, <2>7
  <2> QED BY <1>6, <2>4, <2>5, <2>8, <2>9
<1>7. CASE N = 1
  <2>1. FactorOf(N) = 2 /\ Gap(1) = 2 * Gap(2) /\ g = Gap(2)
    BY <1>3, <1>7 DEF FactorOf
  <2>2. UpDue(1) = 0 /\ UpDue(2) = p
    BY <2>1 DEF UpDue
  <2> HIDE DEF g, p
  <2>3. Ticks = 2 * g
    BY <1>4, <2>1
  <2>4. p = Center * g
    BY DEF p
  <2> QED BY <1>4, <1>5, <1>6, <1>7, <2>1, <2>2, <2>3, <2>4
<1>8. CASE N = 2
  <2>1. FactorOf(N) = 4 /\ Gap(1) = 2 * Gap(2) /\ Gap(2) = 2 * Gap(3) /\ g = Gap(3)
    BY <1>3, <1>8 DEF FactorOf
  <2>2. UpDue(1) = 0 /\ UpDue(2) = 2 * p /\ UpDue(3) = 3 * p
    BY <1>1, <1>5, <2>1 DEF UpDue
  <2> HIDE DEF g, p
  <2>3. Ticks = 4 * g
    BY <1>4, <1>5, <2>1
  <2>4. p = Center * g
    BY DEF p
  <2> QED BY <1>4, <1>5, <1>6, <1>8, <2>1, <2>2, <2>3, <2>4
<1>9. CASE N = 3
  <2>1. /\ FactorOf(N) = 8 /\ Gap(1) = 2 * Gap(2) /\ Gap(2) = 2 * Gap(3) /\ Gap(3) = 2 * Gap(4)
        /\ g = Gap(4)
    BY <1>3, <1>9 DEF FactorOf
  <2>2. UpDue(1) = 0 /\ UpDue(2) = 4 * p /\ UpDue(3) = 6 * p /\ UpDue(4) = 7 * p
    BY <1>1, <1>5, <2>1 DEF UpDue
  <2> HIDE DEF g, p
  <2>3. Ticks = 8 * g
    BY <1>4, <1>5, <2>1
  <2>4. p = Center * g
    BY DEF p
  <2>5. /\ GroupDelay(8) = 2 * (8 - 1) * p /\ Span(8) = 4 * (8 - 1) * p
        /\ Span(8) \div Ticks = (4 * (8 - 1) * Center) \div 8
    BY <1>6, <2>3
  <2>6. Gap(4) = g /\ Gap(3) = 2 * g /\ Gap(2) = 4 * g
    BY <1>5, <2>1
  <2>7. /\ GroupDelay(FactorOf(N)) = 2 * (FactorOf(N) - 1) * p
        /\ Span(FactorOf(N)) = 4 * (FactorOf(N) - 1) * p
        /\ Span(FactorOf(N)) \div Ticks = (4 * (FactorOf(N) - 1) * Center) \div FactorOf(N)
        /\ Ticks = FactorOf(N) * g
    BY <2>1, <2>3, <2>5, Zenon
  <2>8. N # 1 /\ N # 2
    BY <1>9
  <2> QED BY <1>4, <1>5, <2>2, <2>4, <2>6, <2>7, <2>8, Zenon
<1>10. N = 1 \/ N = 2 \/ N = 3
  BY <1>2
<1> QED BY <1>7, <1>8, <1>9, <1>10, Zenon

\* Nothing is beyond the horizon, and the last stage gives the group delay.
LEMMA DownDues ==
  ASSUME NEW N \in Nat, CascadeOf(N), NEW s \in 1..N
  PROVE  /\ UpDue(s) + (Center + 1) * Gap(s) <= Horizon
         /\ DownDue(N, s) + (Center + 1) * Gap(s) <= Horizon
         /\ DownDue(N, s) \in Nat /\ DownDue(N, s) - Ticks + Gap(s + 1) >= 0
         /\ DownDue(N, N) = UpDue(N + 1)
         /\ s # N => DownDue(N, s) = DownDue(N, s + 1) + Center * Gap(s + 2)
         /\ DownDue(N, 1) + Center * Gap(2) = GroupDelay(FactorOf(N))
<1>1. Ticks \in Nat \ {0} /\ Horizon \in Nat /\ Center \in Nat /\ Center >= 1 /\ N \in 1..3
      /\ Horizon >= Span(FactorOf(N)) + Ticks
  BY CentreTap DEF CascadeOf, CascadeConstants, TraceConstants
<1>2. PICK g \in Nat \ {0}, p \in Nat :
           /\ p = Center * g /\ g <= p /\ Ticks = FactorOf(N) * g
           /\ GroupDelay(FactorOf(N)) = 2 * (FactorOf(N) - 1) * p
           /\ Span(FactorOf(N)) = 4 * (FactorOf(N) - 1) * p
           /\ UpDue(1) = 0 /\ Gap(1) = Ticks
           /\ N = 1 => UpDue(2) = p /\ Gap(2) = g
           /\ N = 2 => UpDue(2) = 2 * p /\ UpDue(3) = 3 * p /\ Gap(2) = 2 * g /\ Gap(3) = g
           /\ N = 3 => /\ UpDue(2) = 4 * p /\ UpDue(3) = 6 * p /\ UpDue(4) = 7 * p
                      /\ Gap(2) = 4 * g /\ Gap(3) = 2 * g /\ Gap(4) = g
  BY DuesInTicks
<1>3. \A k \in {1, 2, 4, 8} : (Center + 1) * (k * g) = k * p + k * g /\ Center * (k * g) = k * p
  BY <1>1, <1>2
<1>4. CASE N = 1
  <2>1. s = 1 /\ FactorOf(N) = 2
    BY <1>4 DEF FactorOf
  <2>2. (Center + 1) * Gap(1) = 2 * p + 2 * g /\ Center * Gap(2) = p
    <3>1. Gap(1) = 2 * g /\ Gap(2) = g
      BY <1>2, <1>4, <2>1
    <3>2. p = Center * g /\ Center \in Nat
      BY <1>1, <1>2
    <3> QED BY <3>1, <3>2
  <2>3. /\ GroupDelay(2) = 2 * p /\ Span(2) = 4 * p /\ Ticks = 2 * g /\ Gap(2) = g
        /\ UpDue(2) = p /\ UpDue(1) = 0
    BY <1>2, <1>4, <2>1
  <2>4. Horizon >= Span(2) + Ticks
    BY <1>1, <2>1
  <2>5. DownDue(1, 1) = p
    BY <1>2, <2>3 DEF DownDue
  <2> QED BY <1>1, <1>2, <1>4, <2>1, <2>2, <2>3, <2>4, <2>5
<1>5. CASE N = 2
  <2>1. (s = 1 \/ s = 2) /\ FactorOf(N) = 4
    BY <1>5 DEF FactorOf
  <2>2. /\ (Center + 1) * Gap(1) = 4 * p + 4 * g /\ (Center + 1) * Gap(2) = 2 * p + 2 * g
        /\ Center * Gap(2) = 2 * p /\ Center * Gap(3) = p
    BY <1>2, <1>3, <1>5, <2>1
  <2> QED BY <1>1, <1>2, <1>5, <2>1, <2>2 DEF DownDue
<1>6. CASE N = 3
  <2>1. (s = 1 \/ s = 2 \/ s = 3) /\ FactorOf(N) = 8
    BY <1>6 DEF FactorOf
  <2>2. /\ (Center + 1) * Gap(1) = 8 * p + 8 * g /\ (Center + 1) * Gap(2) = 4 * p + 4 * g
        /\ (Center + 1) * Gap(3) = 2 * p + 2 * g
        /\ Center * Gap(2) = 4 * p /\ Center * Gap(3) = 2 * p /\ Center * Gap(4) = p
    BY <1>2, <1>3, <1>6, <2>1
  <2> QED BY <1>1, <1>2, <1>6, <2>1, <2>2 DEF DownDue
<1> QED BY <1>1, <1>4, <1>5, <1>6

\* What has run for the settling time has heard enough.
LEMMA SettledCount ==
  ASSUME NEW N \in Nat, CascadeOf(N), NEW r \in Nat, r >= Span(FactorOf(N)) \div Ticks
  PROVE  DownCount(N, 1, r) >= Center
<1>1. Center \in Nat /\ Center >= 1 /\ OddDepthUp \in Nat /\ 2 * OddDepthUp = Center - 1 /\ N \in 1..3
  BY CentreTap DEF CascadeOf
<1>2. Span(FactorOf(N)) \div Ticks = (4 * (FactorOf(N) - 1) * Center) \div FactorOf(N)
  BY DuesInTicks
<1>3. CASE N = 1
  BY <1>1, <1>2, <1>3 DEF FactorOf, DownCount
<1>4. CASE N = 2
  BY <1>1, <1>2, <1>4 DEF FactorOf, DownCount
<1>5. CASE N = 3
  BY <1>1, <1>2, <1>5 DEF FactorOf, DownCount
<1> QED BY <1>1, <1>3, <1>4, <1>5

-----------------------------------------------------------------------------
(* What a cascade's lines hold, a sample later                             *)

AgedLine(line) == [k \in DOMAIN line |-> Aged(line[k])]

\* A sample later, the same are evenly spaced, and as much older.
LEMMA FollowsAges ==
  ASSUME TraceConstants, NEW n \in Nat \ {0}, NEW line \in [0..n - 1 -> Traces], NEW w \in 0..n - 1,
         NEW K \in Int, NEW c \in Int, NEW gap \in Nat, Follows(line, w, n, K, c - Ticks, gap),
         c - Ticks + gap >= 0, c + n * gap <= Horizon
  PROVE  Follows(AgedLine(line), w, n, K, c, gap)
<1>1. ASSUME NEW k \in 0..n - 1, k < K
      PROVE  AgedLine(line)[Behind(w, k, n)].centre = c + (k + 1) * gap
  <2> DEFINE b == Behind(w, k, n)
             m == (k + 1) * gap
  <2>1. b \in 0..n - 1
    BY BehindIsRead
  <2>2. line[b].centre = c - Ticks + m
    BY <1>1 DEF Follows
  <2>3. m \in Nat /\ gap <= m /\ m <= n * gap
    <3>1. k + 1 \in Nat /\ k + 1 <= n /\ n \in Nat
      OBVIOUS
    <3>2. (k + 1) * gap \in Nat /\ (k + 1) * gap <= n * gap
      BY <3>1, ProductGrows
    <3>3. (k + 1) * gap = k * gap + gap /\ k * gap \in Nat
      OBVIOUS
    <3> QED BY <3>2, <3>3
  <2> HIDE DEF b, m
  <2>4. n * gap \in Int /\ Ticks \in Nat \ {0} /\ Horizon \in Nat
    BY DEF TraceConstants
  <2>5. line[b].centre \in Nat /\ line[b].centre + Ticks <= Horizon
    BY <2>2, <2>3, <2>4
  <2>6. Later(line[b].centre) = c + m
    BY <2>2, <2>3, <2>4, <2>5, LaterAge
  <2>7. AgedLine(line)[b] = Aged(line[b])
    BY <2>1 DEF AgedLine
  <2> QED BY <2>6, <2>7 DEF Aged, b, m
<1> HIDE DEF AgedLine
<1> QED BY <1>1 DEF Follows

\* Ages stay ages.
LEMMA AgedLineType ==
  ASSUME TraceConstants, NEW n \in Nat \ {0}, NEW line \in [0..n - 1 -> Traces]
  PROVE  AgedLine(line) \in [0..n - 1 -> Traces]
BY AgedType DEF AgedLine

\* How far back the lines reach, a sample after they reached back B; Unclear, they are clear.
LaterReach(B) == IF B = Unclear THEN 0 ELSE B + Ticks

\* What reached back B reaches back a sample further, if it is of an input at all.
LEMMA WithinAges ==
  ASSUME TraceConstants, NEW n \in Nat \ {0}, NEW line \in [0..n - 1 -> Traces], NEW B \in Int,
         B >= Unclear, Within(line, n, B)
  PROVE  Within(AgedLine(line), n, LaterReach(B))
<1>1. ASSUME NEW k \in 0..n - 1 PROVE AgedLine(line)[k].reach <= LaterReach(B)
  <2>1. line[k].reach \in Ages /\ line[k].reach <= B
    BY DEF Traces, Within
  <2>2. AgedLine(line)[k].reach = Later(line[k].reach)
    BY DEF AgedLine, Aged
  <2>3. Later(line[k].reach) <= LaterReach(B)
    BY <2>1 DEF Later, LaterReach, Ages, Unclear, TraceConstants
  <2> QED BY <2>2, <2>3
<1> QED BY <1>1 DEF Within

Cascades(N) == [up : [1..N -> UpStages], down : [1..N -> DownStages]]

\* Between two samples, r of them after the lines were cleared; and in the next, before it is heard.
Tracks(os, N, r) ==
  \A s \in 1..N : /\ UpKnows(os.up[s], UpCount(s, r), UpDue(s) - Ticks, Gap(s + 1))
                  /\ DownKnows(os.down[s], DownCount(N, s, r), DownDue(N, s) - Ticks, Gap(s + 1))

Awaits(os, N, r) ==
  \A s \in 1..N : /\ UpKnows(os.up[s], UpCount(s, r), UpDue(s), Gap(s + 1))
                  /\ DownKnows(os.down[s], DownCount(N, s, r), DownDue(N, s), Gap(s + 1))

Remembers(os, N, B) == \A s \in 1..N : UpWithin(os.up[s], B) /\ DownWithin(os.down[s], B)

\* Every line of the cascade ages, and nothing else changes.
LEMMA CascadeAgesForm ==
  ASSUME NEW N \in Nat, CascadeConstants, NEW os \in Cascades(N)
  PROVE  /\ OversamplerAged(os) \in Cascades(N)
         /\ \A s \in 1..N : LET u == OversamplerAged(os).up[s]
                                d == OversamplerAged(os).down[s]
                            IN  /\ u.line = AgedLine(os.up[s].line) /\ u.pos = os.up[s].pos
                                /\ d.even = AgedLine(os.down[s].even) /\ d.posE = os.down[s].posE
                                /\ d.odd = AgedLine(os.down[s].odd) /\ d.posO = os.down[s].posO
<1>1. TraceConstants /\ EvenCount \in Nat \ {0} /\ OddLineSize \in Nat \ {0}
  BY CentreTap DEF CascadeConstants
<1>2. ASSUME NEW s \in 1..N
      PROVE  LET u == OversamplerAged(os).up[s]
                 d == OversamplerAged(os).down[s]
             IN  /\ u = [line |-> AgedLine(os.up[s].line), pos |-> os.up[s].pos]
                 /\ d = [even |-> AgedLine(os.down[s].even), posE |-> os.down[s].posE,
                         odd |-> AgedLine(os.down[s].odd), posO |-> os.down[s].posO]
                 /\ u \in UpStages /\ d \in DownStages
  <2>1. os.up[s] \in UpStages /\ os.down[s] \in DownStages
    BY DEF Cascades
  <2>2. OversamplerAged(os).up[s] = [line |-> AgedLine(os.up[s].line), pos |-> os.up[s].pos]
    BY <2>1 DEF OversamplerAged, Cascades, UpStages, AgedLine
  <2>3. OversamplerAged(os).down[s]
          = [even |-> AgedLine(os.down[s].even), posE |-> os.down[s].posE,
             odd |-> AgedLine(os.down[s].odd), posO |-> os.down[s].posO]
    BY <2>1 DEF OversamplerAged, Cascades, DownStages, AgedLine
  <2>4. AgedLine(os.up[s].line) \in [0..EvenCount - 1 -> Traces] /\ os.up[s].pos \in 0..EvenCount - 1
    BY <1>1, <2>1, AgedLineType DEF UpStages
  <2>5. /\ AgedLine(os.down[s].even) \in [0..EvenCount - 1 -> Traces]
        /\ AgedLine(os.down[s].odd) \in [0..OddLineSize - 1 -> Traces]
        /\ os.down[s].posE \in 0..EvenCount - 1 /\ os.down[s].posO \in 0..OddLineSize - 1
    BY <1>1, <2>1, AgedLineType DEF DownStages
  <2> QED BY <2>2, <2>3, <2>4, <2>5 DEF UpStages, DownStages
<1>3. OversamplerAged(os) \in Cascades(N)
  <2>1. OversamplerAged(os) = [up |-> OversamplerAged(os).up, down |-> OversamplerAged(os).down]
        /\ OversamplerAged(os).up = [s \in 1..N |-> OversamplerAged(os).up[s]]
        /\ OversamplerAged(os).down = [s \in 1..N |-> OversamplerAged(os).down[s]]
    BY DEF OversamplerAged, Cascades
  <2>2. OversamplerAged(os).up \in [1..N -> UpStages]
    BY <1>2, <2>1
  <2>3. OversamplerAged(os).down \in [1..N -> DownStages]
    BY <1>2, <2>1
  <2> QED BY <2>1, <2>2, <2>3 DEF Cascades
<1>4. ASSUME NEW s \in 1..N
      PROVE  LET u == OversamplerAged(os).up[s]
                 d == OversamplerAged(os).down[s]
             IN  /\ u.line = AgedLine(os.up[s].line) /\ u.pos = os.up[s].pos
                 /\ d.even = AgedLine(os.down[s].even) /\ d.posE = os.down[s].posE
                 /\ d.odd = AgedLine(os.down[s].odd) /\ d.posO = os.down[s].posO
  <2> DEFINE u == OversamplerAged(os).up[s]
             d == OversamplerAged(os).down[s]
  <2>1. /\ u = [line |-> AgedLine(os.up[s].line), pos |-> os.up[s].pos]
        /\ d = [even |-> AgedLine(os.down[s].even), posE |-> os.down[s].posE,
                odd |-> AgedLine(os.down[s].odd), posO |-> os.down[s].posO]
    BY <1>2, Zenon
  <2> HIDE DEF u, d
  <2>2. /\ u.line = AgedLine(os.up[s].line) /\ u.pos = os.up[s].pos
        /\ d.even = AgedLine(os.down[s].even) /\ d.posE = os.down[s].posE
        /\ d.odd = AgedLine(os.down[s].odd) /\ d.posO = os.down[s].posO
    BY <2>1
  <2> QED BY <2>2 DEF u, d
<1> QED BY <1>3, <1>4

\* Between two samples and in the next one, the cascade knows the same.
LEMMA CascadeAges ==
  ASSUME NEW N \in Nat, CascadeOf(N), NEW os \in Cascades(N), NEW r \in Nat, Tracks(os, N, r)
  PROVE  Awaits(OversamplerAged(os), N, r)
<1>1. /\ CascadeConstants /\ TraceConstants /\ EvenCount \in Nat \ {0} /\ OddLineSize \in Nat \ {0}
      /\ OddLineSize <= EvenCount /\ EvenCount = Center + 1 /\ Ticks \in Nat
  BY CentreTap DEF CascadeOf, CascadeConstants, TraceConstants
<1>2. ASSUME NEW s \in 1..N
      PROVE  /\ UpKnows(OversamplerAged(os).up[s], UpCount(s, r), UpDue(s), Gap(s + 1))
             /\ DownKnows(OversamplerAged(os).down[s], DownCount(N, s, r), DownDue(N, s), Gap(s + 1))
  <2> DEFINE u == os.up[s]
             d == os.down[s]
             h == Gap(s + 1)
             a == UpDue(s)
             b == DownDue(N, s)
             K == UpCount(s, r)
             P == DownCount(N, s, r)
  <2>1. h \in Nat /\ 2 * h \in Nat /\ 2 * h = Gap(s)
    BY GapsHalve
  <2>2. a \in Nat /\ K \in Int /\ a - Ticks + 2 * h >= 0
    BY <2>1, UpTimes
  <2>3. b \in Nat /\ P \in Int /\ b - Ticks + h >= 0
    BY DownTimes, DownDues
  <2>4. a + EvenCount * (2 * h) <= Horizon /\ b + EvenCount * (2 * h) <= Horizon
    BY <1>1, <2>1, DownDues
  <2>5. UpKnows(u, K, a - Ticks, h) /\ DownKnows(d, P, b - Ticks, h)
    BY DEF Tracks
  <2>6. u.line \in [0..EvenCount - 1 -> Traces] /\ u.pos \in 0..EvenCount - 1
        /\ d.even \in [0..EvenCount - 1 -> Traces] /\ d.posE \in 0..EvenCount - 1
        /\ d.odd \in [0..OddLineSize - 1 -> Traces] /\ d.posO \in 0..OddLineSize - 1
    BY DEF Cascades, UpStages, DownStages
  <2> HIDE DEF u, d, h, a, b, K, P
  <2>7. Follows(AgedLine(u.line), u.pos, EvenCount, K, a, 2 * h)
    <3>1. Follows(u.line, u.pos, EvenCount, K, a - Ticks, 2 * h) /\ a \in Int
      BY <2>2, <2>5 DEF UpKnows
    <3> QED BY <1>1, <2>1, <2>2, <2>4, <2>6, <3>1, FollowsAges, Zenon
  <2>8. Follows(AgedLine(d.even), d.posE, EvenCount, P, b, 2 * h)
    <3>1. b - Ticks + 2 * h >= 0 /\ b \in Int
      BY <1>1, <2>1, <2>3
    <3> QED BY <1>1, <2>1, <2>3, <2>4, <2>5, <2>6, <3>1, FollowsAges DEF DownKnows
  <2>9. Follows(AgedLine(d.odd), d.posO, OddLineSize, P, b - h, 2 * h)
    <3> DEFINE e == b - h
    <3>1. e - Ticks + 2 * h >= 0 /\ e \in Int
      BY <1>1, <2>1, <2>3
    <3>2. e + OddLineSize * (2 * h) <= Horizon
      <4>1. OddLineSize * (2 * h) <= EvenCount * (2 * h) /\ OddLineSize * (2 * h) \in Nat
            /\ EvenCount * (2 * h) \in Nat
        BY <1>1, <2>1, ProductGrows
      <4> QED BY <1>1, <2>1, <2>3, <2>4, <4>1 DEF TraceConstants
    <3>3. Follows(d.odd, d.posO, OddLineSize, P, e - Ticks, 2 * h)
      <4>1. (b - Ticks) - h = e - Ticks
        BY <1>1, <2>1, <2>3
      <4> HIDE DEF e
      <4> QED BY <2>5, <4>1 DEF DownKnows
    <3> HIDE DEF e
    <3>4. Follows(AgedLine(d.odd), d.posO, OddLineSize, P, e, 2 * h)
      BY <1>1, <2>1, <2>3, <2>6, <3>1, <3>2, <3>3, FollowsAges
    <3> QED BY <3>4 DEF e
  <2>10. /\ OversamplerAged(os).up[s].line = AgedLine(u.line) /\ OversamplerAged(os).up[s].pos = u.pos
         /\ OversamplerAged(os).down[s].even = AgedLine(d.even)
         /\ OversamplerAged(os).down[s].posE = d.posE
         /\ OversamplerAged(os).down[s].odd = AgedLine(d.odd)
         /\ OversamplerAged(os).down[s].posO = d.posO
    BY <1>1, CascadeAgesForm DEF u, d
  <2>11. UpKnows(OversamplerAged(os).up[s], K, a, h)
    BY <2>7, <2>10, Zenon DEF UpKnows
  <2>12. DownKnows(OversamplerAged(os).down[s], P, b, h)
    BY <2>8, <2>9, <2>10, Zenon DEF DownKnows
  <2> QED BY <2>11, <2>12 DEF K, P, a, b, h
<1> QED BY <1>2 DEF Awaits

\* How far back the lines of a cascade reach, a sample later.
LEMMA CascadeForgets ==
  ASSUME NEW N \in Nat, CascadeConstants, NEW os \in Cascades(N), NEW B \in Int, B >= Unclear,
         Remembers(os, N, B)
  PROVE  Remembers(OversamplerAged(os), N, LaterReach(B))
<1>1. TraceConstants /\ EvenCount \in Nat \ {0} /\ OddLineSize \in Nat \ {0}
  BY CentreTap DEF CascadeConstants
<1>2. ASSUME NEW s \in 1..N
      PROVE  /\ UpWithin(OversamplerAged(os).up[s], LaterReach(B))
             /\ DownWithin(OversamplerAged(os).down[s], LaterReach(B))
  <2>1. /\ OversamplerAged(os).up[s].line = AgedLine(os.up[s].line)
        /\ OversamplerAged(os).down[s].even = AgedLine(os.down[s].even)
        /\ OversamplerAged(os).down[s].odd = AgedLine(os.down[s].odd)
    BY CascadeAgesForm
  <2>2. /\ os.up[s].line \in [0..EvenCount - 1 -> Traces]
        /\ os.down[s].even \in [0..EvenCount - 1 -> Traces]
        /\ os.down[s].odd \in [0..OddLineSize - 1 -> Traces]
    BY DEF Cascades, UpStages, DownStages
  <2>3. /\ Within(os.up[s].line, EvenCount, B) /\ Within(os.down[s].even, EvenCount, B)
        /\ Within(os.down[s].odd, OddLineSize, B)
    BY DEF Remembers, UpWithin, DownWithin
  <2>4. Within(AgedLine(os.up[s].line), EvenCount, LaterReach(B))
    BY <1>1, <2>2, <2>3, WithinAges
  <2>5. Within(AgedLine(os.down[s].even), EvenCount, LaterReach(B))
    BY <1>1, <2>2, <2>3, WithinAges
  <2>6. Within(AgedLine(os.down[s].odd), OddLineSize, LaterReach(B))
    BY <1>1, <2>2, <2>3, WithinAges
  <2> QED BY <2>1, <2>4, <2>5, <2>6 DEF UpWithin, DownWithin
<1> QED BY <1>2 DEF Remembers

-----------------------------------------------------------------------------
(* One sample through the cascade                                          *)

\* The even and the odd phase of a stream, two by two.
LEMMA PairsType ==
  ASSUME NEW s \in Seq(Traces)
  PROVE  /\ Pairs(s) \in Seq(Traces \X Traces) /\ Len(Pairs(s)) = Len(s) \div 2
         /\ \A k \in 1..Len(Pairs(s)) : /\ 2 * k - 1 \in 1..Len(s) /\ 2 * k \in 1..Len(s)
                                        /\ Pairs(s)[k] = <<s[2 * k - 1], s[2 * k]>>
<1> DEFINE m == Len(s) \div 2
<1>1. m \in Nat /\ 2 * m <= Len(s)
  OBVIOUS
<1>2. Pairs(s) = [k \in 1..m |-> <<s[2 * k - 1], s[2 * k]>>]
  BY DEF Pairs
<1> HIDE DEF m
<1>3. \A k \in 1..m : 2 * k - 1 \in 1..Len(s) /\ 2 * k \in 1..Len(s)
  BY <1>1
<1>4. Pairs(s) \in [1..m -> Traces \X Traces]
  BY <1>2, <1>3
<1>5. Pairs(s) \in Seq(Traces \X Traces) /\ Len(Pairs(s)) = m
  BY <1>1, <1>4
<1> QED BY <1>2, <1>3, <1>5 DEF m

\* Pairs of an evenly spaced stream are evenly spaced.
LEMMA PairsFits ==
  ASSUME NEW s \in Seq(Traces), NEW K \in Int, NEW c \in Int, NEW h \in Nat, Fits(s, K, c, h),
         NEW P \in Int, 2 * P <= K
  PROVE  PairsFit(Pairs(s), P, c, h)
<1>1. ASSUME NEW k \in 1..Len(Pairs(s)), P + k >= 1
      PROVE  /\ Pairs(s)[k][1].centre = c - (k - 1) * (2 * h)
             /\ Pairs(s)[k][2].centre = c - h - (k - 1) * (2 * h)
  <2>1. /\ 2 * k - 1 \in 1..Len(s) /\ 2 * k \in 1..Len(s)
        /\ Pairs(s)[k][1] = s[2 * k - 1] /\ Pairs(s)[k][2] = s[2 * k]
    BY PairsType, SMTT(30)
  <2>2. k \in Int
    BY PairsType
  <2>3. K + (2 * k - 1) >= 1 /\ K + 2 * k >= 1
    BY <1>1, <2>2
  <2>4. s[2 * k - 1].centre = c - ((2 * k - 1) - 1) * h /\ s[2 * k].centre = c - (2 * k - 1) * h
    BY <2>1, <2>3 DEF Fits
  <2>5. ((2 * k - 1) - 1) * h = (k - 1) * (2 * h) /\ (2 * k - 1) * h = h + (k - 1) * (2 * h)
    BY <2>2
  <2>6. (k - 1) * (2 * h) \in Int
    BY <2>2
  <2> QED BY <2>1, <2>4, <2>5, <2>6
<1> QED BY <1>1 DEF PairsFit

\* And reach back no further.
LEMMA PairsWithin ==
  ASSUME NEW s \in Seq(Traces), NEW B \in Int, Reaches(s, B)
  PROVE  PairsReach(Pairs(s), B)
<1>1. ASSUME NEW k \in 1..Len(Pairs(s))
      PROVE  Pairs(s)[k][1].reach <= B /\ Pairs(s)[k][2].reach <= B
  <2>1. /\ 2 * k - 1 \in 1..Len(s) /\ 2 * k \in 1..Len(s)
        /\ Pairs(s)[k] = <<s[2 * k - 1], s[2 * k]>>
    BY PairsType
  <2>2. s[2 * k - 1].reach <= B /\ s[2 * k].reach <= B
    BY <2>1 DEF Reaches
  <2> QED BY <2>1, <2>2
<1> QED BY <1>1 DEF PairsReach

CascadeRuns(N) == [os : Cascades(N), out : Seq(Traces)]

\* A turn up keeps the stage's types, whatever it is given.
LEMMA RaisedType ==
  ASSUME CascadeConstants, NEW stage \in UpStages, NEW s \in Seq(Traces)
  PROVE  Raised(stage, s) \in UpRuns
<1>1. \A run \in UpRuns, x \in Traces : UpStep(run, x) \in UpRuns
  BY UpStepForm
<1>2. PICK f \in [0..Len(s) -> UpRuns] : Raised(stage, s) = f[Len(s)]
  BY <1>1, RaisedInTurns
<1> QED BY <1>2

\* And so does a turn down.
LEMMA LoweredType ==
  ASSUME CascadeConstants, NEW stage \in DownStages, NEW s \in Seq(Traces \X Traces)
  PROVE  Lowered(stage, s) \in DownRuns
<1>1. \A run \in DownRuns, x \in Traces \X Traces : DownStep(run, x) \in DownRuns
  BY DownStepForm
<1>2. PICK f \in [0..Len(s) -> DownRuns] : Lowered(stage, s) = f[Len(s)]
  BY <1>1, LoweredInTurns
<1> QED BY <1>2

\* A turn up changes its own stage only.
LEMMA UpsampledForm ==
  ASSUME CascadeConstants, NEW N \in Nat, NEW run \in CascadeRuns(N), NEW s \in 1..N
  PROVE  LET r == Raised(run.os.up[s], run.out)
             y == Upsampled(run, s)
         IN  /\ y \in CascadeRuns(N) /\ y.out = r.out
             /\ y.os.up = [run.os.up EXCEPT ![s] = r.stage] /\ y.os.down = run.os.down
<1> DEFINE r == Raised(run.os.up[s], run.out)
<1>1. run.os \in Cascades(N) /\ run.out \in Seq(Traces) /\ run.os.up[s] \in UpStages
  BY DEF CascadeRuns, Cascades
<1>2. r \in UpRuns
  BY <1>1, RaisedType
<1>3. Upsampled(run, s) = [os |-> [run.os EXCEPT !.up[s] = r.stage], out |-> r.out]
  BY DEF Upsampled
<1> HIDE DEF r
<1> DEFINE o == run.os
           up == [o.up EXCEPT ![s] = r.stage]
<1>4. [o EXCEPT !.up[s] = r.stage] = [up |-> up, down |-> o.down]
  <2> DEFINE p == o.up
             q == o.down
             v == r.stage
  <2>1. o = [up |-> p, down |-> q]
    BY <1>1 DEF Cascades
  <2> HIDE DEF o, p, q, v
  <2>2. [[up |-> p, down |-> q] EXCEPT !.up[s] = v] = [up |-> [p EXCEPT ![s] = v], down |-> q]
    OBVIOUS
  <2>3. [o EXCEPT !.up[s] = v] = [up |-> [p EXCEPT ![s] = v], down |-> q]
    BY <2>1, <2>2
  <2> QED BY <2>3 DEF p, q, v
<1>5. up \in [1..N -> UpStages] /\ o.down \in [1..N -> DownStages]
  BY <1>1, <1>2 DEF Cascades, UpRuns
<1>6. r.out \in Seq(Traces)
  BY <1>2 DEF UpRuns
<1>7. Upsampled(run, s) \in CascadeRuns(N)
  <2> HIDE DEF up, o
  <2>1. Upsampled(run, s) = [os |-> [up |-> up, down |-> o.down], out |-> r.out]
    BY <1>3, <1>4 DEF o
  <2>2. [up |-> up, down |-> o.down] \in Cascades(N)
    BY <1>5 DEF Cascades
  <2> QED BY <1>6, <2>1, <2>2 DEF CascadeRuns
<1> QED BY <1>3, <1>4, <1>7 DEF r

\* And so does a turn down.
LEMMA DownsampledForm ==
  ASSUME CascadeConstants, NEW N \in Nat, NEW run \in CascadeRuns(N), NEW s \in 1..N
  PROVE  LET r == Lowered(run.os.down[s], Pairs(run.out))
             y == Downsampled(run, s)
         IN  /\ y \in CascadeRuns(N) /\ y.out = r.out
             /\ y.os.down = [run.os.down EXCEPT ![s] = r.stage] /\ y.os.up = run.os.up
<1> DEFINE r == Lowered(run.os.down[s], Pairs(run.out))
<1>1. run.os \in Cascades(N) /\ run.out \in Seq(Traces) /\ run.os.down[s] \in DownStages
  BY DEF CascadeRuns, Cascades
<1>2. r \in DownRuns
  BY <1>1, LoweredType, PairsType
<1>3. Downsampled(run, s) = [os |-> [run.os EXCEPT !.down[s] = r.stage], out |-> r.out]
  BY DEF Downsampled
<1> HIDE DEF r
<1> DEFINE o == run.os
           down == [o.down EXCEPT ![s] = r.stage]
<1>4. [o EXCEPT !.down[s] = r.stage] = [up |-> o.up, down |-> down]
  <2> DEFINE p == o.up
             q == o.down
             v == r.stage
  <2>1. o = [up |-> p, down |-> q]
    BY <1>1 DEF Cascades
  <2> HIDE DEF o, p, q, v
  <2>2. [[up |-> p, down |-> q] EXCEPT !.down[s] = v] = [up |-> p, down |-> [q EXCEPT ![s] = v]]
    OBVIOUS
  <2>3. [o EXCEPT !.down[s] = v] = [up |-> p, down |-> [q EXCEPT ![s] = v]]
    BY <2>1, <2>2
  <2> QED BY <2>3 DEF p, q, v
<1>5. down \in [1..N -> DownStages] /\ o.up \in [1..N -> UpStages]
  BY <1>1, <1>2 DEF Cascades, DownRuns
<1>6. r.out \in Seq(Traces)
  BY <1>2 DEF DownRuns
<1>7. Downsampled(run, s) \in CascadeRuns(N)
  <2> HIDE DEF down, o
  <2>1. Downsampled(run, s) = [os |-> [up |-> o.up, down |-> down], out |-> r.out]
    BY <1>3, <1>4 DEF o
  <2>2. [up |-> o.up, down |-> down] \in Cascades(N)
    BY <1>5 DEF Cascades
  <2> QED BY <1>6, <2>1, <2>2 DEF CascadeRuns
<1> QED BY <1>3, <1>4, <1>7 DEF r

\* The recursion over the stages: up in order, down in the opposite order.
LEMMA CascadeInTurns ==
  ASSUME CascadeConstants, NEW N \in Nat \ {0}, NEW os \in Cascades(N), NEW x \in Traces
  PROVE  \E up \in [0..N -> CascadeRuns(N)], down \in [0..N -> CascadeRuns(N)] :
            /\ up[0] = [os |-> os, out |-> <<x>>]
            /\ \A s \in 1..N : up[s] = Upsampled(up[s - 1], s)
            /\ down[0] = up[N]
            /\ \A n \in 1..N : down[n] = Downsampled(down[n - 1], N + 1 - n)
            /\ Oversampled(os, x) = down[N]
<1> DEFINE R == CascadeRuns(N)
           start == [os |-> os, out |-> <<x>>]
           IsUp(a) == a = [s \in 0..N |-> IF s = 0 THEN start ELSE Upsampled(a[s - 1], s)]
           up == CHOOSE a : IsUp(a)
           top == up[N]
           IsDown(a) == a = [n \in 0..N |-> IF n = 0 THEN top ELSE Downsampled(a[n - 1], N + 1 - n)]
           down == CHOOSE a : IsDown(a)
           UpTurn == [p \in R \X (1..N) |-> Upsampled(p[1], p[2])]
           DownTurn == [p \in R \X (1..N) |-> Downsampled(p[1], N + 1 - p[2])]
<1>1. start \in R
  BY DEF CascadeRuns
<1>2. Len(os.up) = N
  <2>1. os.up \in [1..N -> UpStages]
    BY DEF Cascades
  <2>2. os.up \in Seq(UpStages) /\ Len(os.up) = N
    BY <2>1
  <2> QED BY <2>2
<1>3. Oversampled(os, x) = down[N]
  BY <1>2 DEF Oversampled
<1>4. /\ \A r \in R, s \in 1..N : Upsampled(r, s) \in R
      /\ \A r \in R, n \in 1..N : N + 1 - n \in 1..N /\ Downsampled(r, N + 1 - n) \in R
  <2>1. N \in Nat /\ \A n \in 1..N : N + 1 - n \in 1..N
    OBVIOUS
  <2>2. \A r \in R, s \in 1..N : Upsampled(r, s) \in R
    BY <2>1, UpsampledForm
  <2>3. \A r \in R, s \in 1..N : Downsampled(r, s) \in R
    BY <2>1, DownsampledForm
  <2> HIDE DEF R
  <2> QED BY <2>1, <2>2, <2>3
<1>5. UpTurn \in [R \X (1..N) -> R] /\ \A r \in R, s \in 1..N : UpTurn[<<r, s>>] = Upsampled(r, s)
  BY <1>4
<1>6. /\ DownTurn \in [R \X (1..N) -> R]
      /\ \A r \in R, n \in 1..N : DownTurn[<<r, n>>] = Downsampled(r, N + 1 - n)
  BY <1>4
<1> HIDE DEF UpTurn, DownTurn, start, R
<1>7. \A s \in 0..N : s = 0 \/ (s # 0 /\ s \in 1..N /\ s - 1 \in 0..N)
  OBVIOUS
<1>8. up \in [0..N -> R] /\ up[0] = start /\ \A s \in 1..N : up[s] = Upsampled(up[s - 1], s)
  <2>1. PICK f : IsMade(f, R, start, N, UpTurn)
    <3>1. N \in Nat
      OBVIOUS
    <3> HIDE DEF up, down, IsUp, IsDown
    <3> QED BY <3>1, <1>1, <1>5, TurnsExist, Zenon
  <2>2. f \in [0..N -> R] /\ f[0] = start /\ \A n \in 1..N : f[n] = UpTurn[<<f[n - 1], n>>]
    BY <2>1 DEF IsMade
  <2>3. ASSUME NEW s \in 0..N PROVE f[s] = IF s = 0 THEN start ELSE Upsampled(f[s - 1], s)
    <3>1. CASE s = 0
      BY <2>2, <3>1
    <3>2. CASE s # 0
      BY <1>5, <1>7, <2>2, <3>2
    <3> QED BY <3>1, <3>2
  <2>4. IsUp(f)
    BY <2>2, <2>3
  <2>5. IsUp(up)
    <3> HIDE DEF IsUp
    <3> QED BY <2>4, Zenon
  <2>6. up = [s \in 0..N |-> IF s = 0 THEN start ELSE Upsampled(up[s - 1], s)]
    BY <2>5
  <2> HIDE DEF up
  <2>7. up[0] = start /\ \A s \in 1..N : up[s] = Upsampled(up[s - 1], s)
    BY <2>6
  <2> DEFINE S == {s \in 0..N : up[s] \in R}
  <2>8. 0..N \subseteq S
    <3>1. 0 \in S
      BY <1>1, <2>7
    <3>2. \A s \in 1..N : s - 1 \in S => s \in S
      BY <1>4, <2>7
    <3>3. N \in Nat
      OBVIOUS
    <3> HIDE DEF S
    <3> QED BY <3>1, <3>2, <3>3, RangeInduction, Zenon
  <2>9. \A s \in 0..N : up[s] \in R
    BY <2>8
  <2>10. up \in [0..N -> R]
    BY <2>6, <2>9
  <2> QED BY <2>7, <2>10
<1>9. top \in R
  <2> HIDE DEF up
  <2> QED BY <1>8
<1> HIDE DEF up
<1>10. down \in [0..N -> R] /\ down[0] = top
       /\ \A n \in 1..N : down[n] = Downsampled(down[n - 1], N + 1 - n)
  <2> HIDE DEF top
  <2>1. PICK f : IsMade(f, R, top, N, DownTurn)
    <3>1. N \in Nat
      OBVIOUS
    <3> HIDE DEF down, IsDown
    <3> QED BY <3>1, <1>9, <1>6, TurnsExist, Zenon
  <2>2. f \in [0..N -> R] /\ f[0] = top /\ \A n \in 1..N : f[n] = DownTurn[<<f[n - 1], n>>]
    BY <2>1 DEF IsMade
  <2>3. ASSUME NEW n \in 0..N PROVE f[n] = IF n = 0 THEN top ELSE Downsampled(f[n - 1], N + 1 - n)
    <3>1. CASE n = 0
      BY <2>2, <3>1
    <3>2. CASE n # 0
      BY <1>6, <1>7, <2>2, <3>2
    <3> QED BY <3>1, <3>2
  <2>4. IsDown(f)
    BY <2>2, <2>3
  <2>5. IsDown(down)
    <3> HIDE DEF IsDown
    <3> QED BY <2>4, Zenon
  <2>6. down = [n \in 0..N |-> IF n = 0 THEN top ELSE Downsampled(down[n - 1], N + 1 - n)]
    BY <2>5
  <2> HIDE DEF down
  <2>7. down[0] = top /\ \A n \in 1..N : down[n] = Downsampled(down[n - 1], N + 1 - n)
    BY <2>6
  <2> DEFINE S == {s \in 0..N : down[s] \in R}
  <2>8. 0..N \subseteq S
    <3>1. 0 \in S
      BY <1>9, <2>7
    <3>2. \A s \in 1..N : s - 1 \in S => s \in S
      BY <1>4, <2>7
    <3>3. N \in Nat
      OBVIOUS
    <3> HIDE DEF S
    <3> QED BY <3>1, <3>2, <3>3, RangeInduction, Zenon
  <2>9. \A s \in 0..N : down[s] \in R
    BY <2>8
  <2>10. down \in [0..N -> R]
    BY <2>6, <2>9
  <2> QED BY <2>7, <2>10
<1> HIDE DEF down
<1> QED BY <1>3, <1>8, <1>10, Zenon DEF R, start

\* A base-rate sample through stage s up, the r-th since the cascade was cleared.
LEMMA UpTurnKnows ==
  ASSUME NEW N \in Nat, CascadeOf(N), NEW s \in 1..N, NEW r \in Nat, NEW stage \in UpStages,
         UpKnows(stage, UpCount(s, r), UpDue(s), Gap(s + 1)), NEW out \in Seq(Traces),
         Len(out) = Width(s), Fits(out, UpCount(s, r), UpDue(s), Gap(s))
  PROVE  LET y == Raised(stage, out) IN
         /\ UpKnows(y.stage, UpCount(s, r + 1), UpDue(s) - Ticks, Gap(s + 1))
         /\ Len(y.out) = Width(s + 1) /\ Fits(y.out, UpCount(s + 1, r), UpDue(s + 1), Gap(s + 1))
<1> DEFINE h == Gap(s + 1)
           c == UpDue(s)
           K == UpCount(s, r)
           y == Raised(stage, out)
<1>1. CascadeConstants /\ Ticks \in Nat /\ Center \in Nat
  BY CentreTap DEF CascadeOf, CascadeConstants, TraceConstants
<1>2. /\ Gap(s) = 2 * h /\ Gap(s) \in Nat /\ h \in Nat /\ Width(s) * Gap(s) = Ticks
      /\ Width(s) \in Nat \ {0} /\ Width(s + 1) = 2 * Width(s) /\ (Width(s) - 1) * Gap(s) = Ticks - Gap(s)
  BY GapsHalve
<1>3. /\ K \in Int /\ UpCount(s + 1, r) = 2 * K - 2 * Center + 1 /\ UpCount(s, r + 1) = K + Width(s)
      /\ c \in Int /\ UpDue(s + 1) = c + Center * h /\ c - Ticks + Gap(s) >= 0
  BY UpTimes
<1>4. UpKnows(stage, K, c, h) /\ Fits(out, K, c, 2 * h)
  BY <1>2
<1> HIDE DEF h, c, K
<1>5. ASSUME NEW i \in 1..Len(out) PROVE c - (i - 1) * (2 * h) >= 0
  <2>1. i - 1 \in Nat /\ Width(s) - 1 \in Nat /\ i - 1 <= Width(s) - 1
    BY <1>2
  <2>2. (i - 1) * Gap(s) <= (Width(s) - 1) * Gap(s) /\ (i - 1) * Gap(s) \in Nat
    BY <1>2, <2>1, ProductGrows
  <2> QED BY <1>1, <1>2, <1>3, <2>2
<1>6. /\ Len(y.out) = 2 * Len(out)
      /\ UpKnows(y.stage, K + Len(out), c - Len(out) * (2 * h), h)
      /\ Fits(y.out, 2 * K - 2 * Center + 1, c + Center * h, h)
  BY <1>1, <1>2, <1>3, <1>4, <1>5, RaisedKnows, Zenon
<1> HIDE DEF y
<1>7. Len(out) * (2 * h) = Ticks
  BY <1>2
<1>8. UpKnows(y.stage, UpCount(s, r + 1), c - Ticks, h)
  BY <1>3, <1>6, <1>7
<1>9. Len(y.out) = Width(s + 1) /\ Fits(y.out, UpCount(s + 1, r), UpDue(s + 1), h)
  BY <1>2, <1>3, <1>6
<1> QED BY <1>8, <1>9 DEF y, h, c

\* And through stage s down.
LEMMA DownTurnKnows ==
  ASSUME NEW N \in Nat, CascadeOf(N), NEW s \in 1..N, NEW r \in Nat, NEW stage \in DownStages,
         DownKnows(stage, DownCount(N, s, r), DownDue(N, s), Gap(s + 1)), NEW out \in Seq(Traces),
         Len(out) = Width(s + 1), Fits(out, InCount(N, s, r), DownDue(N, s), Gap(s + 1))
  PROVE  LET y == Lowered(stage, Pairs(out)) IN
         /\ DownKnows(y.stage, DownCount(N, s, r + 1), DownDue(N, s) - Ticks, Gap(s + 1))
         /\ Len(y.out) = Width(s) /\ Fits(y.out, InCount(N, s - 1, r), DownDue(N, s - 1), Gap(s))
<1> DEFINE h == Gap(s + 1)
           c == DownDue(N, s)
           P == DownCount(N, s, r)
           pairs == Pairs(out)
           y == Lowered(stage, pairs)
<1>1. CascadeConstants /\ Ticks \in Nat /\ Center \in Nat
  BY CentreTap DEF CascadeOf, CascadeConstants, TraceConstants
<1>2. /\ Gap(s) = 2 * h /\ Gap(s) \in Nat /\ h \in Nat /\ Width(s) * Gap(s) = Ticks
      /\ Width(s) \in Nat \ {0} /\ Width(s + 1) = 2 * Width(s) /\ (Width(s) - 1) * Gap(s) = Ticks - Gap(s)
  BY GapsHalve
<1>3. /\ P \in Int /\ InCount(N, s, r) \in Int /\ 2 * P <= InCount(N, s, r)
      /\ DownCount(N, s, r + 1) = P + Width(s)
  BY DownTimes
<1>4. c \in Int /\ c - Ticks + h >= 0
  BY DownDues
<1>5. DownDue(N, s - 1) = c + Center * h
  <2>1. UpDue(s + 1) = UpDue(s) + Center * h /\ UpDue(s) \in Nat /\ UpDue(s + 1) \in Nat
    BY UpTimes
  <2>2. UpDue(N + 1) \in Nat /\ (s - 1) + 1 = s /\ Center * h \in Int
    <3>1. N \in 1..N
      BY DEF CascadeOf
    <3>2. UpDue(N + 1) \in Nat
      BY <3>1, UpTimes
    <3> HIDE DEF h
    <3>3. Center * h \in Int
      BY <1>1, <1>2
    <3>4. (s - 1) + 1 = s
      OBVIOUS
    <3> QED BY <3>2, <3>3, <3>4
  <2> HIDE DEF h
  <2> QED BY <2>1, <2>2 DEF DownDue
<1>6. InCount(N, s - 1, r) = P - Center
  BY DEF InCount
<1>7. pairs \in Seq(Traces \X Traces) /\ Len(pairs) = Width(s)
  <2>1. pairs \in Seq(Traces \X Traces) /\ Len(pairs) = Len(out) \div 2
    BY PairsType
  <2> QED BY <1>2, <2>1
<1>8. PairsFit(pairs, P, c, h)
  BY <1>2, <1>3, <1>4, PairsFits
<1>9. DownKnows(stage, P, c, h)
  OBVIOUS
<1> HIDE DEF h, c, P, pairs
<1>10. ASSUME NEW i \in 1..Len(pairs) PROVE c - (i - 1) * (2 * h) >= 0
  <2>1. i - 1 \in Nat /\ Width(s) - 1 \in Nat /\ i - 1 <= Width(s) - 1
    BY <1>2, <1>7
  <2>2. (i - 1) * Gap(s) <= (Width(s) - 1) * Gap(s) /\ (i - 1) * Gap(s) \in Nat
    BY <1>2, <2>1, ProductGrows
  <2> QED BY <1>1, <1>2, <1>4, <2>2
<1>11. /\ Len(y.out) = Len(pairs)
       /\ DownKnows(y.stage, P + Len(pairs), c - Len(pairs) * (2 * h), h)
       /\ Fits(y.out, P - Center, c + Center * h, 2 * h)
  BY <1>1, <1>2, <1>3, <1>4, <1>7, <1>8, <1>9, <1>10, LoweredKnows, Zenon
<1> HIDE DEF y
<1>12. Len(pairs) * (2 * h) = Ticks
  BY <1>2, <1>7
<1>13. DownKnows(y.stage, DownCount(N, s, r + 1), c - Ticks, h)
  BY <1>3, <1>7, <1>11, <1>12
<1>14. Len(y.out) = Width(s) /\ Fits(y.out, InCount(N, s - 1, r), DownDue(N, s - 1), Gap(s))
  BY <1>2, <1>5, <1>6, <1>7, <1>11
<1> QED BY <1>13, <1>14 DEF y, h, c, pairs

IsUpTurn(p, s, q) ==
  /\ q.out = Raised(p.os.up[s], p.out).out
  /\ q.os.up = [p.os.up EXCEPT ![s] = Raised(p.os.up[s], p.out).stage] /\ q.os.down = p.os.down
IsDownTurn(p, s, q) ==
  /\ q.out = Lowered(p.os.down[s], Pairs(p.out)).out
  /\ q.os.down = [p.os.down EXCEPT ![s] = Lowered(p.os.down[s], Pairs(p.out)).stage]
  /\ q.os.up = p.os.up

\* The turns of the cascade are such turns.
LEMMA TurnForms ==
  ASSUME CascadeConstants, NEW N \in Nat, NEW p \in CascadeRuns(N), NEW s \in 1..N
  PROVE  IsUpTurn(p, s, Upsampled(p, s)) /\ IsDownTurn(p, s, Downsampled(p, s))
<1>1. IsUpTurn(p, s, Upsampled(p, s))
  BY UpsampledForm DEF IsUpTurn
<1>2. IsDownTurn(p, s, Downsampled(p, s))
  BY DownsampledForm DEF IsDownTurn
<1> QED BY <1>1, <1>2

\* A sample of the input comes out of the cascade as late as the group delay,
\* once the lines have heard enough, and they have then heard one more.
LEMMA CascadeKnows ==
  ASSUME NEW N \in Nat, CascadeOf(N), NEW os \in Cascades(N), NEW r \in Nat, Awaits(os, N, r),
         NEW x \in Traces, x.centre = 0
  PROVE  LET y == Oversampled(os, x) IN
         /\ y \in CascadeRuns(N) /\ Len(y.out) = 1 /\ Tracks(y.os, N, r + 1)
         /\ DownCount(N, 1, r) >= Center => y.out[1].centre = GroupDelay(FactorOf(N))
<1>1. CascadeConstants /\ N \in Nat \ {0} /\ N \in 1..3
  BY DEF CascadeOf
<1>2. PICK up \in [0..N -> CascadeRuns(N)], down \in [0..N -> CascadeRuns(N)] :
            /\ up[0] = [os |-> os, out |-> <<x>>]
            /\ \A s \in 1..N : up[s] = Upsampled(up[s - 1], s)
            /\ down[0] = up[N]
            /\ \A n \in 1..N : down[n] = Downsampled(down[n - 1], N + 1 - n)
            /\ Oversampled(os, x) = down[N]
  BY <1>1, CascadeInTurns
<1>0. \A p \in CascadeRuns(N), s \in 1..N : IsUpTurn(p, s, Upsampled(p, s)) /\ IsDownTurn(p, s, Downsampled(p, s))
  BY <1>1, TurnForms, Zenon
<1>3. \A s \in 0..N : /\ up[s] \in CascadeRuns(N) /\ down[s] \in CascadeRuns(N)
                       /\ up[s].os \in Cascades(N) /\ down[s].os \in Cascades(N)
                       /\ up[s].out \in Seq(Traces) /\ down[s].out \in Seq(Traces)
  BY DEF CascadeRuns
<1> DEFINE UpDone(j, o) == UpKnows(o.up[j], UpCount(j, r + 1), UpDue(j) - Ticks, Gap(j + 1))
           DownDone(j, o) ==
             DownKnows(o.down[j], DownCount(N, j, r + 1), DownDue(N, j) - Ticks, Gap(j + 1))
           GoodUp(s) ==
             /\ up[s].os.down = os.down
             /\ \A j \in 1..N : /\ j <= s => UpDone(j, up[s].os)
                                /\ j > s => up[s].os.up[j] = os.up[j]
             /\ Len(up[s].out) = Width(s + 1)
             /\ Fits(up[s].out, UpCount(s + 1, r), UpDue(s + 1), Gap(s + 1))
           GoodDown(n) ==
             /\ down[n].os.up = up[N].os.up
             /\ \A j \in 1..N : /\ j > N - n => DownDone(j, down[n].os)
                                /\ j <= N - n => down[n].os.down[j] = os.down[j]
             /\ Len(down[n].out) = Width(N + 1 - n)
             /\ Fits(down[n].out, InCount(N, N - n, r), DownDue(N, N - n), Gap(N + 1 - n))
           U == {s \in 0..N : GoodUp(s)}
           D == {n \in 0..N : GoodDown(n)}
<1>4. GoodUp(0)
  <2>1. up[0].os = os /\ up[0].out = <<x>>
    BY <1>2
  <2>2. Len(<<x>>) = Width(1) /\ <<x>>[1] = x
    BY DEF Width
  <2>3. Fits(<<x>>, UpCount(1, r), UpDue(1), Gap(1))
    <3>1. x.centre = UpDue(1) - (1 - 1) * Gap(1)
      <4>1. UpDue(1) = 0 /\ Gap(1) \in Nat
        BY <1>1, GapsHalve DEF UpDue
      <4> QED BY <4>1
    <3> QED BY <2>2, <3>1 DEF Fits, Width
  <2> HIDE DEF UpDone
  <2> QED BY <2>1, <2>2, <2>3
<1>5. ASSUME NEW s \in 1..N, GoodUp(s - 1) PROVE GoodUp(s)
  <2> DEFINE p == up[s - 1]
             y == Raised(os.up[s], p.out)
  <2>0. s - 1 \in 0..N /\ (s - 1) + 1 = s /\ s > s - 1
    OBVIOUS
  <2>1. p \in CascadeRuns(N) /\ p.os \in Cascades(N) /\ p.out \in Seq(Traces) /\ up[s] = Upsampled(p, s)
    BY <1>2, <1>3, <2>0
  <2>2. p.os.down = os.down /\ p.os.up[s] = os.up[s] /\ os.up[s] \in UpStages
    BY <1>5, <2>0 DEF Cascades
  <2>3. Len(p.out) = Width(s) /\ Fits(p.out, UpCount(s, r), UpDue(s), Gap(s))
    BY <1>5, <2>0
  <2>4. UpKnows(os.up[s], UpCount(s, r), UpDue(s), Gap(s + 1))
    BY DEF Awaits
  <2>5. \A j \in 1..N : /\ j <= s - 1 => UpDone(j, p.os)
                        /\ j > s - 1 => p.os.up[j] = os.up[j]
    BY <1>5
  <2> HIDE DEF p, UpDone
  <2>6. /\ UpKnows(y.stage, UpCount(s, r + 1), UpDue(s) - Ticks, Gap(s + 1))
        /\ Len(y.out) = Width(s + 1) /\ Fits(y.out, UpCount(s + 1, r), UpDue(s + 1), Gap(s + 1))
    BY <2>1, <2>2, <2>3, <2>4, UpTurnKnows, Zenon
  <2>7. /\ up[s].out = y.out /\ up[s].os.up = [p.os.up EXCEPT ![s] = y.stage]
        /\ up[s].os.down = p.os.down
    <3> DEFINE v == Raised(p.os.up[s], p.out)
    <3>1. /\ Upsampled(p, s).out = v.out
          /\ Upsampled(p, s).os.up = [p.os.up EXCEPT ![s] = v.stage]
          /\ Upsampled(p, s).os.down = p.os.down
      BY <1>0, <2>1 DEF IsUpTurn
    <3>2. v = y
      BY <2>2
    <3> HIDE DEF v, y
    <3> QED BY <2>1, <3>1, <3>2
  <2> HIDE DEF y
  <2>8. p.os.up \in [1..N -> UpStages]
    BY <2>1 DEF Cascades
  <2>9. ASSUME NEW j \in 1..N
        PROVE  (j <= s => UpDone(j, up[s].os)) /\ (j > s => up[s].os.up[j] = os.up[j])
    <3>1. CASE j = s
      <4>1. up[s].os.up[j] = y.stage
        BY <2>7, <2>8, <3>1
      <4> QED BY <2>6, <3>1, <4>1 DEF UpDone
    <3>2. CASE j # s
      <4>1. up[s].os.up[j] = p.os.up[j]
        BY <2>7, <2>8, <3>2
      <4>2. (j <= s => j <= s - 1) /\ (j > s => j > s - 1)
        BY <3>2
      <4> QED BY <2>5, <4>1, <4>2 DEF UpDone
    <3> QED BY <3>1, <3>2
  <2> QED BY <2>2, <2>6, <2>7, <2>9
<1>6. 0..N \subseteq U
  <2> HIDE DEF GoodUp
  <2>1. 0 \in U
    BY <1>1, <1>4
  <2>2. \A s \in 1..N : s - 1 \in U => s \in U
    BY <1>5
  <2> HIDE DEF U
  <2> QED BY <2>1, <2>2, RangeInduction, Zenon
<1>7. GoodUp(N)
  <2> HIDE DEF GoodUp
  <2> QED BY <1>1, <1>6
<1>8. GoodDown(0)
  <2>1. down[0] = up[N] /\ N - 0 = N /\ N + 1 - 0 = N + 1
    BY <1>2
  <2>2. InCount(N, N, r) = UpCount(N + 1, r) /\ DownDue(N, N) = UpDue(N + 1)
    BY <1>1, DownDues DEF InCount
  <2>3. \A j \in 1..N : ~(j > N)
    OBVIOUS
  <2> HIDE DEF UpDone, DownDone
  <2> QED BY <1>7, <2>1, <2>2, <2>3
<1>9. ASSUME NEW n \in 1..N, GoodDown(n - 1) PROVE GoodDown(n)
  <2> DEFINE s == N + 1 - n
             p == down[n - 1]
             y == Lowered(os.down[s], Pairs(p.out))
  <2>0. /\ n - 1 \in 0..N /\ s \in 1..N /\ N - (n - 1) = s /\ N + 1 - (n - 1) = s + 1
        /\ N - n = s - 1 /\ N + 1 - n = s
    OBVIOUS
  <2>1. p \in CascadeRuns(N) /\ p.os \in Cascades(N) /\ p.out \in Seq(Traces)
        /\ down[n] = Downsampled(p, s)
    BY <1>2, <1>3, <2>0
  <2>2. p.os.up = up[N].os.up /\ p.os.down[s] = os.down[s] /\ os.down[s] \in DownStages
    BY <1>9, <2>0 DEF Cascades
  <2>3. Len(p.out) = Width(s + 1) /\ Fits(p.out, InCount(N, s, r), DownDue(N, s), Gap(s + 1))
    BY <1>9, <2>0
  <2>4. DownKnows(os.down[s], DownCount(N, s, r), DownDue(N, s), Gap(s + 1))
    BY <2>0 DEF Awaits
  <2>5. \A j \in 1..N : /\ j > s => DownDone(j, p.os)
                        /\ j <= s => p.os.down[j] = os.down[j]
    BY <1>9, <2>0
  <2> HIDE DEF p, s, DownDone
  <2>6. /\ DownKnows(y.stage, DownCount(N, s, r + 1), DownDue(N, s) - Ticks, Gap(s + 1))
        /\ Len(y.out) = Width(s) /\ Fits(y.out, InCount(N, s - 1, r), DownDue(N, s - 1), Gap(s))
    <3>1. s \in 1..N
      BY <2>0
    <3> QED BY <3>1, <2>1, <2>2, <2>3, <2>4, DownTurnKnows, Zenon
  <2>7. /\ down[n].out = y.out /\ down[n].os.down = [p.os.down EXCEPT ![s] = y.stage]
        /\ down[n].os.up = p.os.up
    <3> DEFINE v == Lowered(p.os.down[s], Pairs(p.out))
    <3>1. s \in 1..N
      BY <2>0
    <3>2. /\ Downsampled(p, s).out = v.out
          /\ Downsampled(p, s).os.down = [p.os.down EXCEPT ![s] = v.stage]
          /\ Downsampled(p, s).os.up = p.os.up
      BY <1>0, <2>1, <3>1 DEF IsDownTurn
    <3>3. v = y
      BY <2>2
    <3> HIDE DEF v, y
    <3> QED BY <2>1, <3>2, <3>3
  <2> HIDE DEF y
  <2>8. p.os.down \in [1..N -> DownStages]
    BY <2>1 DEF Cascades
  <2>9. ASSUME NEW j \in 1..N
        PROVE  (j > N - n => DownDone(j, down[n].os)) /\ (j <= N - n => down[n].os.down[j] = os.down[j])
    <3>1. CASE j = s
      <4>1. down[n].os.down[j] = y.stage
        BY <2>7, <2>8, <3>1
      <4>2. ~(j <= N - n)
        BY <2>0, <3>1
      <4> QED BY <2>6, <3>1, <4>1, <4>2 DEF DownDone
    <3>2. CASE j # s
      <4>1. down[n].os.down[j] = p.os.down[j]
        BY <2>7, <2>8, <3>2
      <4>2. (j > N - n => j > s) /\ (j <= N - n => j <= s)
        BY <2>0, <3>2
      <4> QED BY <2>5, <4>1, <4>2 DEF DownDone
    <3> QED BY <3>1, <3>2
  <2>10. Len(down[n].out) = Width(N + 1 - n)
         /\ Fits(down[n].out, InCount(N, N - n, r), DownDue(N, N - n), Gap(N + 1 - n))
    BY <2>0, <2>6, <2>7
  <2>11. down[n].os.up = up[N].os.up
    BY <2>2, <2>7
  <2> QED BY <2>9, <2>10, <2>11
<1>10. 0..N \subseteq D
  <2> HIDE DEF GoodDown
  <2>1. 0 \in D
    BY <1>1, <1>8
  <2>2. \A n \in 1..N : n - 1 \in D => n \in D
    BY <1>9
  <2> HIDE DEF D
  <2> QED BY <2>1, <2>2, RangeInduction, Zenon
<1>11. GoodDown(N)
  <2> HIDE DEF GoodDown
  <2> QED BY <1>1, <1>10
<1> DEFINE y == Oversampled(os, x)
<1>12. y \in CascadeRuns(N)
  BY <1>1, <1>2, <1>3
<1>13. ASSUME NEW j \in 1..N PROVE UpDone(j, y.os) /\ DownDone(j, y.os)
  <2>1. j <= N /\ j > N - N
    OBVIOUS
  <2> HIDE DEF UpDone, DownDone
  <2>2. UpDone(j, up[N].os) /\ DownDone(j, down[N].os)
    BY <1>7, <1>11, <2>1
  <2>3. y.os.up = up[N].os.up /\ y.os = down[N].os
    BY <1>2, <1>11
  <2> QED BY <2>2, <2>3 DEF UpDone
<1>14. Len(y.out) = 1 /\ (DownCount(N, 1, r) >= Center => y.out[1].centre = GroupDelay(FactorOf(N)))
  <2>0. N - N = 0 /\ N + 1 - N = 1 /\ N # 0
    BY <1>1
  <2>1. Len(y.out) = Width(1) /\ Fits(y.out, InCount(N, 0, r), DownDue(N, 0), Gap(1))
    BY <1>2, <1>11, <2>0
  <2>2. InCount(N, 0, r) = DownCount(N, 1, r) - Center /\ DownCount(N, 1, r) \in Int /\ Center \in Nat
    BY <1>1, <2>0, DownTimes, CentreTap DEF InCount
  <2>3. DownDue(N, 0) = GroupDelay(FactorOf(N)) /\ DownDue(N, 0) \in Int /\ Gap(1) \in Nat
    <3>1. DownDue(N, 1) + Center * Gap(2) = GroupDelay(FactorOf(N)) /\ DownDue(N, 1) \in Nat
      BY <1>1, DownDues
    <3>2. UpDue(2) = UpDue(1) + Center * Gap(2) /\ UpDue(1) \in Nat /\ UpDue(2) \in Nat /\ Gap(1) \in Nat
      BY <1>1, UpTimes, GapsHalve
    <3>3. UpDue(N + 1) \in Nat
      BY <1>1, UpTimes
    <3>4. DownDue(N, 0) = 2 * UpDue(N + 1) - UpDue(1) /\ DownDue(N, 1) = 2 * UpDue(N + 1) - UpDue(2)
      BY DEF DownDue
    <3>5. Center * Gap(2) \in Int
      <4>1. Gap(2) \in Nat
        BY <1>1, GapsHalve
      <4> QED BY <2>2, <4>1
    <3> QED BY <3>1, <3>2, <3>3, <3>4, <3>5, SMTT(30)
  <2>4. Len(y.out) = 1
    BY <2>1 DEF Width
  <2> HIDE DEF y
  <2>5. ASSUME DownCount(N, 1, r) >= Center PROVE y.out[1].centre = DownDue(N, 0)
    <3>1. y.out[1].centre = DownDue(N, 0) - (1 - 1) * Gap(1)
      BY <2>1, <2>2, <2>4, <2>5, SMTT(30) DEF Fits
    <3> QED BY <2>3, <3>1
  <2> QED BY <2>3, <2>4, <2>5
<1>15. Tracks(y.os, N, r + 1)
  BY <1>13 DEF Tracks
<1> QED BY <1>12, <1>14, <1>15

\* The whole cascade reaches back no further than its lines and its input.
LEMMA CascadeRemembers ==
  ASSUME NEW N \in Nat \ {0}, CascadeConstants, NEW os \in Cascades(N), NEW B \in Int,
         Remembers(os, N, B), NEW x \in Traces, x.reach <= B
  PROVE  LET y == Oversampled(os, x) IN
         y \in CascadeRuns(N) /\ Remembers(y.os, N, B) /\ Reaches(y.out, B)
<1>2. PICK up \in [0..N -> CascadeRuns(N)], down \in [0..N -> CascadeRuns(N)] :
            /\ up[0] = [os |-> os, out |-> <<x>>]
            /\ \A s \in 1..N : up[s] = Upsampled(up[s - 1], s)
            /\ down[0] = up[N]
            /\ \A n \in 1..N : down[n] = Downsampled(down[n - 1], N + 1 - n)
            /\ Oversampled(os, x) = down[N]
  BY CascadeInTurns
<1>3. \A s \in 0..N : /\ up[s] \in CascadeRuns(N) /\ down[s] \in CascadeRuns(N)
                       /\ up[s].os \in Cascades(N) /\ down[s].os \in Cascades(N)
                       /\ up[s].out \in Seq(Traces) /\ down[s].out \in Seq(Traces)
  BY DEF CascadeRuns
<1> DEFINE Good(p) == Remembers(p.os, N, B) /\ Reaches(p.out, B)
           U == {s \in 0..N : Good(up[s])}
           D == {n \in 0..N : Good(down[n])}
<1>4. Good(up[0])
  BY <1>2 DEF Reaches
<1>5. ASSUME NEW p \in CascadeRuns(N), NEW s \in 1..N, Good(p) PROVE Good(Upsampled(p, s))
  <2> DEFINE y == Raised(p.os.up[s], p.out)
             q == Upsampled(p, s)
  <2>1. p.os \in Cascades(N) /\ p.out \in Seq(Traces) /\ p.os.up[s] \in UpStages
        /\ p.os.up \in [1..N -> UpStages]
    BY DEF CascadeRuns, Cascades
  <2>2. UpWithin(p.os.up[s], B) /\ Reaches(p.out, B)
    BY <1>5 DEF Remembers
  <2>3. UpWithin(y.stage, B) /\ Reaches(y.out, B)
    BY <2>1, <2>2, RaisedWithin
  <2>4. q.out = y.out /\ q.os.up = [p.os.up EXCEPT ![s] = y.stage] /\ q.os.down = p.os.down
    BY <2>1, UpsampledForm
  <2> HIDE DEF y, q
  <2>5. ASSUME NEW j \in 1..N PROVE UpWithin(q.os.up[j], B) /\ DownWithin(q.os.down[j], B)
    <3>1. CASE j = s
      BY <1>5, <2>1, <2>3, <2>4, <3>1 DEF Remembers
    <3>2. CASE j # s
      BY <1>5, <2>1, <2>4, <3>2 DEF Remembers
    <3> QED BY <3>1, <3>2
  <2>6. Remembers(q.os, N, B)
    BY <2>5 DEF Remembers
  <2> QED BY <2>3, <2>4, <2>6 DEF q
<1>6. ASSUME NEW p \in CascadeRuns(N), NEW s \in 1..N, Good(p) PROVE Good(Downsampled(p, s))
  <2> DEFINE y == Lowered(p.os.down[s], Pairs(p.out))
             q == Downsampled(p, s)
  <2>1. p.os \in Cascades(N) /\ p.out \in Seq(Traces) /\ p.os.down[s] \in DownStages
        /\ p.os.down \in [1..N -> DownStages] /\ Pairs(p.out) \in Seq(Traces \X Traces)
    BY PairsType DEF CascadeRuns, Cascades
  <2>2. DownWithin(p.os.down[s], B) /\ PairsReach(Pairs(p.out), B)
    BY <1>5, <1>6, <2>1, PairsWithin DEF Remembers
  <2>3. DownWithin(y.stage, B) /\ Reaches(y.out, B)
    BY <2>1, <2>2, LoweredWithin
  <2>4. q.out = y.out /\ q.os.down = [p.os.down EXCEPT ![s] = y.stage] /\ q.os.up = p.os.up
    BY <2>1, DownsampledForm
  <2> HIDE DEF y, q
  <2>5. ASSUME NEW j \in 1..N PROVE UpWithin(q.os.up[j], B) /\ DownWithin(q.os.down[j], B)
    <3>1. CASE j = s
      BY <1>6, <2>1, <2>3, <2>4, <3>1 DEF Remembers
    <3>2. CASE j # s
      BY <1>6, <2>1, <2>4, <3>2 DEF Remembers
    <3> QED BY <3>1, <3>2
  <2>6. Remembers(q.os, N, B)
    BY <2>5 DEF Remembers
  <2> QED BY <2>3, <2>4, <2>6 DEF q
<1> HIDE DEF Good
<1>7. 0..N \subseteq U
  <2>1. 0 \in U
    BY <1>4
  <2>2. \A s \in 1..N : s - 1 \in U => s \in U
    BY <1>2, <1>3, <1>5
  <2> HIDE DEF U
  <2> QED BY <2>1, <2>2, RangeInduction
<1>8. 0..N \subseteq D
  <2>1. 0 \in D
    BY <1>2, <1>7
  <2>2. \A n \in 1..N : n - 1 \in D => n \in D
    <3>1. ASSUME NEW n \in 1..N, n - 1 \in D PROVE n \in D
      <4>1. n - 1 \in 0..N /\ N + 1 - n \in 1..N /\ Good(down[n - 1]) /\ down[n - 1] \in CascadeRuns(N)
        BY <1>3, <3>1
      <4>2. Good(Downsampled(down[n - 1], N + 1 - n))
        BY <1>6, <4>1
      <4> QED BY <1>2, <4>2
    <3> QED BY <3>1
  <2> HIDE DEF D
  <2> QED BY <2>1, <2>2, RangeInduction
<1> QED BY <1>2, <1>3, <1>8 DEF Good


-----------------------------------------------------------------------------
(* An effect's sample: the cascade, and the dry line beside it             *)

\* What a line knows of more values it knows of fewer.
LEMMA FollowsLess ==
  ASSUME NEW n \in Nat, NEW line, NEW w, NEW K \in Int, NEW L \in Int, K <= L, NEW c, NEW gap,
         Follows(line, w, n, L, c, gap)
  PROVE  Follows(line, w, n, K, c, gap)
BY DEF Follows

\* What knows r + 1 samples knows r of them.
LEMMA TracksLess ==
  ASSUME NEW N \in Nat, CascadeOf(N), NEW os, NEW r \in Nat, Tracks(os, N, r + 1)
  PROVE  Tracks(os, N, r)
<1>1. CascadeConstants /\ EvenCount \in Nat /\ OddLineSize \in Nat
  BY CentreTap DEF CascadeOf
<1>2. ASSUME NEW s \in 1..N
      PROVE  /\ UpKnows(os.up[s], UpCount(s, r), UpDue(s) - Ticks, Gap(s + 1))
             /\ DownKnows(os.down[s], DownCount(N, s, r), DownDue(N, s) - Ticks, Gap(s + 1))
  <2>1. UpCount(s, r) \in Int /\ UpCount(s, r + 1) = UpCount(s, r) + Width(s)
    BY UpTimes
  <2>2. DownCount(N, s, r) \in Int /\ DownCount(N, s, r + 1) = DownCount(N, s, r) + Width(s)
    BY DownTimes
  <2>3. Width(s) \in Nat
    BY GapsHalve
  <2>4. /\ UpCount(s, r + 1) \in Int /\ UpCount(s, r) <= UpCount(s, r + 1)
        /\ DownCount(N, s, r + 1) \in Int /\ DownCount(N, s, r) <= DownCount(N, s, r + 1)
    BY <2>1, <2>2, <2>3
  <2>5. /\ UpKnows(os.up[s], UpCount(s, r + 1), UpDue(s) - Ticks, Gap(s + 1))
        /\ DownKnows(os.down[s], DownCount(N, s, r + 1), DownDue(N, s) - Ticks, Gap(s + 1))
    BY DEF Tracks
  <2> QED BY <1>1, <2>1, <2>2, <2>4, <2>5, FollowsLess, Zenon DEF UpKnows, DownKnows
<1> QED BY <1>2 DEF Tracks

\* Lines that were not heard yet know nothing.
LEMMA NothingHeard ==
  ASSUME NEW N \in Nat, CascadeOf(N), NEW os
  PROVE  Tracks(os, N, 0)
<1>1. /\ CascadeConstants /\ Center \in Nat /\ Center >= 1 /\ OddDepthUp \in Nat /\ N \in 1..3
      /\ EvenCount \in Nat /\ OddLineSize \in Nat
  BY CentreTap DEF CascadeOf
<1>2. ASSUME NEW s \in 1..N PROVE UpCount(s, 0) <= 0 /\ DownCount(N, s, 0) <= 0
  <2>1. CASE N = 1
    BY <1>1, <2>1 DEF UpCount, DownCount
  <2>2. CASE N = 2
    <3>1. s = 1 \/ s = 2
      BY <2>2
    <3> QED BY <1>1, <2>2, <3>1 DEF UpCount, DownCount
  <2>3. CASE N = 3
    <3>1. s = 1 \/ s = 2 \/ s = 3
      BY <2>3
    <3> QED BY <1>1, <2>3, <3>1 DEF UpCount, DownCount
  <2> QED BY <1>1, <2>1, <2>2, <2>3
<1>3. ASSUME NEW s \in 1..N PROVE UpCount(s, 0) \in Int /\ DownCount(N, s, 0) \in Int
  BY UpTimes, DownTimes
<1>4. ASSUME NEW n \in Nat, NEW line, NEW w, NEW K \in Int, K <= 0, NEW c, NEW gap
      PROVE  Follows(line, w, n, K, c, gap)
  BY <1>4 DEF Follows
<1> QED BY <1>1, <1>2, <1>3, <1>4 DEF Tracks, UpKnows, DownKnows

\* A cleared cascade remembers nothing.
LEMMA ClearedCascade ==
  ASSUME NEW N \in Nat, CascadeConstants
  PROVE  ClearedStages(N) \in Cascades(N) /\ Remembers(ClearedStages(N), N, Unclear)
<1>1. EvenCount \in Nat \ {0} /\ OddLineSize \in Nat \ {0} /\ Silent \in Traces /\ Silent.reach = Unclear
  BY CentreTap DEF CascadeConstants, TraceConstants, Silent, Traces, Ages, Unclear
<1> DEFINE even == [k \in 0..EvenCount - 1 |-> Silent]
           odd  == [k \in 0..OddLineSize - 1 |-> Silent]
<1>2. /\ even \in [0..EvenCount - 1 -> Traces] /\ odd \in [0..OddLineSize - 1 -> Traces]
      /\ Within(even, EvenCount, Unclear) /\ Within(odd, OddLineSize, Unclear)
  BY <1>1 DEF Within, Unclear
<1>3. UpInit = [line |-> even, pos |-> 0]
      /\ DownInit = [even |-> even, posE |-> 0, odd |-> odd, posO |-> 0]
  BY DEF UpInit, DownInit
<1> HIDE DEF even, odd
<1>4. UpInit \in UpStages /\ DownInit \in DownStages
  BY <1>1, <1>2, <1>3 DEF UpStages, DownStages
<1>5. UpWithin(UpInit, Unclear) /\ DownWithin(DownInit, Unclear)
  BY <1>2, <1>3 DEF UpWithin, DownWithin
<1> QED BY <1>4, <1>5 DEF ClearedStages, Cascades, Remembers

\* A base-rate sample through a cascade of N stages that heard r of them since it
\* was cleared: it heard one more, and once r of them fill its longest path what it
\* gives is late by the group delay that is reported (oversampler.h), exactly.
THEOREM CascadeSample ==
  ASSUME NEW N \in Nat, CascadeOf(N), NEW os \in Cascades(N), NEW r \in Nat, Tracks(os, N, r)
  PROVE  LET y == Oversampled(OversamplerAged(os), Input) IN
         /\ y.os \in Cascades(N) /\ Len(y.out) = 1 /\ y.out[1] \in Traces /\ Tracks(y.os, N, r + 1)
         /\ r >= Span(FactorOf(N)) \div Ticks => y.out[1].centre = GroupDelay(FactorOf(N))
<1> DEFINE aged == OversamplerAged(os)
           y == Oversampled(aged, Input)
<1>1. CascadeConstants /\ Input \in Traces /\ Input.centre = 0
  BY InputType DEF CascadeOf, CascadeConstants, Input
<1>2. aged \in Cascades(N) /\ Awaits(aged, N, r)
  BY <1>1, CascadeAges, CascadeAgesForm
<1> HIDE DEF aged
<1>3. /\ y \in CascadeRuns(N) /\ Len(y.out) = 1 /\ Tracks(y.os, N, r + 1)
      /\ DownCount(N, 1, r) >= Center => y.out[1].centre = GroupDelay(FactorOf(N))
  BY <1>1, <1>2, CascadeKnows, Zenon
<1>4. r >= Span(FactorOf(N)) \div Ticks => DownCount(N, 1, r) >= Center
  BY SettledCount
<1> HIDE DEF y
<1>5. y.os \in Cascades(N) /\ y.out[1] \in Traces
  BY <1>3 DEF CascadeRuns
<1> QED BY <1>3, <1>4, <1>5 DEF y, aged

\* How far back r samples after a clear reach.
HeardBack(r) == IF r = 0 THEN Unclear ELSE (r - 1) * Ticks

\* After r samples from clear lines, what the next one may reach back to.
LEMMA HeardBackLater ==
  ASSUME TraceConstants, NEW r \in Nat
  PROVE  /\ HeardBack(r) \in Int /\ HeardBack(r) >= Unclear /\ HeardBack(r + 1) = r * Ticks
         /\ HeardBack(r + 1) \in Nat /\ LaterReach(HeardBack(r)) = HeardBack(r + 1)
<1>1. Ticks \in Nat
  BY DEF TraceConstants
<1>2. r * Ticks \in Nat /\ HeardBack(r + 1) = r * Ticks
  BY <1>1 DEF HeardBack
<1>3. CASE r = 0
  BY <1>1, <1>2, <1>3 DEF HeardBack, LaterReach, Unclear
<1>4. CASE r # 0
  <2>1. (r - 1) * Ticks \in Nat /\ (r - 1) * Ticks + Ticks = r * Ticks
    BY <1>1, <1>4
  <2> QED BY <1>2, <1>4, <2>1 DEF HeardBack, LaterReach, Unclear
<1> QED BY <1>3, <1>4

\* A sample through the cascade reaches back no further than the first of the run.
LEMMA CascadeSampleRemembers ==
  ASSUME NEW N \in Nat \ {0}, CascadeConstants, NEW os \in Cascades(N), NEW r \in Nat,
         Remembers(os, N, HeardBack(r))
  PROVE  LET y == Oversampled(OversamplerAged(os), Input) IN
         /\ Remembers(OversamplerAged(os), N, HeardBack(r + 1))
         /\ Remembers(y.os, N, HeardBack(r + 1)) /\ Reaches(y.out, HeardBack(r + 1))
<1> DEFINE aged == OversamplerAged(os)
           B == HeardBack(r)
           L == HeardBack(r + 1)
<1>1. TraceConstants /\ Input \in Traces /\ Input.reach = 0
  BY InputType DEF CascadeConstants, Input
<1>2. B \in Int /\ B >= Unclear /\ L \in Nat /\ LaterReach(B) = L
  BY <1>1, HeardBackLater
<1>3. aged \in Cascades(N)
  BY CascadeAgesForm
<1> HIDE DEF B
<1>4. Remembers(aged, N, LaterReach(B))
  BY <1>2, CascadeForgets DEF B
<1>5. Remembers(aged, N, L) /\ Input.reach <= L /\ L \in Int
  BY <1>1, <1>2, <1>4
<1> HIDE DEF aged, L
<1>6. LET y == Oversampled(aged, Input) IN Remembers(y.os, N, L) /\ Reaches(y.out, L)
  BY <1>1, <1>3, <1>5, CascadeRemembers
<1> QED BY <1>5, <1>6 DEF aged, L

\* The dry line hears every sample, and what it knows ages with it.
LEMMA RingSample ==
  ASSUME TraceConstants, NEW C \in Nat \ {0}, NEW ring, IsLine(ring, C), NEW n \in Nat,
         Recent(ring, C, n), n * Ticks <= Horizon
  PROVE  LET next == Write(LineAged(ring), Input) IN
         IsLine(next, C) /\ Recent(next, C, n + 1)
<1> DEFINE aged == LineAged(ring)
<1>1. Ticks \in Nat \ {0} /\ Horizon \in Nat
  BY DEF TraceConstants
<1>2. IsLine(aged, C)
  BY LineAgedType
<1>3. ASSUME NEW k \in 0..C - 1, k < n PROVE k * Ticks + 0 + Ticks <= Horizon
  <2>1. k + 1 \in Nat /\ k + 1 <= n
    BY <1>3
  <2>2. (k + 1) * Ticks <= n * Ticks /\ n * Ticks \in Nat
    BY <1>1, <2>1, ProductGrows
  <2>3. (k + 1) * Ticks = k * Ticks + Ticks /\ k * Ticks \in Nat
    BY <1>1
  <2> QED BY <1>1, <2>2, <2>3
<1>4. Spaced(aged, C, n, Ticks, 0 + Ticks)
  BY <1>1, <1>3, SpacedAges DEF Recent
<1>5. 0 + Ticks = Ticks /\ Input \in Traces
  BY <1>1, InputType
<1> HIDE DEF aged
<1>6. Spaced(Write(aged, Input), C, n + 1, Ticks, 0)
  BY <1>1, <1>2, <1>4, <1>5, WriteIsSpaced
<1>7. IsLine(Write(aged, Input), C)
  BY <1>2, <1>5, WriteType
<1> QED BY <1>6, <1>7 DEF Recent, aged

\* A ring that holds the last n samples holds fewer of them.
LEMMA RecentLess ==
  ASSUME NEW C \in Nat, NEW line, NEW n \in Nat, NEW m \in Nat, m <= n, Recent(line, C, n)
  PROVE  Recent(line, C, m)
<1>1. \A k \in 0..C - 1 : k < m => k < n
  OBVIOUS
<1> QED BY <1>1, Zenon DEF Recent, Spaced

\* A write reaches back no further than the first of the run.
LEMMA RingRemembers ==
  ASSUME TraceConstants, NEW C \in Nat \ {0}, NEW ring, IsLine(ring, C), NEW r \in Nat,
         Within(ring.slots, C, HeardBack(r))
  PROVE  Within(Write(LineAged(ring), Input).slots, C, HeardBack(r + 1))
<1> DEFINE aged == LineAged(ring)
           next == Write(aged, Input)
           B == HeardBack(r)
           L == HeardBack(r + 1)
<1>1. B \in Int /\ B >= Unclear /\ L \in Nat /\ LaterReach(B) = L
  BY HeardBackLater
<1>2. IsLine(aged, C) /\ \A k \in 0..C - 1 : aged.slots[k] = Aged(ring.slots[k])
  BY LineAgedType
<1>3. ring.slots \in [0..C - 1 -> Traces]
  BY DEF IsLine
<1>4. Within(AgedLine(ring.slots), C, L)
  <2> HIDE DEF B, L
  <2>1. Within(ring.slots, C, B)
    BY DEF B
  <2> QED BY <1>1, <1>3, <2>1, WithinAges
<1>5. \A k \in 0..C - 1 : aged.slots[k].reach <= L
  <2> HIDE DEF aged, L
  <2>1. DOMAIN ring.slots = 0..C - 1
    BY <1>3
  <2> QED BY <1>2, <1>4, <2>1 DEF Within, AgedLine
<1>6. Input \in Traces /\ Input.reach = 0
  BY InputType DEF Input
<1> HIDE DEF aged
<1>7. \A k \in 0..C - 1 : next.slots[k] = IF k = aged.writePos THEN Input ELSE aged.slots[k]
  BY <1>2, <1>6, WriteType
<1> HIDE DEF next, L
<1>8. \A k \in 0..C - 1 : next.slots[k].reach <= L
  BY <1>1, <1>5, <1>6, <1>7
<1>9. Within(next.slots, C, L)
  BY <1>8 DEF Within
<1> QED BY <1>9 DEF next, aged, L

\* A read reaches back no further than its line.
LEMMA ReadWithin ==
  ASSUME TraceConstants, NEW C \in Nat \ {0}, NEW line, IsLine(line, C), NEW delay \in Nat,
         NEW B \in Int, Within(line.slots, C, B)
  PROVE  ReadFractional(line, delay).reach <= B
<1>1. PICK i \in 0..C - 1, part \in 0..Ticks - 1, older \in Traces :
        LET newer == line.slots[Behind(line.writePos, i, C)] IN
        /\ ReadFractional(line, delay) = Between(newer, older, part)
        /\ i * Ticks + part = IF delay > (C - 1) * Ticks THEN (C - 1) * Ticks ELSE delay
        /\ part # 0 => /\ i + 1 \in 0..C - 1
                       /\ older = line.slots[Behind(line.writePos, i + 1, C)]
  BY ReadForm
<1> DEFINE newer == line.slots[Behind(line.writePos, i, C)]
<1>2. line.writePos \in 0..C - 1 /\ line.slots \in [0..C - 1 -> Traces]
  BY DEF IsLine
<1>3. Behind(line.writePos, i, C) \in 0..C - 1
  BY <1>2, BehindIsRead
<1>4. newer \in Traces /\ newer.reach <= B
  BY <1>2, <1>3 DEF Within
<1>5. part # 0 => older.reach <= B
  <2> SUFFICES ASSUME part # 0 PROVE older.reach <= B
    OBVIOUS
  <2>1. i + 1 \in 0..C - 1 /\ older = line.slots[Behind(line.writePos, i + 1, C)]
    BY <1>1
  <2>2. Behind(line.writePos, i + 1, C) \in 0..C - 1
    BY <1>2, <2>1, BehindIsRead
  <2> QED BY <2>1, <2>2 DEF Within
<1>6. ReadFractional(line, delay) = Between(newer, older, part)
  BY <1>1
<1> HIDE DEF newer
<1>7. newer.reach \in Int /\ older.reach \in Int
  BY <1>4 DEF Traces, Ages, Unclear, TraceConstants
<1>8. CASE part = 0
  BY <1>4, <1>6, <1>8 DEF Between
<1>9. CASE part # 0
  <2>1. Between(newer, older, part).reach = Sum2(newer, older).reach
    BY <1>9 DEF Between
  <2>2. Sum2(newer, older).reach = IF newer.reach > older.reach THEN newer.reach ELSE older.reach
    BY DEF Sum2
  <2> QED BY <1>4, <1>5, <1>6, <1>7, <1>9, <2>1, <2>2
<1> QED BY <1>8, <1>9

\* A read within the last n samples is of the sample it asks for.
LEMMA RecentRead ==
  ASSUME TraceConstants, NEW C \in Nat \ {0}, NEW line, IsLine(line, C), NEW n \in 1..C,
         Recent(line, C, n), NEW delay \in Nat, delay <= (n - 1) * Ticks
  PROVE  ReadFractional(line, delay).centre = delay
<1>1. Ticks \in Nat /\ 1 * Ticks = Ticks
  BY DEF TraceConstants
<1>2. Spaced(line, C, n, 1 * Ticks, 0)
  BY <1>1 DEF Recent
<1>3. ReadFractional(line, delay).centre = 1 * delay + 0
  BY <1>2, ReadFractionalIsExact
<1> QED BY <1>3

\* The group delay is at least a sample, and a filled dry line gives it back exactly.
LEMMA DelayInTicks ==
  ASSUME NEW N \in Nat, CascadeOf(N)
  PROVE  LET g == GroupDelay(FactorOf(N)) IN
         /\ g \in Nat /\ g >= Ticks /\ Span(FactorOf(N)) = g * 2
         /\ Span(FactorOf(N)) \in Nat /\ Span(FactorOf(N)) \div Ticks \in Nat
         /\ Span(FactorOf(N)) \div Ticks >= g \div Ticks + 1
         /\ (Span(FactorOf(N)) \div Ticks) * Ticks <= Span(FactorOf(N))
<1> DEFINE g == GroupDelay(FactorOf(N))
<1>1. Ticks \in Nat \ {0} /\ Span(FactorOf(N)) = g * 2
  BY DEF CascadeOf, CascadeConstants, TraceConstants, Span
<1>2. PICK h \in Nat \ {0}, p \in Nat :
        h <= p /\ Ticks = FactorOf(N) * h /\ g = 2 * (FactorOf(N) - 1) * p
  BY DuesInTicks
<1>3. FactorOf(N) = 2 \/ FactorOf(N) = 4 \/ FactorOf(N) = 8
  BY DEF CascadeOf, FactorOf
<1> HIDE DEF g
<1>4. g \in Nat /\ g >= Ticks
  <2>1. CASE FactorOf(N) = 2
    BY <1>2, <2>1
  <2>2. CASE FactorOf(N) = 4
    BY <1>2, <2>2
  <2>3. CASE FactorOf(N) = 8
    BY <1>2, <2>3
  <2> QED BY <1>3, <2>1, <2>2, <2>3
<1>5. /\ (g * 2) \div Ticks \in Nat /\ (g * 2) \div Ticks >= g \div Ticks + 1
      /\ ((g * 2) \div Ticks) * Ticks <= g * 2
  <2> DEFINE a == g \div Ticks
             b == (g * 2) \div Ticks
  <2>1. a \in Nat /\ a * Ticks <= g /\ g < (a + 1) * Ticks
    BY <1>1, <1>4
  <2>2. b \in Nat /\ b * Ticks <= g * 2 /\ g * 2 < (b + 1) * Ticks
    BY <1>1, <1>4
  <2> HIDE DEF a, b
  <2>3. (b + 1) * Ticks = b * Ticks + Ticks /\ b * Ticks \in Nat /\ a * Ticks \in Nat
    BY <1>1, <2>1, <2>2
  <2>4. ~(b <= a)
    <3> SUFFICES ASSUME b <= a PROVE FALSE
      OBVIOUS
    <3>1. b * Ticks <= a * Ticks
      BY <1>1, <2>1, <2>2, ProductGrows
    <3> QED BY <1>1, <1>4, <2>1, <2>2, <2>3, <3>1
  <2>5. b >= a + 1
    BY <2>1, <2>2, <2>4
  <2> QED BY <2>2, <2>5 DEF a, b
<1> QED BY <1>1, <1>4, <1>5 DEF g

\* Once the cascade is settled, the dry ring holds what the group delay asks for.
LEMMA RingReads ==
  ASSUME NEW N \in Nat, CascadeOf(N), NEW C \in Nat, C * Ticks > GroupDelay(FactorOf(N)) + Ticks,
         NEW ring, IsLine(ring, C), NEW n \in Nat, n >= Span(FactorOf(N)) \div Ticks + 1,
         Recent(ring, C, n)
  PROVE  ReadFractional(ring, GroupDelay(FactorOf(N))).centre = GroupDelay(FactorOf(N))
<1> DEFINE g == GroupDelay(FactorOf(N))
           a == g \div Ticks
           m == a + 2
<1>1. Ticks \in Nat \ {0} /\ TraceConstants
  BY DEF CascadeOf, CascadeConstants, TraceConstants
<1>2. g \in Nat /\ Span(FactorOf(N)) \div Ticks \in Nat /\ Span(FactorOf(N)) \div Ticks >= a + 1
  BY DelayInTicks
<1>0. C * Ticks > g + Ticks
  OBVIOUS
<1> HIDE DEF g
<1>3. a \in Nat /\ a * Ticks <= g /\ g < (a + 1) * Ticks
  BY <1>1, <1>2
<1> HIDE DEF a
<1>4. (m - 1) * Ticks = (a + 1) * Ticks /\ g <= (m - 1) * Ticks /\ m \in Nat \ {0}
  BY <1>1, <1>2, <1>3
<1>5. m <= C
  <2> SUFFICES ASSUME C <= a + 1 PROVE FALSE
    BY <1>3
  <2>1. C * Ticks <= (a + 1) * Ticks
    BY <1>1, <1>3, ProductGrows
  <2>2. (a + 1) * Ticks = a * Ticks + Ticks /\ a * Ticks \in Nat /\ C * Ticks \in Nat
    BY <1>1, <1>3
  <2> QED BY <1>0, <1>1, <1>2, <1>3, <2>1, <2>2
<1>6. m <= n
  BY <1>2, <1>3
<1> HIDE DEF m
<1>7. m \in 1..C /\ C \in Nat \ {0}
  BY <1>4, <1>5
<1>8. Recent(ring, C, m)
  BY <1>4, <1>6, RecentLess
<1>9. ReadFractional(ring, g).centre = g
  BY <1>1, <1>2, <1>4, <1>7, <1>8, RecentRead, Zenon
<1> QED BY <1>9 DEF g

\* And what no delay asks for, from the first write on.
LEMMA RingReadsNow ==
  ASSUME TraceConstants, NEW C \in Nat \ {0}, NEW ring, IsLine(ring, C), NEW n \in Nat \ {0},
         Recent(ring, C, n)
  PROVE  ReadFractional(ring, 0).centre = 0
<1>1. Recent(ring, C, 1) /\ Ticks \in Nat /\ 1 \in 1..C
  BY RecentLess DEF TraceConstants
<1>2. 0 <= (1 - 1) * Ticks
  BY <1>1
<1> QED BY <1>1, <1>2, RecentRead

\* A cleared ring remembers nothing.
LEMMA ClearedRing ==
  ASSUME TraceConstants, NEW C \in Nat \ {0}
  PROVE  /\ IsLine(Line(C), C) /\ Within(Line(C).slots, C, Unclear)
         /\ \A line : Recent(line, C, 0)
<1>1. IsLine(Line(C), C)
  BY LineType
<1>2. Within(Line(C).slots, C, Unclear)
  BY DEF Within, Line, Silent, Unclear
<1>3. ASSUME NEW line PROVE Recent(line, C, 0)
  BY DEF Recent, Spaced
<1> QED BY <1>1, <1>2, <1>3

-----------------------------------------------------------------------------
(* The compressor                                                          *)

LineOf == [slots : [0..Budget -> Traces], writePos : 0..Budget]
CoreOf == [lookahead : 0..Budget, maxLookahead : 0..Budget, line : LineOf,
           detector : Memory, smoother : Memory]

\* The variables' shapes, what TypeOK leaves open included.
Shapes ==
  /\ cores \in [Channel -> CoreOf]
  /\ numChannels \in 0..Cardinality(Channel) /\ sampleRate \in Rates
  /\ DOMAIN settings = DOMAIN Domain
  /\ \A p \in DOMAIN Domain : settings[p] \in Domain[p]
  /\ DOMAIN pending \subseteq DOMAIN Domain
  /\ \A p \in DOMAIN pending : pending[p] \in Domain[p]
  /\ latencySamples \in 0..Budget
  /\ main \in [Channel -> Traces]
  /\ stream = [run |-> stream.run, edits |-> stream.edits]
  /\ stream.run \in 0..Budget + 2 /\ stream.edits \in 0..MaxEdits

\* Every prepared channel is delayed by what the host is told, clamped to what
\* prepare() allowed.
DelaysAgree ==
  \A c \in Active(numChannels) :
    /\ cores[c].lookahead = latencySamples
    /\ cores[c].maxLookahead = Least(MaxSeconds * sampleRate, Budget)

\* Its line holds the input since it was cleared.
LinesRan == \A c \in Active(numChannels) : Recent(cores[c].line, Budget + 1, stream.run)

CompressorInv ==
  /\ Shapes
  /\ \A c \in Channel : cores[c].lookahead <= cores[c].maxLookahead
  /\ DelaysAgree /\ LinesRan /\ LatencyIsDelay /\ LinkedDetectorHears

\* What the assumption says of the constants.
LEMMA Facts ==
  /\ TraceConstants /\ Ticks \in Nat \ {0} /\ Horizon \in Nat  /\ Budget \in Nat
  /\ Cardinality(Channel) \in Nat \ {0} /\ Channel = 0..Cardinality(Channel) - 1 /\ 0 \in Channel
  /\ Rates \subseteq Nat \ {0} /\ MaxSeconds \in Nat
<1>1. Cardinality(Channel) \in Nat
  BY CompressorAssumption, FS_CardinalityType
<1>2. Channel = 0..Cardinality(Channel) - 1 /\ Channel # {}
  BY CompressorAssumption
<1>3. Cardinality(Channel) # 0
  BY <1>1, <1>2
<1> QED
  BY <1>1, <1>2, <1>3, CompressorAssumption DEF TraceConstants

\* The parameters kept, and the range of the lookahead.
LEMMA Domains ==
  /\ DOMAIN Domain = {"lookahead", "stereoLink", "site"}
  /\ Domain["lookahead"] = 0..MaxSeconds
BY DEF Domain

\* The cores' lines are lines of Budget + 1 slots.
LEMMA LineIsLine ==
  ASSUME NEW line
  PROVE  line \in LineOf <=> IsLine(line, Budget + 1)
BY Facts DEF LineOf, IsLine

\* A cleared line, which has heard nothing yet.
LEMMA EmptyLine ==
  /\ Line(Budget + 1) \in LineOf
  /\ Recent(Line(Budget + 1), Budget + 1, 0)
<1>1. Budget + 1 \in Nat \ {0}
  BY Facts
<1>2. Line(Budget + 1) \in LineOf
  BY <1>1, Facts, LineType, LineIsLine
<1>3. Recent(Line(Budget + 1), Budget + 1, 0)
  BY Facts DEF Recent, Spaced
<1> QED
  BY <1>2, <1>3

\* setLookahead() on a channel that prepare() has limited gives what is reported.
LEMMA ReportedIsSet ==
  ASSUME NEW core \in CoreOf, NEW seconds \in 0..MaxSeconds, NEW rate \in Rates
  PROVE  /\ SetLookahead(core, seconds * rate) =
              [core EXCEPT !.lookahead = Least(seconds * rate, core.maxLookahead)]
         /\ SetLookahead(core, seconds * rate) \in CoreOf
         /\ SetLookahead(core, seconds * rate).lookahead <= core.maxLookahead
         /\ Reported(seconds, rate) \in 0..Budget
         /\ Least(MaxSeconds * rate, Budget) \in 0..Budget
         /\ core.maxLookahead = Least(MaxSeconds * rate, Budget) =>
              SetLookahead(core, seconds * rate).lookahead = Reported(seconds, rate)
<1>1. seconds * rate \in Nat /\ MaxSeconds * rate \in Nat
  BY Facts
<1> DEFINE asked == seconds * rate
           most  == MaxSeconds * rate
<1>2. asked \in Nat /\ most \in Nat
  BY <1>1
<1> HIDE DEF asked, most
<1>3. core.maxLookahead \in 0..Budget
  BY DEF CoreOf
<1>4. Least(asked, core.maxLookahead) \in 0..Budget /\ Least(asked, core.maxLookahead) <= core.maxLookahead
  BY <1>2, <1>3, Facts DEF Least
<1>5. Least(most, Budget) \in 0..Budget
  BY <1>2, Facts DEF Least
<1>6. Least(asked, Least(most, Budget)) \in 0..Budget
  BY <1>2, <1>5, Facts DEF Least
<1>7. SetLookahead(core, asked) = [core EXCEPT !.lookahead = Least(asked, core.maxLookahead)]
  BY DEF SetLookahead
<1>8. Reported(seconds, rate) = Least(asked, Least(most, Budget))
  BY DEF Reported, asked, most
<1>9. /\ [core EXCEPT !.lookahead = Least(asked, core.maxLookahead)] \in CoreOf
      /\ [core EXCEPT !.lookahead = Least(asked, core.maxLookahead)].lookahead
           = Least(asked, core.maxLookahead)
  BY <1>4 DEF CoreOf
<1>10. /\ SetLookahead(core, asked) \in CoreOf
       /\ SetLookahead(core, asked).lookahead = Least(asked, core.maxLookahead)
  BY <1>7, <1>9
<1>11. core.maxLookahead = Least(most, Budget) => SetLookahead(core, asked).lookahead = Reported(seconds, rate)
  BY <1>8, <1>10
<1>12. SetLookahead(core, asked).lookahead <= core.maxLookahead
  BY <1>4, <1>10
<1> QED
  BY <1>5, <1>6, <1>7, <1>8, <1>10, <1>11, <1>12 DEF asked, most

\* setLookahead() changes the lookahead and nothing else.
LEMMA SetKeeps ==
  ASSUME NEW core \in CoreOf, NEW samples
  PROVE  /\ SetLookahead(core, samples).line = core.line
         /\ SetLookahead(core, samples).maxLookahead = core.maxLookahead
         /\ SetLookahead(core, samples).detector = core.detector
         /\ SetLookahead(core, samples).smoother = core.smoother
BY DEF SetLookahead, CoreOf

\* What applyLookahead() leaves on the prepared channels and on the others.
LEMMA DelayedCores ==
  ASSUME NEW all \in [Channel -> CoreOf], NEW n, NEW seconds \in 0..MaxSeconds, NEW rate \in Rates,
         \A c \in Channel :
           IF c \in Active(n) THEN all[c].maxLookahead = Least(MaxSeconds * rate, Budget)
           ELSE all[c].lookahead <= all[c].maxLookahead
  PROVE  LET now == Delayed(all, n, seconds, rate)
         IN  /\ now \in [Channel -> CoreOf]
             /\ \A c \in Channel : /\ now[c].lookahead <= now[c].maxLookahead
                                   /\ now[c].line = all[c].line
                                   /\ now[c].detector = all[c].detector
                                   /\ now[c].maxLookahead = all[c].maxLookahead
             /\ \A c \in Active(n) : now[c].lookahead = Reported(seconds, rate)
<1> DEFINE now == Delayed(all, n, seconds, rate)
           asked == seconds * rate
<1>1. now = [c \in Channel |-> IF c \in Active(n) THEN SetLookahead(all[c], asked) ELSE all[c]]
  BY DEF Delayed
<1>2. ASSUME NEW c \in Channel
      PROVE  /\ SetLookahead(all[c], asked) \in CoreOf
             /\ SetLookahead(all[c], asked).lookahead <= SetLookahead(all[c], asked).maxLookahead
             /\ SetLookahead(all[c], asked).line = all[c].line
             /\ SetLookahead(all[c], asked).detector = all[c].detector
             /\ SetLookahead(all[c], asked).maxLookahead = all[c].maxLookahead
             /\ c \in Active(n) => SetLookahead(all[c], asked).lookahead = Reported(seconds, rate)
  <2>1. all[c] \in CoreOf
    OBVIOUS
  <2> HIDE DEF asked
  <2>2. /\ SetLookahead(all[c], asked) \in CoreOf
        /\ SetLookahead(all[c], asked).lookahead <= all[c].maxLookahead
        /\ all[c].maxLookahead = Least(MaxSeconds * rate, Budget) =>
             SetLookahead(all[c], asked).lookahead = Reported(seconds, rate)
    BY <2>1, ReportedIsSet DEF asked
  <2>3. /\ SetLookahead(all[c], asked).line = all[c].line
        /\ SetLookahead(all[c], asked).detector = all[c].detector
        /\ SetLookahead(all[c], asked).maxLookahead = all[c].maxLookahead
    BY <2>1, SetKeeps
  <2> QED
    BY <2>2, <2>3
<1> HIDE DEF now, asked
<1>3. now \in [Channel -> CoreOf]
  BY <1>1, <1>2
<1>4. \A c \in Active(n) : c \in Channel
  BY DEF Active
<1> QED
  BY <1>1, <1>2, <1>3, <1>4 DEF now

\* The initial states.
LEMMA InitCompressor == Init => CompressorInv
<1> SUFFICES ASSUME Init PROVE CompressorInv
  OBVIOUS
<1>1. DOMAIN Defaults = DOMAIN Domain /\ \A p \in DOMAIN Domain : Defaults[p] \in Domain[p]
  BY Facts DEF Domain, Defaults
<1>2. sampleRate \in Rates
  <2>1. \E rate \in Rates : TRUE
    BY CompressorAssumption
  <2> QED
    BY <2>1 DEF Init
<1>3. Silent \in Traces
  BY Facts DEF Silent, Traces, Ages, Unclear
<1>4. DOMAIN pending = {}
  BY DEF Init
<1>5. cores \in [Channel -> CoreOf] /\ \A c \in Channel : cores[c].lookahead <= cores[c].maxLookahead
  BY EmptyLine, Facts DEF Init, CoreOf, Memory
<1>6. MaxEdits \in Nat
  BY CompressorAssumption
<1>7. Shapes
  BY <1>1, <1>2, <1>3, <1>4, <1>5, <1>6, Facts DEF Init, Shapes
<1>8. Active(numChannels) = {}
  BY Facts DEF Init, Active
<1>9. LinkedDetectorHears
  BY Facts DEF Init, LinkedDetectorHears
<1> QED
  BY <1>5, <1>7, <1>8, <1>9 DEF CompressorInv, DelaysAgree, LinesRan, LatencyIsDelay

\* setParameter(): only what is pending changes.
LEMMA SetParameterInv ==
  ASSUME CompressorInv, SetParameter
  PROVE  CompressorInv'
<1>1. UNCHANGED <<cores, numChannels, sampleRate, settings, latencySamples, main>>
  BY DEF SetParameter
<1>2. /\ stream' = [run |-> stream.run, edits |-> stream.edits + 1]
      /\ stream.edits < MaxEdits /\ stream.edits \in 0..MaxEdits /\ stream.run \in 0..Budget + 2
  BY DEF SetParameter, Edited, CompressorInv, Shapes
<1>3. PICK p \in DOMAIN Domain : \E v \in Domain[p] :
         pending' = [q \in DOMAIN pending \cup {p} |-> IF q = p THEN v ELSE pending[q]]
  BY DEF SetParameter
<1>4. PICK v \in Domain[p] : pending' = [q \in DOMAIN pending \cup {p} |-> IF q = p THEN v ELSE pending[q]]
  BY <1>3
<1>5. /\ DOMAIN pending' = DOMAIN pending \cup {p}
      /\ \A q \in DOMAIN pending' : pending'[q] = IF q = p THEN v ELSE pending[q]
  BY <1>4
<1>6. stream'.run = stream.run /\ stream'.edits \in 0..MaxEdits
      /\ stream' = [run |-> stream'.run, edits |-> stream'.edits]
  BY <1>2, CompressorAssumption
<1>7. /\ DOMAIN pending' \subseteq DOMAIN Domain
      /\ \A q \in DOMAIN pending' : pending'[q] \in Domain[q]
  BY <1>5 DEF CompressorInv, Shapes
<1>8. Shapes'
  BY <1>1, <1>2, <1>6, <1>7 DEF CompressorInv, Shapes
<1>9. (DelaysAgree /\ LinesRan /\ LatencyIsDelay /\ LinkedDetectorHears)'
  BY <1>1, <1>6 DEF CompressorInv, DelaysAgree, LinesRan, LatencyIsDelay, LinkedDetectorHears, Active
<1> QED
  BY <1>1, <1>8, <1>9 DEF CompressorInv

\* What prepare() and reset() have in common: lines, detectors and smoothers of
\* n channels cleared, limited to what the rate allows, and given their delay.
LEMMA ClearedInv ==
  ASSUME CompressorInv, Edited, Stopped, UNCHANGED <<settings, pending>>,
         NEW n \in 0..Cardinality(Channel), NEW rate \in Rates,
         numChannels' = n, sampleRate' = rate,
         NEW ready \in [Channel -> CoreOf],
         \A c \in Channel :
           IF c \in Active(n) THEN /\ ready[c].maxLookahead = Least(MaxSeconds * rate, Budget)
                                   /\ ready[c].line = Line(Budget + 1)
           ELSE ready[c].lookahead <= ready[c].maxLookahead,
         ready[0].detector # "stale",
         cores' = Delayed(ready, n, settings.lookahead, rate),
         latencySamples' = Reported(settings.lookahead, rate)
  PROVE  CompressorInv'
<1> DEFINE seconds == settings.lookahead
<1>1. seconds \in 0..MaxSeconds
  BY Domains DEF CompressorInv, Shapes
<1> HIDE DEF seconds
<1>2. /\ cores' \in [Channel -> CoreOf]
      /\ \A c \in Channel : /\ cores'[c].lookahead <= cores'[c].maxLookahead
                            /\ cores'[c].line = ready[c].line
                            /\ cores'[c].detector = ready[c].detector
                            /\ cores'[c].maxLookahead = ready[c].maxLookahead
      /\ \A c \in Active(n) : cores'[c].lookahead = latencySamples'
  BY <1>1, DelayedCores DEF seconds
<1>3. latencySamples' \in 0..Budget
  <2>1. PICK core \in CoreOf : TRUE
    BY Facts
  <2> QED
    BY <1>1, <2>1, ReportedIsSet DEF seconds
<1>4. /\ stream' = [run |-> 0, edits |-> stream.edits + 1] /\ main' = [c \in Channel |-> Silent]
      /\ stream.edits + 1 \in 0..MaxEdits
  BY CompressorAssumption DEF Stopped, Edited, CompressorInv, Shapes
<1>5. stream' = [run |-> stream'.run, edits |-> stream'.edits] /\ stream'.run = 0
      /\ stream'.edits \in 0..MaxEdits
  BY <1>4
<1>6. Silent \in Traces
  BY Facts DEF Silent, Traces, Ages, Unclear
<1>7. main' \in [Channel -> Traces]
  BY <1>4, <1>6
<1>8. Shapes'
  <2>1. numChannels' \in 0..Cardinality(Channel) /\ sampleRate' \in Rates
    OBVIOUS
  <2>2. cores' \in [Channel -> CoreOf]
    BY <1>2
  <2>3. stream'.run \in 0..Budget + 2
    BY <1>5, Facts
  <2>4. UNCHANGED <<settings, pending>> /\ Shapes
    BY DEF CompressorInv
  <2> QED
    BY <1>3, <1>5, <1>7, <2>1, <2>2, <2>3, <2>4 DEF Shapes
<1>9. Active(numChannels)' = Active(n) /\ \A c \in Active(n) : c \in Channel
  BY DEF Active
<1>10. DelaysAgree'
  BY <1>2, <1>9 DEF DelaysAgree
<1>11. LinesRan'
  BY <1>2, <1>5, <1>9, EmptyLine DEF LinesRan
<1>12. LatencyIsDelay'
  BY <1>3, <1>5 DEF LatencyIsDelay
<1>13. LinkedDetectorHears'
  BY <1>2, Facts DEF LinkedDetectorHears
<1> QED
  BY <1>2, <1>8, <1>10, <1>11, <1>12, <1>13 DEF CompressorInv

\* CompressorCore::reset() clears the line and the detector and keeps the delay.
LEMMA ResetCoreOf ==
  ASSUME NEW core \in CoreOf
  PROVE  /\ ResetCore(core) \in CoreOf
         /\ ResetCore(core).line = Line(Budget + 1) /\ ResetCore(core).detector = "clear"
         /\ ResetCore(core).lookahead = core.lookahead
         /\ ResetCore(core).maxLookahead = core.maxLookahead
BY EmptyLine DEF ResetCore, CoreOf, Memory

\* prepare(): each channel of the context is limited, cleared and given its delay.
LEMMA PrepareInv ==
  ASSUME CompressorInv, Prepare
  PROVE  CompressorInv'
<1>1. PICK n \in 1..Cardinality(Channel), rate \in Rates :
        LET limit == Least(MaxSeconds * rate, Budget)
            ready == [c \in Channel |->
                        IF c \in Active(n) THEN [ResetCore(cores[c]) EXCEPT !.maxLookahead = limit]
                        ELSE cores[c]]
        IN  /\ numChannels' = n /\ sampleRate' = rate
            /\ cores' = Delayed(ready, n, settings.lookahead, rate)
            /\ latencySamples' = Reported(settings.lookahead, rate)
  BY DEF Prepare
<1> DEFINE limit == Least(MaxSeconds * rate, Budget)
           ready == [c \in Channel |->
                       IF c \in Active(n) THEN [ResetCore(cores[c]) EXCEPT !.maxLookahead = limit]
                       ELSE cores[c]]
<1>2. limit \in 0..Budget
  <2>1. MaxSeconds * rate \in Nat
    BY Facts
  <2> DEFINE most == MaxSeconds * rate
  <2> HIDE DEF most
  <2>2. Least(most, Budget) \in 0..Budget
    BY <2>1, Facts DEF Least, most
  <2> QED
    BY <2>2 DEF most
<1>3. cores \in [Channel -> CoreOf] /\ \A c \in Channel : cores[c].lookahead <= cores[c].maxLookahead
  BY DEF CompressorInv, Shapes
<1> HIDE DEF limit
<1>4. ASSUME NEW c \in Channel
      PROVE  /\ [ResetCore(cores[c]) EXCEPT !.maxLookahead = limit] \in CoreOf
             /\ [ResetCore(cores[c]) EXCEPT !.maxLookahead = limit].maxLookahead = limit
             /\ [ResetCore(cores[c]) EXCEPT !.maxLookahead = limit].line = Line(Budget + 1)
             /\ [ResetCore(cores[c]) EXCEPT !.maxLookahead = limit].detector = "clear"
  <2>1. cores[c] \in CoreOf
    BY <1>3
  <2>2. ResetCore(cores[c]) \in CoreOf
        /\ ResetCore(cores[c]).line = Line(Budget + 1) /\ ResetCore(cores[c]).detector = "clear"
    BY <2>1, ResetCoreOf
  <2> QED
    BY <1>2, <2>2 DEF CoreOf
<1>5. ready \in [Channel -> CoreOf]
  BY <1>3, <1>4
<1>6. \A c \in Channel :
        IF c \in Active(n) THEN ready[c].maxLookahead = limit /\ ready[c].line = Line(Budget + 1)
        ELSE ready[c].lookahead <= ready[c].maxLookahead
  BY <1>3, <1>4
<1>7. ready[0].detector # "stale"
  <2>1. 0 \in Channel /\ 0 \in Active(n)
    BY Facts DEF Active
  <2> QED
    BY <1>4, <2>1
<1>8. /\ numChannels' = n /\ sampleRate' = rate
      /\ cores' = Delayed(ready, n, settings.lookahead, rate)
      /\ latencySamples' = Reported(settings.lookahead, rate)
  BY <1>1 DEF limit
<1>9. Edited /\ Stopped /\ UNCHANGED <<settings, pending>>
  BY DEF Prepare
<1>10. n \in 0..Cardinality(Channel)
  BY Facts
<1> HIDE DEF ready
<1> QED
  BY <1>5, <1>6, <1>7, <1>8, <1>9, <1>10, ClearedInv DEF limit

\* reset(): as prepare(), with the channels and the limits there are.
LEMMA ResetInv ==
  ASSUME CompressorInv, Reset
  PROVE  CompressorInv'
<1> DEFINE n == numChannels
           ready == [c \in Channel |-> IF c \in Active(n) THEN ResetCore(cores[c]) ELSE cores[c]]
<1>1. /\ n \in 0..Cardinality(Channel) /\ sampleRate \in Rates
      /\ cores \in [Channel -> CoreOf] /\ cores[0].detector # "stale"
      /\ \A c \in Channel : cores[c].lookahead <= cores[c].maxLookahead
      /\ \A c \in Active(n) : cores[c].maxLookahead = Least(MaxSeconds * sampleRate, Budget)
  BY DEF CompressorInv, Shapes, DelaysAgree, LinkedDetectorHears
<1>2. ASSUME NEW c \in Channel
      PROVE  /\ ResetCore(cores[c]) \in CoreOf
             /\ ResetCore(cores[c]).line = Line(Budget + 1) /\ ResetCore(cores[c]).detector = "clear"
             /\ ResetCore(cores[c]).maxLookahead = cores[c].maxLookahead
  <2>1. cores[c] \in CoreOf
    BY <1>1
  <2> QED
    BY <2>1, ResetCoreOf
<1>3. ready \in [Channel -> CoreOf]
  BY <1>1, <1>2
<1>4. \A c \in Channel :
        IF c \in Active(n) THEN /\ ready[c].maxLookahead = Least(MaxSeconds * sampleRate, Budget)
                                /\ ready[c].line = Line(Budget + 1)
        ELSE ready[c].lookahead <= ready[c].maxLookahead
  BY <1>1, <1>2
<1>5. ready[0].detector # "stale"
  BY <1>1, <1>2, Facts
<1>6. /\ Edited /\ Stopped /\ UNCHANGED <<settings, pending>>
      /\ numChannels' = n /\ sampleRate' = sampleRate
      /\ cores' = Delayed(ready, n, settings.lookahead, sampleRate)
      /\ latencySamples' = Reported(settings.lookahead, sampleRate)
  BY DEF Reset
<1> HIDE DEF ready, n
<1> QED
  BY <1>1, <1>3, <1>4, <1>5, <1>6, ClearedInv

\* What a core reads is a trace.
LEMMA ReadType ==
  ASSUME NEW line \in LineOf, NEW samples \in 0..Budget
  PROVE  ReadFractional(line, samples * Ticks) \in Traces
<1>1. IsLine(line, Budget + 1) /\ Budget + 1 \in Nat \ {0} /\ samples * Ticks \in Nat
  BY LineIsLine, Facts
<1> QED
  BY <1>1, Facts, ReadIsTrace

\* applyPending(): every value still in its parameter's domain.
LEMMA CurrentType ==
  ASSUME Shapes
  PROVE  /\ DOMAIN Current = DOMAIN Domain
         /\ \A p \in DOMAIN Domain : Current[p] \in Domain[p]
BY DEF Shapes, Current

\* The delay of every prepared channel and what the host is told, once process()
\* has applied the pending edits.
LEMMA PushedCores ==
  ASSUME CompressorInv
  PROVE  LET pushed == IF "lookahead" \in DOMAIN pending
                       THEN Delayed(cores, numChannels, Current.lookahead, sampleRate) ELSE cores
             told   == IF "lookahead" \in DOMAIN pending
                       THEN Reported(Current.lookahead, sampleRate) ELSE latencySamples
         IN  /\ pushed \in [Channel -> CoreOf] /\ told \in 0..Budget
             /\ \A c \in Channel : /\ pushed[c].lookahead <= pushed[c].maxLookahead
                                   /\ pushed[c].line = cores[c].line
                                   /\ pushed[c].detector = cores[c].detector
                                   /\ pushed[c].maxLookahead = cores[c].maxLookahead
             /\ \A c \in Active(numChannels) : pushed[c].lookahead = told
<1> DEFINE seconds == Current.lookahead
           moved   == Delayed(cores, numChannels, seconds, sampleRate)
<1>1. /\ cores \in [Channel -> CoreOf] /\ sampleRate \in Rates /\ latencySamples \in 0..Budget
      /\ \A c \in Channel : cores[c].lookahead <= cores[c].maxLookahead
      /\ \A c \in Active(numChannels) : /\ cores[c].lookahead = latencySamples
                                        /\ cores[c].maxLookahead = Least(MaxSeconds * sampleRate, Budget)
      /\ Shapes
  BY DEF CompressorInv, Shapes, DelaysAgree
<1>2. seconds \in 0..MaxSeconds
  BY <1>1, CurrentType, Domains
<1>3. \A c \in Channel :
        IF c \in Active(numChannels) THEN cores[c].maxLookahead = Least(MaxSeconds * sampleRate, Budget)
        ELSE cores[c].lookahead <= cores[c].maxLookahead
  BY <1>1
<1> HIDE DEF seconds
<1>4. /\ moved \in [Channel -> CoreOf]
      /\ \A c \in Channel : /\ moved[c].lookahead <= moved[c].maxLookahead
                            /\ moved[c].line = cores[c].line
                            /\ moved[c].detector = cores[c].detector
                            /\ moved[c].maxLookahead = cores[c].maxLookahead
      /\ \A c \in Active(numChannels) : moved[c].lookahead = Reported(seconds, sampleRate)
  BY <1>1, <1>2, <1>3, DelayedCores
<1>5. Reported(seconds, sampleRate) \in 0..Budget
  <2>1. PICK core \in CoreOf : TRUE
    BY <1>1, Facts
  <2> QED
    BY <1>1, <1>2, <2>1, ReportedIsSet
<1> HIDE DEF moved
<1>6. CASE "lookahead" \in DOMAIN pending
  BY <1>4, <1>5, <1>6 DEF moved, seconds
<1>7. CASE "lookahead" \notin DOMAIN pending
  BY <1>1, <1>7
<1> QED
  BY <1>6, <1>7

\* One sample leaves a line a line.
LEMMA SampledLine ==
  ASSUME NEW core \in CoreOf
  PROVE  Write(LineAged(core.line), Input) \in LineOf
<1>1. core.line \in LineOf
  BY DEF CoreOf
<1>2. IsLine(core.line, Budget + 1) /\ Budget + 1 \in Nat \ {0}
  BY <1>1, LineIsLine, Facts
<1>3. IsLine(LineAged(core.line), Budget + 1) /\ Input \in Traces
  BY <1>2, Facts, LineAgedType, InputType
<1>4. IsLine(Write(LineAged(core.line), Input), Budget + 1)
  BY <1>2, <1>3, Facts, WriteType
<1> QED
  BY <1>4, LineIsLine

\* A memory that runs is not stale unless it was.
LEMMA Memories ==
  ASSUME NEW m \in Memory
  PROVE  Ran(m) \in Memory /\ Stood(m) \in Memory /\ (m # "stale" => Ran(m) # "stale")
BY DEF Ran, Stood, Memory

\* applyGain(): the line, and nothing else.
LEMMA AppliedCore ==
  ASSUME NEW core \in CoreOf
  PROVE  /\ Applied(core) \in CoreOf
         /\ Applied(core).line = Write(LineAged(core.line), Input)
         /\ Applied(core).lookahead = core.lookahead
         /\ Applied(core).maxLookahead = core.maxLookahead
         /\ Applied(core).detector = core.detector /\ Applied(core).smoother = core.smoother
<1> DEFINE line == Write(LineAged(core.line), Input)
<1>1. line \in LineOf
  BY SampledLine
<1> HIDE DEF line
<1>2. Applied(core) = [core EXCEPT !.line = line]
  BY DEF Applied, line, CoreOf
<1>3. /\ Applied(core) \in CoreOf /\ Applied(core).line = line
      /\ Applied(core).lookahead = core.lookahead /\ Applied(core).maxLookahead = core.maxLookahead
      /\ Applied(core).detector = core.detector /\ Applied(core).smoother = core.smoother
  BY <1>1, <1>2 DEF CoreOf
<1> QED
  BY <1>3 DEF line

\* detectGainLin(): the two memories, and nothing else.
LEMMA DetectedCore ==
  ASSUME NEW core \in CoreOf, NEW site
  PROVE  /\ Detected(core, site) \in CoreOf
         /\ Detected(core, site).line = core.line
         /\ Detected(core, site).lookahead = core.lookahead
         /\ Detected(core, site).maxLookahead = core.maxLookahead
         /\ core.detector # "stale" => Detected(core, site).detector # "stale"
<1>1. core.detector \in Memory /\ core.smoother \in Memory
  BY DEF CoreOf
<1>2. Detected(core, site) =
        [core EXCEPT !.detector = Ran(core.detector),
                     !.smoother = IF site = "gain" THEN Ran(core.smoother) ELSE Stood(core.smoother)]
  BY DEF Detected, CoreOf
<1> QED
  BY <1>1, <1>2, Memories DEF CoreOf

\* A core that is linked to another: its line runs, its memories stand still.
LEMMA LinkedCore ==
  ASSUME NEW core \in CoreOf
  PROVE  LET linked == [Applied(core) EXCEPT !.detector = Stood(@), !.smoother = Stood(@)]
         IN  /\ linked \in CoreOf
             /\ linked.line = Write(LineAged(core.line), Input)
             /\ linked.lookahead = core.lookahead /\ linked.maxLookahead = core.maxLookahead
<1> DEFINE ran == Applied(core)
<1>1. /\ ran \in CoreOf /\ ran.line = Write(LineAged(core.line), Input)
      /\ ran.lookahead = core.lookahead /\ ran.maxLookahead = core.maxLookahead
  BY AppliedCore
<1> HIDE DEF ran
<1>2. ran.detector \in Memory /\ ran.smoother \in Memory
  BY <1>1 DEF CoreOf
<1> DEFINE linked == [ran EXCEPT !.detector = Stood(ran.detector),
                                     !.smoother = Stood(ran.smoother)]
<1>3. /\ linked \in CoreOf /\ linked.line = ran.line
      /\ linked.lookahead = ran.lookahead /\ linked.maxLookahead = ran.maxLookahead
  BY <1>1, <1>2, Memories DEF CoreOf
<1> QED
  BY <1>1, <1>3 DEF ran

\* process(): the pending edits, then one sample on every prepared channel.
LEMMA ProcessInv ==
  ASSUME CompressorInv, Process
  PROVE  CompressorInv'
<1> DEFINE pushed == IF "lookahead" \in DOMAIN pending
                     THEN Delayed(cores, numChannels, Current.lookahead, sampleRate) ELSE cores
           told   == IF "lookahead" \in DOMAIN pending
                     THEN Reported(Current.lookahead, sampleRate) ELSE latencySamples
           runs   == Detecting(Current.stereoLink)
           next   == [c \in Channel |->
                        IF c \notin Active(numChannels) THEN pushed[c]
                        ELSE IF c \in runs THEN Applied(Detected(pushed[c], Current.site))
                        ELSE [Applied(pushed[c]) EXCEPT !.detector = Stood(@), !.smoother = Stood(@)]]
           C == Budget + 1
<1>1. /\ settings' = Current /\ pending' = <<>> /\ cores' = next /\ latencySamples' = told
      /\ main' = [c \in Channel |-> IF c \in Active(numChannels)
                                    THEN ReadFractional(next[c].line, next[c].lookahead * Ticks)
                                    ELSE Silent]
      /\ stream' = [stream EXCEPT !.run = Least(@ + 1, Budget + 2)]
      /\ UNCHANGED <<numChannels, sampleRate>>
  BY DEF Process
<1>2. /\ pushed \in [Channel -> CoreOf] /\ told \in 0..Budget
      /\ \A c \in Channel : /\ pushed[c].lookahead <= pushed[c].maxLookahead
                            /\ pushed[c].line = cores[c].line
                            /\ pushed[c].detector = cores[c].detector
                            /\ pushed[c].maxLookahead = cores[c].maxLookahead
      /\ \A c \in Active(numChannels) : pushed[c].lookahead = told
  BY PushedCores
<1>3. /\ Shapes /\ DelaysAgree /\ LinesRan /\ LinkedDetectorHears
      /\ stream.run \in 0..Budget + 2 /\ stream.edits \in 0..MaxEdits
      /\ stream = [run |-> stream.run, edits |-> stream.edits]
      /\ numChannels \in 0..Cardinality(Channel)
  BY DEF CompressorInv, Shapes
<1> HIDE DEF pushed, told, runs
<1>4. ASSUME NEW c \in Channel
      PROVE  /\ next[c] \in CoreOf
             /\ next[c].lookahead = pushed[c].lookahead /\ next[c].maxLookahead = pushed[c].maxLookahead
             /\ c \in Active(numChannels) => next[c].line = Write(LineAged(cores[c].line), Input)
             /\ c \in runs /\ pushed[c].detector # "stale" => next[c].detector # "stale"
             /\ c \notin Active(numChannels) => next[c] = pushed[c]
  <2>1. pushed[c] \in CoreOf
    BY <1>2
  <2>2. CASE c \notin Active(numChannels)
    BY <1>2, <2>1, <2>2
  <2>3. CASE c \in Active(numChannels) /\ c \in runs
    <3>1. next[c] = Applied(Detected(pushed[c], Current.site))
      BY <2>3
    <3> HIDE DEF next
    <3> DEFINE core  == pushed[c]
               attended == Detected(core, Current.site)
    <3>2. core \in CoreOf
      BY <2>1
    <3> HIDE DEF core
    <3>3. /\ attended \in CoreOf /\ attended.line = core.line
          /\ attended.lookahead = core.lookahead /\ attended.maxLookahead = core.maxLookahead
          /\ core.detector # "stale" => attended.detector # "stale"
      BY <3>2, DetectedCore
    <3>4. next[c] = Applied(attended)
      BY <3>1 DEF core
    <3> HIDE DEF attended
    <3>5. /\ next[c] \in CoreOf /\ next[c].line = Write(LineAged(attended.line), Input)
          /\ next[c].lookahead = attended.lookahead /\ next[c].maxLookahead = attended.maxLookahead
          /\ next[c].detector = attended.detector
      BY <3>3, <3>4, AppliedCore
    <3> QED
      BY <1>2, <2>3, <3>3, <3>5 DEF core
  <2>4. CASE c \in Active(numChannels) /\ c \notin runs
    <3> DEFINE core   == pushed[c]
               linked == [Applied(core) EXCEPT !.detector = Stood(@), !.smoother = Stood(@)]
    <3>1. next[c] = linked
      BY <2>4
    <3>2. core \in CoreOf
      BY <2>1
    <3> HIDE DEF next, core
    <3>3. /\ linked \in CoreOf /\ linked.line = Write(LineAged(core.line), Input)
          /\ linked.lookahead = core.lookahead /\ linked.maxLookahead = core.maxLookahead
      BY <3>2, LinkedCore
    <3> HIDE DEF linked
    <3> QED
      BY <1>2, <2>4, <3>1, <3>3 DEF core
  <2> QED
    BY <2>2, <2>3, <2>4
<1>5. next \in [Channel -> CoreOf]
  BY <1>4
<1> HIDE DEF next
<1>6. /\ stream' = [run |-> stream'.run, edits |-> stream'.edits]
      /\ stream'.run = Least(stream.run + 1, Budget + 2) /\ stream'.edits = stream.edits
      /\ stream'.run \in 0..Budget + 2
  <2> DEFINE one == Least(stream.run + 1, Budget + 2)
  <2>1. one \in 0..Budget + 2
    BY <1>3, Facts DEF Least
  <2> HIDE DEF one
  <2>2. stream' = [run |-> one, edits |-> stream.edits]
    BY <1>1, <1>3 DEF one
  <2> QED
    BY <2>1, <2>2 DEF one
<1>7. /\ C \in Nat \ {0} /\ TraceConstants /\ (C - 1) * Ticks <= Horizon /\ Ticks \in Nat
      /\ Budget \in Nat
  BY Facts, CompressorAssumption
<1>8. ASSUME NEW c \in Active(numChannels)
      PROVE  /\ IsLine(cores'[c].line, C) /\ Recent(cores'[c].line, C, stream'.run)
             /\ Recent(cores'[c].line, C, stream.run + 1)
  <2>1. c \in Channel
    BY DEF Active
  <2>2. IsLine(cores[c].line, C)
    <3>1. cores[c].line \in LineOf
      BY <1>3, <2>1 DEF Shapes, CoreOf
    <3> QED
      BY <3>1, LineIsLine
  <2>3. Recent(cores[c].line, C, stream.run) /\ stream.run \in Nat
    BY <1>3, <2>1 DEF LinesRan
  <2>4. cores'[c].line = Write(LineAged(cores[c].line), Input)
    BY <1>1, <1>4, <2>1
  <2> HIDE DEF C
  <2>5. Recent(cores'[c].line, C, stream.run + 1)
    BY <1>7, <2>2, <2>3, <2>4, WriteIsRecent
  <2>6. Input \in Traces /\ IsLine(LineAged(cores[c].line), C)
    BY <1>7, <2>2, InputType, LineAgedType
  <2>7. IsLine(cores'[c].line, C)
    BY <1>7, <2>4, <2>6, WriteType
  <2>8. stream'.run <= stream.run + 1
    BY <1>3, <1>6, <1>7 DEF Least
  <2> QED
    BY <1>3, <1>6, <2>5, <2>7, <2>8 DEF Recent, Spaced
<1>9. \A c \in Active(numChannels) : cores'[c].lookahead = told
  <2>1. \A c \in Active(numChannels) : c \in Channel
    BY DEF Active
  <2> QED
    BY <1>1, <1>2, <1>4, <2>1
<1>10. main' \in [Channel -> Traces]
  <2>1. ASSUME NEW c \in Channel PROVE ReadFractional(next[c].line, next[c].lookahead * Ticks) \in Traces
    <3>1. next[c].line \in LineOf /\ next[c].lookahead \in 0..Budget
      BY <1>5 DEF CoreOf
    <3> QED
      BY <3>1, ReadType
  <2>2. Silent \in Traces
    BY Facts DEF Silent, Traces, Ages, Unclear
  <2> QED
    BY <1>1, <2>1, <2>2
<1>11. Shapes'
  <2>1. /\ DOMAIN settings' = DOMAIN Domain
        /\ \A p \in DOMAIN Domain : settings'[p] \in Domain[p]
    BY <1>1, <1>3, CurrentType
  <2>2. DOMAIN pending' = {}
    BY <1>1
  <2>3. sampleRate' \in Rates /\ numChannels' \in 0..Cardinality(Channel)
    BY <1>1, <1>3 DEF Shapes
  <2>4. cores' \in [Channel -> CoreOf] /\ latencySamples' \in 0..Budget
    BY <1>1, <1>2, <1>5
  <2> QED
    BY <1>3, <1>6, <1>10, <2>1, <2>2, <2>3, <2>4 DEF Shapes
<1>12. \A c \in Channel : cores'[c].lookahead <= cores'[c].maxLookahead
  BY <1>1, <1>2, <1>4
<1>13. DelaysAgree'
  <2>1. Active(numChannels)' = Active(numChannels) /\ \A c \in Active(numChannels) : c \in Channel
    BY <1>1 DEF Active
  <2>2. \A c \in Active(numChannels) : cores'[c].maxLookahead = Least(MaxSeconds * sampleRate, Budget)
    BY <1>1, <1>2, <1>3, <1>4, <2>1 DEF DelaysAgree
  <2> QED
    BY <1>1, <1>9, <2>1, <2>2 DEF DelaysAgree
<1>14. LinesRan'
  BY <1>1, <1>8 DEF LinesRan, Active
<1>15. LatencyIsDelay'
  <2>1. Active(numChannels)' = Active(numChannels)
    BY <1>1 DEF Active
  <2>2. SUFFICES ASSUME NEW c \in Active(numChannels), stream'.run > told
                 PROVE  main'[c].centre = told * Ticks
    BY <1>1, <2>1 DEF LatencyIsDelay
  <2>3. c \in Channel
    BY DEF Active
  <2>4. main'[c] = ReadFractional(cores'[c].line, told * Ticks)
    BY <1>1, <1>9, <2>3
  <2> DEFINE n == Least(stream.run + 1, C)
  <2>5. n \in 1..C /\ n <= stream.run + 1
    BY <1>3, <1>7 DEF Least
  <2>6. told \in Nat /\ told <= n - 1
    BY <1>2, <1>3, <1>6, <1>7, <2>2 DEF Least
  <2> HIDE DEF n, C
  <2>7. Recent(cores'[c].line, C, n) /\ IsLine(cores'[c].line, C)
    BY <1>3, <1>8, <2>5 DEF Recent, Spaced
  <2>8. told * Ticks \in Nat /\ told * Ticks <= (n - 1) * Ticks
    BY <1>7, <2>5, <2>6, Z3
  <2>9. ReadFractional(cores'[c].line, told * Ticks).centre = told * Ticks
    <3> DEFINE line == cores'[c].line  delay == told * Ticks
    <3>1. 1 * Ticks = Ticks /\ delay \in Nat /\ 1 * delay + 0 = delay
      BY <1>7, <2>8
    <3>2. Spaced(line, C, n, 1 * Ticks, 0) /\ IsLine(line, C)
      BY <2>7, <3>1 DEF Recent
    <3> HIDE DEF line, delay
    <3>3. ReadFractional(line, delay).centre = 1 * delay + 0
      BY <1>7, <2>5, <2>8, <3>1, <3>2, ReadFractionalIsExact DEF delay
    <3> QED
      BY <3>1, <3>3 DEF line, delay
  <2> QED
    BY <2>4, <2>9
<1>16. LinkedDetectorHears'
  <2>1. 0 \in Channel /\ Cardinality(Channel) \in Nat
    BY Facts
  <2>2. pushed[0].detector # "stale"
    BY <1>2, <1>3, <2>1 DEF LinkedDetectorHears
  <2>3. 0 \in Active(numChannels) => 0 \in runs
    BY DEF runs, Detecting
  <2> QED
    BY <1>1, <1>4, <2>1, <2>2, <2>3 DEF LinkedDetectorHears
<1> QED
  BY <1>11, <1>12, <1>13, <1>14, <1>15, <1>16 DEF CompressorInv

\* The inductive invariant holds in every reachable state.
LEMMA NextCompressor ==
  ASSUME CompressorInv, [Next]_vars
  PROVE  CompressorInv'
<1>1. CASE UNCHANGED vars
  BY <1>1 DEF vars, CompressorInv, Shapes, DelaysAgree, LinesRan, LatencyIsDelay,
              LinkedDetectorHears, Active
<1> QED
  BY <1>1, SetParameterInv, PrepareInv, ResetInv, ProcessInv DEF Next

\* Every prepared channel's line and two clamps stay in step with the report,
\* whatever is edited, prepared, reset and played, and in whatever order.
THEOREM CompressorInductive == Spec => []CompressorInv
<1>1. CompressorInv /\ [Next]_vars => CompressorInv'
  BY NextCompressor
<1> QED
  BY <1>1, InitCompressor, PTL DEF Spec

\* The types that a run checks are among the invariant's.
LEMMA CompressorShows ==
  ASSUME CompressorInv
  PROVE  TypeOK
<1>1. Shapes
  BY DEF CompressorInv
<1>2. ASSUME NEW c \in Channel
      PROVE  /\ cores[c].maxLookahead \in 0..Budget
             /\ cores[c].lookahead \in 0..cores[c].maxLookahead
             /\ cores[c].detector \in Memory /\ cores[c].smoother \in Memory
  <2>1. cores[c] \in CoreOf /\ cores[c].lookahead <= cores[c].maxLookahead
    BY <1>1 DEF CompressorInv, Shapes
  <2> QED
    BY <2>1 DEF CoreOf
<1> QED
  BY <1>1, <1>2 DEF TypeOK, Shapes

\* Types and ranges (compressor-effect.h).
THEOREM CompressorTypes == Spec => []TypeOK
<1> QED
  BY CompressorShows, CompressorInductive, PTL

\* FR-021: every channel is late by what the host is told.
THEOREM LatencyIsTheDelay == Spec => []LatencyIsDelay
<1>1. CompressorInv => LatencyIsDelay
  BY DEF CompressorInv
<1> QED
  BY <1>1, CompressorInductive, PTL

\* The detector a linked stream hears has heard all of it: no change of link, site,
\* rate or width lets it stand (compressor-effect.h).
THEOREM LinkedDetectorRuns == Spec => []LinkedDetectorHears
<1>1. CompressorInv => LinkedDetectorHears
  BY DEF CompressorInv
<1> QED
  BY <1>1, CompressorInductive, PTL

-----------------------------------------------------------------------------
(* The level detector                                                      *)

\* No level was not heard.
FollowerLevels == heard \in Int /\ EnvelopeWasHeard

\* A number between two is in any interval that holds both.
LEMMA TowardStays ==
  ASSUME NEW h \in Int, NEW a \in 0..h, NEW b \in 0..h, NEW y \in Toward(a, b)
  PROVE  y \in 0..h
BY DEF Toward, Smaller, Larger

\* The level that is detected was heard, and so is what its memories hold.
LEMMA DetectHears ==
  ASSUME NEW x \in Nat, FollowerLevels, ProcessSample(x)
  PROVE  /\ meanSquare' \in 0..heard' /\ heldPeak' \in 0..heard'
         /\ DetectedLevel(x) \in 0..heard'
<1>1. /\ heard' \in Int /\ heard <= heard' /\ x \in 0..heard'
      /\ meanSquare \in 0..heard' /\ heldPeak \in 0..heard'
  BY DEF FollowerLevels, EnvelopeWasHeard, ProcessSample, Larger
<1>2. meanSquare' \in 0..heard'
  <2>1. CASE mode = "rms"
    <3>1. meanSquare' \in Toward(meanSquare, x)
      BY <2>1, Zenon DEF ProcessSample, Detect
    <3> QED
      BY <3>1, <1>1, TowardStays, Zenon
  <2>2. CASE mode # "rms"
    BY <2>2, <1>1 DEF ProcessSample, Detect
  <2> QED
    BY <2>1, <2>2
<1>3. heldPeak' \in 0..heard'
  BY <1>1 DEF ProcessSample, Detect, Held
<1> QED
  BY <1>1, <1>2, <1>3 DEF DetectedLevel

\* The smoother goes from what it held towards the level.
LEMMA SmoothingHears ==
  ASSUME NEW h \in Int, env \in 0..h, y1 \in 0..h, NEW level \in 0..h, ApplySmoothing(level)
  PROVE  env' \in 0..h /\ y1' \in 0..h
<1>1. CASE ballistics = "branching"
  <2>1. env' \in Toward(env, level) /\ y1' = y1
    BY <1>1, Zenon DEF ApplySmoothing
  <2> QED
    BY <2>1, TowardStays, Zenon
<1>2. CASE ballistics # "branching"
  <2>1. y1' \in level..Larger(level, y1) /\ env' \in Toward(env, y1')
    BY <1>2, Zenon DEF ApplySmoothing
  <2>2. y1' \in 0..h
    BY <2>1 DEF Larger
  <2> QED
    BY <2>1, <2>2, TowardStays, Zenon
<1> QED
  BY <1>1, <1>2

\* What a sample leaves was heard.
LEMMA ProcessHears ==
  ASSUME NEW x \in Nat, FollowerLevels, ProcessSample(x)
  PROVE  FollowerLevels'
<1>1. /\ heard' \in Int /\ env \in 0..heard' /\ y1 \in 0..heard'
  BY DEF FollowerLevels, EnvelopeWasHeard, ProcessSample, Larger
<1>2. DetectedLevel(x) \in 0..heard' /\ ApplySmoothing(DetectedLevel(x))
  BY DetectHears DEF ProcessSample
<1>3. env' \in 0..heard' /\ y1' \in 0..heard'
  BY <1>1, <1>2, SmoothingHears, Zenon
<1> QED
  BY <1>1, <1>3, DetectHears DEF FollowerLevels, EnvelopeWasHeard

\* No action reports a level that was not heard.
LEMMA LevelsStep ==
  ASSUME DynamicsConstants, FollowerLevels, [FollowerNext]_followerVars
  PROVE  FollowerLevels'
<1>1. CASE \E x \in 0..Top : ProcessSample(x)
  <2>1. PICK x \in 0..Top : ProcessSample(x)
    BY <1>1
  <2>2. x \in Nat
    BY DEF DynamicsConstants
  <2> QED
    BY <2>1, <2>2, ProcessHears
<1>2. CASE FollowerReset
  BY <1>2 DEF FollowerReset, ClearRuntimeState, Cleared, Floor, FollowerLevels, EnvelopeWasHeard
<1>3. CASE \E m \in {"peak", "rms", "peakHold"} : SetMode(m)
  BY <1>3 DEF SetMode, memory, FollowerLevels, EnvelopeWasHeard
<1>4. CASE \E b \in {"branching", "decoupled"} : SetBallistics(b)
  BY <1>4 DEF SetBallistics, memory, FollowerLevels, EnvelopeWasHeard
<1>5. CASE \E d \in {"linear", "decibel"} : SetDomain(d)
  BY <1>5 DEF SetDomain, Cleared, Floor, FollowerLevels, EnvelopeWasHeard
<1>6. CASE \E n \in HoldTimes : SetHold(n)
  BY <1>6 DEF SetHold, memory, FollowerLevels, EnvelopeWasHeard
<1>7. CASE UNCHANGED followerVars
  BY <1>7 DEF followerVars, memory, FollowerLevels, EnvelopeWasHeard
<1> QED
  BY <1>1, <1>2, <1>3, <1>4, <1>5, <1>6, <1>7, Zenon DEF FollowerNext

\* However it is switched, a follower reports and keeps no level above what it
\* was given since it was cleared.
THEOREM FollowersHear ==
  ASSUME DynamicsConstants
  PROVE  FollowerSpec => []EnvelopeWasHeard
<1>1. FollowerInit => FollowerLevels
  BY DEF FollowerInit, Floor, FollowerLevels, EnvelopeWasHeard
<1>2. FollowerLevels /\ [FollowerNext]_followerVars => FollowerLevels'
  BY LevelsStep
<1>3. FollowerLevels => EnvelopeWasHeard
  BY DEF FollowerLevels
<1> QED
  BY <1>1, <1>2, <1>3, PTL DEF FollowerSpec

-----------------------------------------------------------------------------
(* The hold of the follower                                                *)

\* The recorded inputs, once none is masked by a longer hold.
Recorded ==
  /\ holdSamples \in Nat /\ holdCounter \in Nat /\ heldPeak \in Int
  /\ recent \in Seq(Int) /\ Len(recent) <= Lookback
  /\ recent # <<>> => holdCounter <= holdSamples

\* What is held was given no longer ago than its hold has run, or before all
\* that is recorded: so it masks no input but for the hold time.
MaskFades ==
  recent # <<>> =>
    \/ Len(recent) <= holdSamples - holdCounter
    \/ \E j \in 1..holdSamples - holdCounter + 1 : j <= Len(recent) /\ heldPeak <= recent[j]

\* The i-th last input stood out from the hold time before it.
StoodOut(s, h, i) ==
  /\ i \in 1..h + 1 /\ i + h + 1 <= Len(s)
  /\ \A j \in i + 1..i + h + 1 : s[j] < s[i]

\* A peak is held, and its hold has as long to run as is left of it.
HoldRuns ==
  \A i \in 1..holdSamples + 1 :
    StoodOut(recent, holdSamples, i) =>
      heldPeak >= recent[i] /\ holdCounter >= holdSamples + 1 - i

HoldInv == Recorded /\ MaskFades /\ HoldRuns

\* An input in front of the recorded ones.
LEMMA RecordInput ==
  ASSUME NEW x \in Int, Recorded, ProcessSample(x), mode = "peakHold", holdCounter <= holdSamples
  PROVE  /\ recent' \in Seq(Int) /\ recent'[1] = x
         /\ Len(recent') = Smaller(2 * (holdSamples + 1), Len(recent) + 1)
         /\ \A k \in 2..Len(recent') : recent'[k] = recent[k - 1]
<1> DEFINE r == recent  n == Smaller(2 * (holdSamples + 1), Len(r) + 1)
<1>1. r \in Seq(Int) /\ recent' = SubSeq(<<x>> \o r, 1, n)
  BY Zenon DEF Recorded, ProcessSample, Lookback
<1>2. Len(r) \in Nat /\ n \in 1..Len(r) + 1
  BY DEF Recorded, Lookback, Smaller
<1> HIDE DEF r, n
<1>3. /\ <<x>> \o r \in Seq(Int) /\ Len(<<x>> \o r) = Len(r) + 1 /\ (<<x>> \o r)[1] = x
      /\ \A k \in 2..Len(r) + 1 : (<<x>> \o r)[k] = r[k - 1]
  BY <1>1, <1>2
<1>4. /\ recent' \in Seq(Int) /\ recent'[1] = x /\ Len(recent') = n
      /\ \A k \in 2..Len(recent') : recent'[k] = r[k - 1]
  BY <1>1, <1>2, <1>3
<1> QED
  BY <1>4 DEF r, n

\* A step of the detector on an input that is recorded.
LEMMA HoldRecords ==
  ASSUME NEW x \in Int, HoldInv, ProcessSample(x), mode = "peakHold", holdCounter <= holdSamples
  PROVE  HoldInv'
<1> DEFINE h == holdSamples  p == heldPeak  c == holdCounter  r == recent  s == recent'
<1>1. /\ h \in Nat /\ c \in Nat /\ p \in Int /\ r \in Seq(Int) /\ Len(r) <= 2 * (h + 1)
      /\ holdSamples' = h /\ c <= h
  BY DEF HoldInv, Recorded, Lookback, ProcessSample, config
<1>2. /\ s \in Seq(Int) /\ Len(s) = Smaller(2 * (h + 1), Len(r) + 1) /\ s[1] = x
      /\ \A k \in 2..Len(s) : s[k] = r[k - 1]
  BY RecordInput, Zenon DEF HoldInv
<1>3. Len(r) \in Nat /\ Len(s) \in 1..Len(r) + 1 /\ (Len(s) = Len(r) + 1 \/ Len(s) = 2 * (h + 1))
  BY <1>1, <1>2 DEF Smaller
<1>4. \/ x >= p /\ heldPeak' = x /\ holdCounter' = h
      \/ x < p /\ c > 0 /\ heldPeak' = p /\ holdCounter' = c - 1
      \/ x < p /\ c = 0 /\ heldPeak' = x /\ holdCounter' = c
  BY <1>1 DEF ProcessSample, Detect, Held
<1>5. Recorded'
  <2>1. Len(s) <= 2 * (holdSamples' + 1) /\ holdSamples' \in Nat
    BY <1>1, <1>2, <1>3 DEF Smaller
  <2>2. holdCounter' \in Nat /\ heldPeak' \in Int /\ holdCounter' <= holdSamples'
    BY <1>1, <1>4
  <2>3. s \in Seq(Int)
    BY <1>2
  <2> QED
    BY <2>1, <2>2, <2>3 DEF Recorded, Lookback
<1>6. \/ Len(r) <= h - c
      \/ \E j \in 1..h - c + 1 : j <= Len(r) /\ p <= r[j]
  BY <1>1 DEF HoldInv, MaskFades
<1>7. \A i \in 1..h + 1 : StoodOut(r, h, i) => p >= r[i] /\ c >= h + 1 - i
  BY DEF HoldInv, HoldRuns
<1> HIDE DEF h, p, c, r, s
<1>8. \/ Len(s) <= h - holdCounter'
      \/ \E j \in 1..h - holdCounter' + 1 : j <= Len(s) /\ heldPeak' <= s[j]
  <2>1. CASE heldPeak' = x
    <3>1. h - holdCounter' + 1 \in Nat \ {0}
      BY <1>1, <1>4
    <3> QED
      BY <2>1, <3>1, <1>2, <1>3
  <2>2. CASE x < p /\ c > 0 /\ heldPeak' = p /\ holdCounter' = c - 1
    <3>1. CASE Len(r) <= h - c
      BY <2>2, <3>1, <1>1, <1>3
    <3>2. CASE \E j \in 1..h - c + 1 : j <= Len(r) /\ p <= r[j]
      <4>1. PICK j \in 1..h - c + 1 : j <= Len(r) /\ p <= r[j]
        BY <3>2
      <4>2. j + 1 \in 2..Len(s) /\ j + 1 \in 1..h - (c - 1) + 1
        BY <4>1, <2>2, <1>1, <1>3
      <4>3. s[j + 1] = r[j]
        BY <4>2, <1>2
      <4> QED
        BY <4>1, <4>2, <4>3, <2>2
    <3> QED
      BY <3>1, <3>2, <1>6
  <2> QED
    BY <2>1, <2>2, <1>4
<1>9. ASSUME NEW i \in 1..h + 1, StoodOut(s, h, i)
       PROVE  heldPeak' >= s[i] /\ holdCounter' >= h + 1 - i
  <2>1. i + h + 1 <= Len(s) /\ \A j \in i + 1..i + h + 1 : s[j] < s[i]
    BY <1>9 DEF StoodOut
  <2>2. CASE i = 1
    <3>1. Len(r) >= h + 1
      BY <2>1, <2>2, <1>1, <1>3
    <3>2. PICK j \in 1..h - c + 1 : j <= Len(r) /\ p <= r[j]
      BY <3>1, <1>6, <1>1
    <3>3. j + 1 \in i + 1..i + h + 1 /\ j + 1 \in 2..Len(s)
      BY <3>2, <2>1, <2>2, <1>1
    <3>4. s[j + 1] = r[j] /\ s[j + 1] < x /\ r[j] \in Int
      BY <3>2, <3>3, <2>1, <2>2, <1>1, <1>2
    <3> QED
      BY <3>2, <3>4, <2>2, <1>1, <1>2, <1>4
  <2>3. CASE i # 1
    <3>1. i - 1 \in 1..h + 1 /\ i \in 2..Len(s) /\ (i - 1) + h + 1 <= Len(r)
      BY <2>1, <2>3, <1>1, <1>3
    <3>2. s[i] = r[i - 1] /\ s[i] \in Int
      BY <3>1, <1>1, <1>2, SMTT(30)
    <3>3. ASSUME NEW j \in (i - 1) + 1..(i - 1) + h + 1
          PROVE  r[j] < r[i - 1]
      <4>1. j + 1 \in i + 1..i + h + 1 /\ j + 1 \in 2..Len(s)
        BY <3>1, <2>1, <1>1
      <4>2. s[j + 1] = r[(j + 1) - 1] /\ (j + 1) - 1 = j
        BY <4>1, <1>2
      <4> QED
        BY <4>1, <4>2, <3>2, <2>1
    <3>4. p >= r[i - 1] /\ c >= h + 1 - (i - 1)
      BY <3>1, <3>3, <1>7 DEF StoodOut
    <3> QED
      BY <3>1, <3>2, <3>4, <1>1, <1>4, SMTT(30)
  <2> QED
    BY <2>2, <2>3
<1>10. MaskFades'
  BY <1>1, <1>8 DEF MaskFades, h, s
<1>11. HoldRuns'
  BY <1>1, <1>9 DEF HoldRuns, h, s
<1> QED
  BY <1>5, <1>10, <1>11 DEF HoldInv

\* A sample keeps the hold: it is recorded, or an
\* older hold still runs, or another mode is selected.
LEMMA ProcessHolds ==
  ASSUME NEW x \in Int, HoldInv, ProcessSample(x)
  PROVE  HoldInv'
<1>1. CASE mode = "peakHold" /\ holdCounter <= holdSamples
  BY <1>1, HoldRecords
<1>2. CASE mode = "peakHold" /\ ~(holdCounter <= holdSamples)
  <2>1. recent = <<>> /\ recent' = <<>> /\ holdSamples' = holdSamples
    BY <1>2 DEF HoldInv, Recorded, ProcessSample, config
  <2>2. heldPeak' \in Int /\ holdCounter' \in Nat
    BY <1>2 DEF HoldInv, Recorded, ProcessSample, Detect, Held
  <2>3. Recorded' /\ MaskFades'
    BY <2>1, <2>2 DEF HoldInv, Recorded, Lookback, MaskFades
  <2>4. HoldRuns'
    BY <2>1 DEF HoldInv, Recorded, HoldRuns, StoodOut
  <2> QED
    BY <2>3, <2>4 DEF HoldInv
<1>3. CASE mode # "peakHold"
  BY <1>3 DEF ProcessSample, Detect, config, HoldInv, Recorded, Lookback, MaskFades, HoldRuns
<1> QED
  BY <1>1, <1>2, <1>3

\* Nothing that is recorded stood out.
LEMMA NothingRecorded ==
  ASSUME NEW s, s = <<>>, NEW h \in Nat
  PROVE  /\ s \in Seq(Int) /\ Len(s) <= 2 * (h + 1)
         /\ \A i \in 1..h + 1 : ~StoodOut(s, h, i)
BY DEF StoodOut

\* Every action keeps the hold.
LEMMA HoldStep ==
  ASSUME DynamicsConstants, HoldInv, [FollowerNext]_followerVars
  PROVE  HoldInv'
<1> USE DEF HoldInv, Recorded
<1>1. CASE \E x \in 0..Top : ProcessSample(x)
  BY <1>1, ProcessHolds DEF DynamicsConstants
<1>2. CASE \E m \in {"peak", "rms", "peakHold"} : SetMode(m)
  <2>1. recent' = <<>> /\ holdSamples' = holdSamples /\ holdCounter' = holdCounter /\ heldPeak' = heldPeak
    BY <1>2 DEF SetMode, memory
  <2> QED
    BY <2>1 DEF Lookback, MaskFades, HoldRuns, StoodOut
<1>3. CASE \E b \in {"branching", "decoupled"} : SetBallistics(b)
  BY <1>3 DEF SetBallistics, memory, Lookback, MaskFades, HoldRuns
<1>4. CASE \E d \in {"linear", "decibel"} : SetDomain(d)
  BY <1>4 DEF SetDomain, Lookback, MaskFades, HoldRuns
<1>5. CASE \E n \in HoldTimes : SetHold(n)
  <2>1. recent' = <<>> /\ holdSamples' \in Nat /\ holdCounter' \in Nat /\ heldPeak' \in Int
    BY <1>5 DEF SetHold, memory, DynamicsConstants
  <2>2. /\ recent' \in Seq(Int) /\ Len(recent') <= 2 * (holdSamples' + 1)
        /\ \A i \in 1..holdSamples' + 1 : ~StoodOut(recent', holdSamples', i)
    BY <2>1, NothingRecorded, Zenon
  <2> QED
    BY <2>1, <2>2, Zenon DEF Lookback, MaskFades, HoldRuns
<1>6. CASE FollowerReset
  <2>1. recent' = <<>> /\ holdSamples' = holdSamples /\ holdCounter' = 0 /\ heldPeak' = 0
    BY <1>6 DEF FollowerReset, ClearRuntimeState, config
  <2> QED
    BY <2>1 DEF Lookback, MaskFades, HoldRuns, StoodOut
<1>7. CASE UNCHANGED followerVars
  BY <1>7 DEF followerVars, config, memory, Lookback, MaskFades, HoldRuns
<1> QED
  BY <1>1, <1>2, <1>3, <1>4, <1>5, <1>6, <1>7, Zenon DEF FollowerNext

\* Nothing is held at first.
LEMMA HoldStarts == FollowerInit => HoldInv
BY DEF FollowerInit, HoldInv, Recorded, Lookback, MaskFades, HoldRuns, StoodOut

\* A hold that still runs is of a peak no softer.
LEMMA HoldShows == HoldInv => PeakIsHeld
<1> SUFFICES ASSUME HoldInv,
                    NEW i \in 1..Smaller(holdSamples, Len(recent) - holdSamples - 2) + 1,
                    \A j \in i + 1..i + holdSamples + 1 : recent[j] < recent[i]
             PROVE  heldPeak >= recent[i]
  BY DEF PeakIsHeld
<1>1. i \in 1..holdSamples + 1 /\ i + holdSamples + 1 <= Len(recent)
  BY DEF HoldInv, Recorded, Smaller
<1> QED
  BY <1>1 DEF HoldInv, HoldRuns, StoodOut

\* The hold of the envelope follower, for every hold time and every way the
\* settings change.
THEOREM PeaksAreHeld ==
  ASSUME DynamicsConstants
  PROVE  FollowerSpec => []PeakIsHeld
<1>1. HoldInv /\ [FollowerNext]_followerVars => HoldInv'
  BY HoldStep
<1> QED
  BY <1>1, HoldStarts, HoldShows, PTL DEF FollowerSpec

-----------------------------------------------------------------------------
(* The types of the follower                                               *)

\* What DynamicsTypeOK says of the follower but for the memories, whose levels
\* are among those that were heard.
FollowerTypes ==
  /\ heard \in 0..Top /\ holdSamples \in HoldTimes \cup {0} /\ holdCounter \in Nat
  /\ \E n \in HoldTimes \cup {0} : holdCounter <= n

FollowerInv == FollowerLevels /\ HoldInv /\ FollowerTypes

\* The follower begins with nothing heard.
LEMMA FollowerStarts ==
  ASSUME DynamicsConstants, FollowerInit
  PROVE  FollowerInv
<1>1. FollowerLevels
  BY DEF FollowerInit, Floor, FollowerLevels, EnvelopeWasHeard
<1>2. FollowerTypes
  BY DEF FollowerInit, FollowerTypes, DynamicsConstants
<1> QED
  BY <1>1, <1>2, HoldStarts DEF FollowerInv

\* No step gives a hold that no setting allows.
LEMMA FollowerTypesStep ==
  ASSUME DynamicsConstants, FollowerInv, [FollowerNext]_followerVars
  PROVE  FollowerTypes'
<1> USE DEF FollowerInv, FollowerTypes
<1>1. CASE \E x \in 0..Top : ProcessSample(x)
  <2>1. PICK x \in 0..Top : ProcessSample(x)
    BY <1>1
  <2>2. heard' \in 0..Top /\ holdSamples' = holdSamples
    BY <2>1 DEF ProcessSample, config, Larger, DynamicsConstants
  <2>3. holdSamples \in Nat
    BY DEF DynamicsConstants
  <2>4. holdCounter' \in {holdCounter, holdSamples} \/ (holdCounter > 0 /\ holdCounter' = holdCounter - 1)
    BY <2>1 DEF ProcessSample, Detect, Held
  <2>5. PICK n \in HoldTimes \cup {0} : holdCounter <= n
    OBVIOUS
  <2>6. n \in Nat
    BY DEF DynamicsConstants
  <2>7. holdCounter' \in Nat /\ (holdCounter' <= n \/ holdCounter' <= holdSamples)
    BY <2>3, <2>4, <2>5, <2>6
  <2> QED
    BY <2>2, <2>5, <2>7
<1>2. CASE \E m \in {"peak", "rms", "peakHold"} : SetMode(m)
  BY <1>2 DEF SetMode, memory
<1>3. CASE \E b \in {"branching", "decoupled"} : SetBallistics(b)
  BY <1>3 DEF SetBallistics, memory
<1>4. CASE \E d \in {"linear", "decibel"} : SetDomain(d)
  BY <1>4 DEF SetDomain
<1>5. CASE \E n \in HoldTimes : SetHold(n)
  BY <1>5 DEF SetHold, memory
<1>6. CASE FollowerReset
  BY <1>6 DEF FollowerReset, ClearRuntimeState, config, DynamicsConstants
<1>7. CASE UNCHANGED followerVars
  BY <1>7 DEF followerVars, config, memory
<1> QED
  BY <1>1, <1>2, <1>3, <1>4, <1>5, <1>6, <1>7, Zenon DEF FollowerNext

\* What the follower keeps, together.
LEMMA FollowerKept ==
  ASSUME DynamicsConstants, FollowerInv, [FollowerNext]_followerVars
  PROVE  FollowerInv'
<1>1. FollowerLevels /\ HoldInv
  BY DEF FollowerInv
<1> QED
  BY <1>1, LevelsStep, HoldStep, FollowerTypesStep, Zenon DEF FollowerInv

-----------------------------------------------------------------------------
(* The curve of the gain computer                                          *)

\* A setting of the computer, as its setters leave it.
Setting(c) ==
  /\ c.mode \in {"compress", "limit", "expand", "gate"} /\ c.ratio \in Nat \ {0}
  /\ c.range \in Int /\ c.range <= 0 /\ c.knee \in Nat /\ c.knee % 2 = 0

\* Signs of products.
LEMMA ProductSigns ==
  /\ \A a, b \in Int : a <= 0 /\ b >= 0 => a * b <= 0 /\ b * a <= 0
  /\ \A a, b \in Int : a >= 0 /\ b >= 0 => a * b >= 0
  /\ \A a, b \in Int : a <= 0 /\ b <= 0 => a * b >= 0
OBVIOUS

\* A knee is twice its half.
LEMMA Halves ==
  ASSUME NEW c, Setting(c)
  PROVE  c.knee \div 2 \in Nat /\ c.knee = 2 * (c.knee \div 2)
BY DEF Setting

\* The two slopes: a compressor's and a limiter's never rise, and fall no
\* faster than the unit; an expander's lower one rises.
LEMMA SlopesOf ==
  ASSUME NEW c, Setting(c)
  PROVE  /\ Slopes(c)[1] \in Int /\ Slopes(c)[2] \in Int
         /\ c.mode \in {"compress", "limit"} =>
              Slopes(c)[1] = 0 /\ Slopes(c)[2] <= 0 /\ Slopes(c)[2] >= 0 - c.ratio
         /\ c.mode = "expand" => Slopes(c)[1] >= 0 /\ Slopes(c)[2] = 0
<1>1. c.ratio * (c.ratio - 1) \in Nat
  BY DEF Setting
<1> QED
  BY <1>1 DEF Setting, Slopes

\* The knee and its lines, with the width written as twice the half: the
\* parabola meets both lines at the edges.
LEMMA KneeForm ==
  ASSUME NEW c, Setting(c), NEW u \in Int, c.knee > 0
  PROVE  LET low == Slopes(c)[1]  high == Slopes(c)[2]  k == c.knee \div 2 IN
         /\ u <= 0 - k => KneeGain(c, u) = 4 * k * low * u
         /\ u >= k => KneeGain(c, u) = 4 * k * high * u
         /\ 0 - k <= u /\ u <= k =>
              KneeGain(c, u) = 4 * k * low * u + (high - low) * (u + k) * (u + k)
<1> DEFINE low == Slopes(c)[1]  high == Slopes(c)[2]  k == c.knee \div 2
<1>1. low \in Int /\ high \in Int /\ k \in Nat \ {0} /\ Larger(c.knee, 1) = 2 * k
  BY SlopesOf, Halves DEF Larger
<1>2. KneeGain(c, u) =
        IF u <= 0 - k THEN 2 * (2 * k) * low * u
        ELSE IF u >= k THEN 2 * (2 * k) * high * u
        ELSE 2 * (2 * k) * low * u + (high - low) * (u + k) * (u + k)
  BY <1>1, Zenon DEF KneeGain
<1> HIDE DEF low, high, k
<1>3. u = 0 - k => (high - low) * (u + k) * (u + k) = 0
  <2>1. u = 0 - k => u + k = 0
    BY <1>1
  <2> QED
    BY <1>1, <2>1
<1>4. u = k => 4 * k * high * u = 4 * k * low * u + (high - low) * (u + k) * (u + k)
  <2>1. 4 * k * high * k = 4 * k * low * k + (high - low) * (k + k) * (k + k)
    BY <1>1
  <2> QED
    BY <2>1
<1>5. /\ u <= 0 - k => KneeGain(c, u) = 4 * k * low * u
      /\ u >= k => KneeGain(c, u) = 4 * k * high * u
      /\ 0 - k <= u /\ u <= k =>
           KneeGain(c, u) = 4 * k * low * u + (high - low) * (u + k) * (u + k)
  <2>1. 2 * (2 * k) * low * u = 4 * k * low * u /\ 2 * (2 * k) * high * u = 4 * k * high * u
    BY <1>1
  <2>2. CASE u <= 0 - k
    <3>1. KneeGain(c, u) = 4 * k * low * u /\ ~(u >= k)
      BY <1>1, <1>2, <2>1, <2>2
    <3> QED
      BY <1>1, <1>3, <2>2, <3>1
  <2>3. CASE u >= k
    <3>1. KneeGain(c, u) = 4 * k * high * u /\ ~(u <= 0 - k)
      BY <1>1, <1>2, <2>1, <2>3
    <3> QED
      BY <1>1, <1>4, <2>3, <3>1
  <2>4. CASE 0 - k < u /\ u < k
    BY <1>1, <1>2, <2>1, <2>4
  <2> QED
    BY <1>1, <2>2, <2>3, <2>4
<1> QED
  BY <1>5, Zenon DEF low, high, k

\* Without a knee the two lines meet at the threshold.
LEMMA CornerForm ==
  ASSUME NEW c, Setting(c), NEW u \in Int, c.knee = 0
  PROVE  KneeGain(c, u) = IF u <= 0 THEN 2 * Slopes(c)[1] * u ELSE 2 * Slopes(c)[2] * u
<1> DEFINE low == Slopes(c)[1]  high == Slopes(c)[2]
<1>1. low \in Int /\ high \in Int /\ c.knee \div 2 = 0 /\ Larger(c.knee, 1) = 1
  BY SlopesOf DEF Larger
<1>2. KneeGain(c, u) =
        IF u <= 0 - 0 THEN 2 * 1 * low * u
        ELSE IF u >= 0 THEN 2 * 1 * high * u
        ELSE 2 * 1 * low * u + (high - low) * (u + 0) * (u + 0)
  BY <1>1, Zenon DEF KneeGain
<1> QED
  BY <1>1, <1>2

\* The gain is a whole number of its unit.
LEMMA KneeInt ==
  ASSUME NEW c, Setting(c), NEW u \in Int
  PROVE  KneeGain(c, u) \in Int /\ Unit(c) \in Nat
<1>1. Slopes(c)[1] \in Int /\ Slopes(c)[2] \in Int /\ c.knee \div 2 \in Int
      /\ Larger(c.knee, 1) \in Nat /\ c.ratio \in Nat
  BY SlopesOf, Halves DEF Larger, Setting
<1> DEFINE low == Slopes(c)[1]  high == Slopes(c)[2]  half == c.knee \div 2  W == Larger(c.knee, 1)
<1>2. KneeGain(c, u) = IF u <= 0 - half THEN 2 * W * low * u
                       ELSE IF u >= half THEN 2 * W * high * u
                       ELSE 2 * W * low * u + (high - low) * (u + half) * (u + half)
  BY DEF KneeGain
<1> HIDE DEF low, high, half, W
<1>3. KneeGain(c, u) \in Int
  BY <1>1, <1>2 DEF low, high, half, W
<1> QED
  BY <1>1, <1>3 DEF Unit

\* The slope: one line's, the other's, or in proportion between them.
LEMMA SlopeForm ==
  ASSUME NEW c, Setting(c), NEW u \in Int, c.knee > 0
  PROVE  LET low == Slopes(c)[1]  high == Slopes(c)[2]  k == c.knee \div 2 IN
         /\ u <= 0 - k => Slope(c, u) = 2 * k * low
         /\ u >= k => Slope(c, u) = 2 * k * high
         /\ 0 - k <= u /\ u <= k => Slope(c, u) = 2 * k * low + (high - low) * (u + k)
<1> DEFINE low == Slopes(c)[1]  high == Slopes(c)[2]  k == c.knee \div 2
           t == Smaller(Larger(u + k, 0), 2 * k)
<1>1. low \in Int /\ high \in Int /\ k \in Nat \ {0} /\ c.knee = 2 * k
  BY SlopesOf, Halves
<1>2. Slope(c, u) = 2 * k * low + (high - low) * t
  BY <1>1, Zenon DEF Slope
<1>3. /\ u <= 0 - k => t = 0
      /\ u >= k => t = 2 * k
      /\ 0 - k <= u /\ u <= k => t = u + k
  BY <1>1 DEF Smaller, Larger
<1> HIDE DEF low, high, k, t
<1>4. 2 * k * low + (high - low) * (2 * k) = 2 * k * high /\ (high - low) * 0 = 0
  BY <1>1
<1>5. /\ u <= 0 - k => Slope(c, u) = 2 * k * low
      /\ u >= k => Slope(c, u) = 2 * k * high
      /\ 0 - k <= u /\ u <= k => Slope(c, u) = 2 * k * low + (high - low) * (u + k)
  BY <1>1, <1>2, <1>3, <1>4
<1> QED
  BY <1>5, Zenon DEF low, high, k

\* The gain before the range is what the slope adds up to.
LEMMA KneeClimbs ==
  ASSUME NEW c, Setting(c), NEW u \in Int
  PROVE  KneeGain(c, u) = KneeGain(c, u - 1) + Climb(c, u)
<1> DEFINE low == Slopes(c)[1]  high == Slopes(c)[2]  k == c.knee \div 2
<1>1. low \in Int /\ high \in Int /\ k \in Nat /\ c.knee = 2 * k /\ u - 1 \in Int
  BY SlopesOf, Halves
<1>2. CASE c.knee = 0
  <2>1. Climb(c, u) = 2 * (IF u <= 0 THEN low ELSE high)
    BY <1>2, Zenon DEF Climb
  <2>2. /\ KneeGain(c, u) = IF u <= 0 THEN 2 * low * u ELSE 2 * high * u
        /\ KneeGain(c, u - 1) = IF u - 1 <= 0 THEN 2 * low * (u - 1) ELSE 2 * high * (u - 1)
    BY <1>1, <1>2, CornerForm, Zenon
  <2> HIDE DEF low, high, k
  <2>3. CASE u <= 0
    BY <1>1, <2>1, <2>2, <2>3
  <2>4. CASE u = 1
    BY <1>1, <2>1, <2>2, <2>4
  <2>5. CASE u > 1
    BY <1>1, <2>1, <2>2, <2>5
  <2> QED
    BY <2>3, <2>4, <2>5
<1>3. CASE c.knee # 0
  <2>1. Climb(c, u) = Slope(c, u - 1) + Slope(c, u) /\ c.knee > 0
    BY <1>1, <1>3 DEF Climb
  <2>2. /\ u <= 0 - k => KneeGain(c, u) = 4 * k * low * u
        /\ u >= k => KneeGain(c, u) = 4 * k * high * u
        /\ 0 - k <= u /\ u <= k =>
             KneeGain(c, u) = 4 * k * low * u + (high - low) * (u + k) * (u + k)
    BY <2>1, KneeForm, Zenon
  <2>3. /\ u - 1 <= 0 - k => KneeGain(c, u - 1) = 4 * k * low * (u - 1)
        /\ u - 1 >= k => KneeGain(c, u - 1) = 4 * k * high * (u - 1)
        /\ 0 - k <= u - 1 /\ u - 1 <= k =>
             KneeGain(c, u - 1) = 4 * k * low * (u - 1) + (high - low) * (u - 1 + k) * (u - 1 + k)
    BY <2>1, <1>1, KneeForm, Zenon
  <2>4. /\ u <= 0 - k => Slope(c, u) = 2 * k * low
        /\ u >= k => Slope(c, u) = 2 * k * high
        /\ 0 - k <= u /\ u <= k => Slope(c, u) = 2 * k * low + (high - low) * (u + k)
    BY <2>1, SlopeForm, Zenon
  <2>5. /\ u - 1 <= 0 - k => Slope(c, u - 1) = 2 * k * low
        /\ u - 1 >= k => Slope(c, u - 1) = 2 * k * high
        /\ 0 - k <= u - 1 /\ u - 1 <= k => Slope(c, u - 1) = 2 * k * low + (high - low) * (u - 1 + k)
    BY <2>1, <1>1, SlopeForm, Zenon
  <2> HIDE DEF low, high, k
  <2>6. CASE u <= 0 - k
    BY <1>1, <2>1, <2>2, <2>3, <2>4, <2>5, <2>6
  <2>7. CASE 0 - k <= u - 1 /\ u <= k
    BY <1>1, <2>1, <2>2, <2>3, <2>4, <2>5, <2>7
  <2>8. CASE u - 1 >= k
    BY <1>1, <2>1, <2>2, <2>3, <2>4, <2>5, <2>8
  <2> QED
    BY <1>1, <1>3, <2>6, <2>7, <2>8
<1> QED
  BY <1>2, <1>3

\* An expander's curve only rises, a compressor's and a limiter's fall by at
\* most a decibel a decibel.
LEMMA ClimbBounds ==
  ASSUME NEW c, Setting(c), NEW u \in Int
  PROVE  /\ Climb(c, u) \in Int
         /\ c.mode = "expand" => Climb(c, u) >= 0
         /\ c.mode \in {"compress", "limit"} => Climb(c, u) >= 0 - Unit(c)
<1> DEFINE low == Slopes(c)[1]  high == Slopes(c)[2]  k == c.knee \div 2
           t == Smaller(Larger(u + k, 0), 2 * k)  s == Smaller(Larger(u - 1 + k, 0), 2 * k)
<1>1. /\ low \in Int /\ high \in Int /\ k \in Nat /\ c.knee = 2 * k /\ c.ratio \in Nat
      /\ c.mode \in {"compress", "limit"} => low = 0 /\ high <= 0 /\ high >= 0 - c.ratio
      /\ c.mode = "expand" => low >= 0 /\ high = 0
  BY SlopesOf, Halves DEF Setting
<1>2. CASE c.knee = 0
  <2>1. Climb(c, u) = (IF u <= 0 THEN 2 * low ELSE 2 * high) /\ Unit(c) = 2 * c.ratio
    BY <1>1, <1>2 DEF Climb, Unit, Larger
  <2> HIDE DEF low, high, k
  <2> QED
    BY <1>1, <2>1
<1>3. CASE c.knee # 0
  <2>1. t \in 0..2 * k /\ s \in 0..2 * k
    BY <1>1 DEF Smaller, Larger
  <2>2. Climb(c, u) = (2 * k * low + (high - low) * s) + (2 * k * low + (high - low) * t)
    BY <1>1, <1>3, Zenon DEF Climb, Slope
  <2>3. Unit(c) = 2 * c.ratio * (2 * k)
    BY <1>1, <1>3 DEF Unit, Larger
  <2> HIDE DEF low, high, k, t, s
  <2>4. Climb(c, u) = high * (s + t) + low * (4 * k - s - t)
    BY <1>1, <2>1, <2>2
  <2>5. s + t \in 0..4 * k /\ 4 * k - s - t \in 0..4 * k
    BY <1>1, <2>1
  <2>6. CASE c.mode = "expand"
    <3>1. low * (4 * k - s - t) >= 0 /\ high * (s + t) = 0
      BY <1>1, <2>5, <2>6
    <3> QED
      BY <2>4, <2>6, <3>1, <1>1, <2>1
  <2>7. CASE c.mode \in {"compress", "limit"}
    <3>1. (high + c.ratio) * (s + t) >= 0 /\ c.ratio * (4 * k - (s + t)) >= 0
      BY <1>1, <2>5, <2>7, ProductSigns
    <3>2. high * (s + t) >= 0 - 4 * k * c.ratio
      BY <1>1, <2>5, <3>1
    <3> QED
      BY <2>3, <2>4, <2>7, <3>2, <1>1, <2>1
  <2>8. Climb(c, u) \in Int
    BY <1>1, <2>1, <2>4
  <2> QED
    BY <2>6, <2>7, <2>8
<1> QED
  BY <1>2, <1>3

\* On the unity side nothing is attenuated, elsewhere nothing is boosted.
LEMMA KneeNeverBoosts ==
  ASSUME NEW c, Setting(c), c.mode # "gate", NEW u \in Int
  PROVE  KneeGain(c, u) <= 0 /\ (AtUnity(c, u) => KneeGain(c, u) = 0)
<1> DEFINE low == Slopes(c)[1]  high == Slopes(c)[2]  k == c.knee \div 2
<1>1. /\ low \in Int /\ high \in Int /\ k \in Nat /\ c.knee = 2 * k
      /\ \/ c.mode \in {"compress", "limit"} /\ low = 0 /\ high <= 0
         \/ c.mode = "expand" /\ low >= 0 /\ high = 0
  BY SlopesOf, Halves DEF Setting
<1>2. AtUnity(c, u) <=> IF c.mode = "expand" THEN u >= k ELSE u <= 0 - k
  BY Zenon DEF AtUnity
<1>3. CASE c.knee = 0
  <2>1. KneeGain(c, u) = IF u <= 0 THEN 2 * low * u ELSE 2 * high * u
    BY <1>3, CornerForm, Zenon
  <2>2. k = 0
    BY <1>1, <1>3
  <2> HIDE DEF low, high, k
  <2> QED
    BY <1>1, <1>2, <2>1, <2>2, ProductSigns
<1>4. CASE c.knee # 0
  <2>1. c.knee > 0
    BY <1>1, <1>4
  <2>2. /\ u <= 0 - k => KneeGain(c, u) = 4 * k * low * u
        /\ u >= k => KneeGain(c, u) = 4 * k * high * u
        /\ 0 - k <= u /\ u <= k =>
             KneeGain(c, u) = 4 * k * low * u + (high - low) * (u + k) * (u + k)
    BY <2>1, KneeForm, Zenon
  <2> HIDE DEF low, high, k
  <2>3. CASE c.mode = "expand"
    <3>1. low >= 0 /\ high = 0
      BY <1>1, <2>3
    <3>2. CASE u <= 0 - k
      <4>1. 4 * k * low >= 0
        BY <1>1, <3>1, ProductSigns
      <4>2. 4 * k * low * u <= 0
        BY <1>1, <3>2, <4>1, ProductSigns
      <4>3. u >= k => u = 0 /\ k = 0
        BY <1>1, <3>2
      <4> QED
        BY <1>1, <1>2, <2>2, <2>3, <3>2, <4>2, <4>3
    <3>3. CASE u >= k
      BY <1>1, <2>2, <3>1, <3>3
    <3>4. CASE 0 - k <= u /\ u < k
      <4>1. KneeGain(c, u) = 0 - low * ((u - k) * (u - k))
        BY <1>1, <2>2, <3>1, <3>4
      <4>2. (u - k) * (u - k) >= 0 /\ (u - k) * (u - k) \in Int
        BY <1>1
      <4>3. low * ((u - k) * (u - k)) >= 0
        BY <1>1, <3>1, <4>2, ProductSigns
      <4> QED
        BY <1>1, <1>2, <2>3, <3>4, <4>1, <4>2, <4>3
    <3> QED
      BY <1>1, <3>2, <3>3, <3>4
  <2>4. CASE c.mode # "expand"
    <3>1. low = 0 /\ high <= 0
      BY <1>1, <2>4
    <3>2. CASE u <= 0 - k
      BY <1>1, <2>2, <3>1, <3>2
    <3>3. CASE u >= k
      <4>1. 4 * k * high <= 0
        BY <1>1, <3>1, ProductSigns
      <4>2. 4 * k * high * u <= 0
        BY <1>1, <3>3, <4>1, ProductSigns
      <4>3. u <= 0 - k => u = 0 /\ k = 0
        BY <1>1, <3>3
      <4> QED
        BY <1>1, <1>2, <2>2, <2>4, <3>3, <4>2, <4>3
    <3>4. CASE 0 - k < u /\ u <= k
      <4>1. KneeGain(c, u) = high * ((u + k) * (u + k))
        BY <1>1, <2>2, <3>1, <3>4
      <4>2. (u + k) * (u + k) >= 0 /\ (u + k) * (u + k) \in Int
        BY <1>1
      <4> QED
        BY <1>1, <1>2, <2>4, <3>1, <3>4, <4>1, <4>2, ProductSigns
    <3> QED
      BY <1>1, <3>2, <3>3, <3>4
  <2> QED
    BY <2>3, <2>4
<1> QED
  BY <1>3, <1>4

\* The gate between its floor and unity, and the other half of its step.
LEMMA GateIsSymmetrical ==
  ASSUME NEW c, Setting(c), NEW u \in Int, c.knee > 0,
         NEW depth, depth = c.range * c.knee * c.knee * c.knee
  PROVE  /\ GateGain(c, u) <= 0 /\ GateGain(c, u) >= depth
         /\ GateGain(c, u) + GateGain(c, 0 - u) = depth
<1> DEFINE r == c.range  k == c.knee \div 2  t == u + k
           step == (2 * k) * (2 * k) * (2 * k) - t * t * (3 * (2 * k) - 2 * t)
<1>1. /\ k \in Nat \ {0} /\ c.knee = 2 * k /\ r \in Int /\ r <= 0
      /\ depth = r * ((2 * k) * (2 * k) * (2 * k))
  BY Halves DEF Setting
<1>2. /\ u >= k => GateGain(c, u) = 0
      /\ u <= 0 - k => GateGain(c, u) = r * (2 * k) * (2 * k) * (2 * k)
      /\ 0 - k < u /\ u < k => GateGain(c, u) = r * step
  BY <1>1 DEF GateGain
<1>3. /\ 0 - u >= k => GateGain(c, 0 - u) = 0
      /\ 0 - u <= 0 - k => GateGain(c, 0 - u) = r * (2 * k) * (2 * k) * (2 * k)
      /\ 0 - k < 0 - u /\ 0 - u < k =>
           GateGain(c, 0 - u) = r * ((2 * k) * (2 * k) * (2 * k)
                                     - (0 - u + k) * (0 - u + k) * (3 * (2 * k) - 2 * (0 - u + k)))
  BY <1>1 DEF GateGain
<1> HIDE DEF r, k
<1>4. (2 * k) * (2 * k) * (2 * k) >= 0 /\ depth <= 0 /\ depth \in Int
  BY <1>1, ProductSigns
<1>5. CASE u >= k
  BY <1>1, <1>2, <1>3, <1>4, <1>5
<1>6. CASE u <= 0 - k
  BY <1>1, <1>2, <1>3, <1>4, <1>6
<1>7. CASE 0 - k < u /\ u < k
  <2>1. t \in Int /\ t > 0 /\ t < 2 * k
    BY <1>1, <1>7
  <2>2. step = (2 * k - t) * (2 * k - t) * (2 * k + 2 * t)
    BY <1>1, <2>1
  <2>3. step >= 0 /\ t * t * (3 * (2 * k) - 2 * t) >= 0
    BY <1>1, <2>1, <2>2, ProductSigns
  <2>4. r * step <= 0 /\ r * (t * t * (3 * (2 * k) - 2 * t)) <= 0
    BY <1>1, <2>1, <2>3, ProductSigns
  <2>5. r * step = depth - r * (t * t * (3 * (2 * k) - 2 * t))
    BY <1>1, <2>1
  <2>6. GateGain(c, 0 - u) = r * (t * t * (3 * (2 * k) - 2 * t))
    BY <1>1, <1>3, <1>7
  <2>7. r * step \in Int /\ r * (t * t * (3 * (2 * k) - 2 * t)) \in Int
    BY <1>1, <2>1
  <2> QED
    BY <1>2, <1>4, <1>7, <2>4, <2>5, <2>6, <2>7
<1> QED
  BY <1>1, <1>5, <1>6, <1>7

\* The settings of the constants are settings.
LEMMA SettingsHold ==
  ASSUME DynamicsConstants, NEW c \in Curves
  PROVE  Setting(c)
BY DEF DynamicsConstants, Setting

\* What is asked of a setting at a distance is what the header defines.
LEMMA GainIsDefined ==
  ASSUME NEW c, Setting(c), NEW u \in Int
  PROVE  LET gain == ComputeGainDb(c, u)
             before == ComputeGainDb(c, u - 1)
             climb == Climb(c, u)
             depth == c.range * c.knee * c.knee * c.knee
         IN  /\ gain <= 0
             /\ c.mode # "gate" /\ AtUnity(c, u) => gain = 0
             /\ c.mode = "expand" => before = Larger(gain - climb, c.range * Unit(c))
             /\ c.mode \in {"compress", "limit"} =>
                  gain = before + climb /\ gain - before >= 0 - Unit(c)
             /\ c.mode = "gate" /\ c.knee > 0 =>
                  gain >= depth /\ gain + ComputeGainDb(c, 0 - u) = depth
<1> DEFINE gain == ComputeGainDb(c, u)
           before == ComputeGainDb(c, u - 1)
           climb == Climb(c, u)
           depth == c.range * c.knee * c.knee * c.knee
           floor == c.range * Unit(c)
<1>1. /\ KneeGain(c, u) \in Int /\ KneeGain(c, u - 1) \in Int /\ Unit(c) \in Nat
      /\ climb \in Int /\ KneeGain(c, u) = KneeGain(c, u - 1) + climb
  BY KneeInt, KneeClimbs, ClimbBounds
<1>2. floor \in Int /\ floor <= 0
  BY <1>1, ProductSigns DEF Setting
<1>3. CASE c.mode \in {"compress", "limit"}
  <2>1. gain = KneeGain(c, u) /\ before = KneeGain(c, u - 1) /\ c.mode \notin {"gate", "expand"}
    BY <1>3 DEF ComputeGainDb
  <2>2. KneeGain(c, u) <= 0 /\ (AtUnity(c, u) => KneeGain(c, u) = 0) /\ climb >= 0 - Unit(c)
    BY <1>3, <2>1, KneeNeverBoosts, ClimbBounds
  <2> HIDE DEF gain, before, climb
  <2>3. gain - before >= 0 - Unit(c)
    BY <1>1, <2>1, <2>2
  <2> QED
    BY <1>1, <2>1, <2>2, <2>3 DEF gain, before, climb
<1>4. CASE c.mode = "expand"
  <2>1. gain = Larger(KneeGain(c, u), floor) /\ before = Larger(KneeGain(c, u - 1), floor)
    BY <1>4 DEF ComputeGainDb
  <2>2. KneeGain(c, u) <= 0 /\ (AtUnity(c, u) => KneeGain(c, u) = 0) /\ climb >= 0
    BY <1>4, KneeNeverBoosts, ClimbBounds
  <2> HIDE DEF gain, before, climb, floor
  <2>3. gain <= 0 /\ (AtUnity(c, u) => gain = 0) /\ before = Larger(gain - climb, floor)
    BY <1>1, <1>2, <2>1, <2>2 DEF Larger
  <2> QED
    BY <1>4, <2>3 DEF gain, before, climb, floor
<1>5. CASE c.mode = "gate"
  <2>1. gain = GateGain(c, u) /\ ComputeGainDb(c, 0 - u) = GateGain(c, 0 - u)
    BY <1>5 DEF ComputeGainDb
  <2>2. c.knee > 0 => /\ GateGain(c, u) <= 0 /\ GateGain(c, u) >= depth
                      /\ GateGain(c, u) + GateGain(c, 0 - u) = depth
    BY GateIsSymmetrical
  <2>3. c.knee = 0 => GateGain(c, u) <= 0
    BY DEF GateGain, Setting
  <2>4. c.knee > 0 \/ c.knee = 0
    BY DEF Setting
  <2> HIDE DEF gain, depth
  <2> QED
    BY <1>5, <2>1, <2>2, <2>3, <2>4 DEF gain, depth
<1> QED
  BY <1>3, <1>4, <1>5 DEF Setting

\* The computer has answered what it was last asked.
CurveInv ==
  /\ curve \in Curves /\ distance \in (0 - Reach)..Reach /\ gainDb = ComputeGainDb(curve, distance)

\* The computer is asked at one end of the scale first.
LEMMA CurveStarts ==
  ASSUME DynamicsConstants, CurveInit
  PROVE  CurveInv
BY DEF CurveInit, CurveInv, DynamicsConstants

\* Every answer is of the curve, at a level of the scale.
LEMMA CurveKept ==
  ASSUME DynamicsConstants, CurveInv, [AskNext]_curveVars
  PROVE  CurveInv'
<1>1. CASE AskNext
  <2>1. PICK u \in (0 - Reach)..Reach :
          distance' = u /\ gainDb' = ComputeGainDb(curve, u) /\ UNCHANGED curve
    BY <1>1, Zenon DEF AskNext
  <2> QED
    BY <2>1 DEF CurveInv
<1>2. CASE UNCHANGED curveVars
  BY <1>2, Zenon DEF curveVars, CurveInv
<1> QED
  BY <1>1, <1>2

\* An answer of the curve is the one that is defined.
LEMMA CurveShows ==
  ASSUME DynamicsConstants, CurveInv
  PROVE  CurveIsAsDefined
<1>1. Setting(curve) /\ gainDb = ComputeGainDb(curve, distance)
  BY SettingsHold, Zenon DEF CurveInv
<1>2. distance \in Int
  BY DEF CurveInv, DynamicsConstants
<1> QED
  BY <1>1, <1>2, GainIsDefined, Zenon DEF CurveIsAsDefined

\* The gain computer, for every setting, at every level.
THEOREM CurvesAreAsDefined ==
  ASSUME DynamicsConstants
  PROVE  CurveSpec => []CurveIsAsDefined
<1>1. CurveInit => CurveInv
  BY CurveStarts
<1>2. CurveInv /\ [AskNext]_curveVars => CurveInv'
  BY CurveKept
<1>3. CurveInv => CurveIsAsDefined
  BY CurveShows
<1> QED
  BY <1>1, <1>2, <1>3, PTL DEF CurveSpec

-----------------------------------------------------------------------------
(* The modulated delay                                                     *)

\* The main line's slots, and the samples since the last tick by the phase.
Slots == CapacityOf(delayLine)
SinceTick == IF phase = 0 THEN divisor - 1 ELSE phase - 1

\* The variables' shapes, what DelayTypeOK leaves open included.
DelayShapes ==
  /\ Slots \in Capacities /\ IsLine(delayLine, Slots) /\ IsLine(wowLine, WowCapacity)
  /\ divisor \in Divisors /\ phase \in 0..divisor - 1
  /\ heldWet \in Traces /\ tape \in Traces
  /\ wanted \in [DelayParam -> DelayValues] /\ engine \in [DelayParam -> DelayValues]
  /\ DOMAIN queued \subseteq DelayParam \cup {"divisor"}
  /\ \A p \in DOMAIN queued : queued[p] \in IF p = "divisor" THEN Divisors ELSE DelayValues
  /\ read \in [delay : Delays, age : 0..Greatest(Divisors)]
  /\ since \in [ticks : 0..Settled, filled : 0..Settled, samples : 0..WowSettled, calls : 0..MaxCalls]

\* A hold began within the internal sample that runs, and, once the line is
\* written at this divisor, with it: what was written since then is one
\* internal sample apart.
LineIsSpaced ==
  /\ read.age <= SinceTick
  /\ since.ticks > 0 => /\ read.age = SinceTick
                        /\ Spaced(delayLine, Slots, since.ticks, divisor * Ticks, read.age * Ticks)

DelayInv ==
  /\ DelayShapes /\ LineIsSpaced /\ DelayIsHonoured
  /\ Clear(delayLine, Slots, since.filled) /\ RateChangeKeepsEcho
  /\ Recent(wowLine, WowCapacity, since.samples) /\ TapeHearsCurrent
  /\ FilterKeepsValue

\* What the assumption says of the constants.
LEMMA DelayFacts ==
  ASSUME DelayConstants
  PROVE  /\ TraceConstants /\ Ticks \in Nat \ {0} /\ Horizon \in Nat
         /\ \A c \in Capacities : c \in Nat \ {0, 1} /\ c <= Greatest(Capacities)
         /\ \A d \in Divisors : d \in Nat \ {0} /\ Ticks % d = 0 /\ d <= Greatest(Divisors)
         /\ 1 \in Divisors /\ Greatest(Divisors) \in Nat \ {0} /\ Greatest(Capacities) \in Nat \ {0, 1}
         /\ Settled \in Nat /\ Settled = Greatest(Capacities) + 1
         /\ WowRange \in Nat /\ Nominal = 2 * WowRange /\ WowSettled = WowCapacity
         /\ WowCapacity \in Nat \ {0} /\ 2 * Nominal <= WowCapacity - 1
         /\ Delays \subseteq Nat /\ Delays # {} /\ MaxCalls \in Nat
<1>1. /\ \A c \in Capacities : c <= Greatest(Capacities)
      /\ Greatest(Capacities) \in Nat \ {0, 1} /\ \A c \in Capacities : c \in Nat \ {0, 1}
  BY DEF DelayConstants, IsGreatest
<1>2. /\ \A d \in Divisors : d <= Greatest(Divisors) /\ d \in Nat \ {0} /\ Ticks % d = 0
      /\ 1 \in Divisors /\ Greatest(Divisors) \in Nat \ {0}
  BY DEF DelayConstants, IsGreatest
<1>3. /\ WowRange \in Nat /\ WowGuard \in Nat \ {0} /\ Nominal = 2 * WowRange
      /\ Delays \subseteq Nat /\ Delays # {} /\ MaxCalls \in Nat
  BY DEF DelayConstants
<1>4. /\ WowCapacity \in Nat \ {0} /\ 2 * Nominal <= WowCapacity - 1 /\ WowSettled = WowCapacity
  BY <1>3 DEF WowCapacity, WowSettled
<1>5. TraceConstants /\ Ticks \in Nat \ {0} /\ Horizon \in Nat
  BY DEF DelayConstants, TraceConstants
<1> QED
  BY <1>1, <1>2, <1>3, <1>4, <1>5 DEF Settled

\* Every age told apart by the properties is within the horizon.
LEMMA WithinHorizon ==
  ASSUME DelayConstants, NEW C \in Capacities, NEW d \in Divisors
  PROVE  (C + 1) * d * Ticks <= Horizon /\ C * (d * Ticks) <= Horizon
<1> DEFINE G == Greatest(Capacities)  D == Greatest(Divisors)  T == Ticks
<1>1. C \in Nat /\ d \in Nat /\ C <= G /\ d <= D /\ G \in Nat /\ D \in Nat /\ T \in Nat /\ Horizon \in Nat
  BY DelayFacts
<1>2. (G + 1) * D * T <= Horizon
  BY DEF DelayConstants
<1> HIDE DEF G, D, T
<1>3. (C + 1) * d <= (G + 1) * d /\ (G + 1) * d \in Nat /\ (C + 1) * d \in Nat
  <2>1. C + 1 \in Nat /\ G + 1 \in Nat /\ C + 1 <= G + 1
    BY <1>1
  <2> QED
    BY <1>1, <2>1, ProductGrows
<1>4. d * (G + 1) <= D * (G + 1) /\ d * (G + 1) = (G + 1) * d /\ D * (G + 1) = (G + 1) * D
  <2>1. G + 1 \in Nat
    BY <1>1
  <2>2. d * (G + 1) <= D * (G + 1)
    BY <1>1, <2>1, ProductGrows
  <2> QED
    BY <1>1, <2>2
<1>5. (C + 1) * d * T <= (G + 1) * D * T /\ (G + 1) * D * T \in Nat /\ (C + 1) * d * T \in Nat
  <2> DEFINE a == (C + 1) * d  b == (G + 1) * D
  <2>1. a \in Nat /\ b \in Nat /\ a <= b
    <3>1. (G + 1) * D \in Nat
      BY <1>1
    <3> QED
      BY <1>3, <1>4, <3>1
  <2> HIDE DEF a, b
  <2>2. a * T <= b * T /\ a * T \in Nat /\ b * T \in Nat
    BY <1>1, <2>1, ProductGrows
  <2> QED
    BY <2>2 DEF a, b
<1>6. (C + 1) * d * T = C * (d * T) + d * T /\ d * T \in Nat /\ C * (d * T) \in Nat
  BY <1>1
<1> QED
  BY <1>1, <1>2, <1>5, <1>6 DEF T


\* The divisor, the phase and the ticks counted that the next sample finds.
NextDivisor == IF "divisor" \in DOMAIN queued THEN queued["divisor"] ELSE divisor
NextPhase   == IF "divisor" \in DOMAIN queued THEN 0 ELSE phase
NextTicks   == IF "divisor" \in DOMAIN queued THEN 0 ELSE since.ticks

\* The line one sample later.
DelayAged == LineAged(delayLine)

\* What process() assigns, on a tick and between two.
LEMMA ProcessForm ==
  ASSUME NEW delay, NEW displacement, ProcessDelay(delay, displacement)
  PROVE  /\ divisor' = NextDivisor /\ phase' = (NextPhase + 1) % NextDivisor
         /\ wanted' = Overlaid(wanted) /\ engine' = Overlaid(engine) /\ queued' = <<>>
         /\ wowLine' = Write(LineAged(wowLine), Input)
         /\ tape' \in {Input, ReadFractional(wowLine', (Nominal + displacement) * Ticks)}
         /\ NextPhase = 0 =>
              /\ heldWet' = ReadFractional(DelayAged, Internal(delay, NextDivisor))
              /\ delayLine' = Write(DelayAged, Input)
              /\ read' = [delay |-> delay, age |-> 0]
              /\ since' = [since EXCEPT !.samples = Lesser(@ + 1, WowSettled),
                                        !.ticks = Lesser(NextTicks + 1, Settled),
                                        !.filled = Lesser(@ + 1, Settled)]
         /\ NextPhase # 0 =>
              /\ heldWet' = Aged(heldWet)
              /\ delayLine' = DelayAged
              /\ read' = [read EXCEPT !.age = Lesser(@ + 1, Greatest(Divisors))]
              /\ since' = [since EXCEPT !.samples = Lesser(@ + 1, WowSettled),
                                        !.ticks = NextTicks]
<1> DEFINE tick == NextPhase = 0
           wow == TapeWritten(Overlaid(engine).wowDepth)
<1>1. /\ divisor' = NextDivisor /\ phase' = (NextPhase + 1) % NextDivisor
      /\ wanted' = Overlaid(wanted) /\ engine' = Overlaid(engine) /\ queued' = <<>>
  BY Zenon DEF ProcessDelay, NextDivisor, NextPhase, Restarted
<1>2. wowLine' = Write(LineAged(wowLine), Input)
  BY Zenon DEF ProcessDelay, TapeWritten
<1>3. tape' \in {Input, ReadFractional(wowLine', (Nominal + displacement) * Ticks)}
  <2>1. tape' = IF Overlaid(engine).wowDepth = "default" THEN Input
                ELSE ReadFractional(wowLine', (Nominal + displacement) * Ticks)
    BY Zenon DEF ProcessDelay
  <2> QED
    BY <2>1, Zenon
<1>4. /\ heldWet' = IF tick THEN ReadFractional(DelayAged, Internal(delay, NextDivisor)) ELSE Aged(heldWet)
      /\ delayLine' = IF tick THEN Write(DelayAged, Input) ELSE DelayAged
  BY Zenon DEF ProcessDelay, NextDivisor, NextPhase, Restarted, Carried, DelayAged
<1>5. /\ read' = IF tick THEN [delay |-> delay, age |-> 0]
                 ELSE [read EXCEPT !.age = Lesser(@ + 1, Greatest(Divisors))]
      /\ since' = [since EXCEPT !.samples = Lesser(@ + 1, WowSettled),
                                !.ticks = IF tick THEN Lesser(NextTicks + 1, Settled) ELSE NextTicks,
                                !.filled = IF tick THEN Lesser(@ + 1, Settled) ELSE @]
  BY Zenon DEF ProcessDelay, NextPhase, NextTicks, Restarted
<1>6. tick => since' = [since EXCEPT !.samples = Lesser(@ + 1, WowSettled),
                                     !.ticks = Lesser(NextTicks + 1, Settled),
                                     !.filled = Lesser(@ + 1, Settled)]
  BY <1>5, Zenon
<1>7. ~tick => since' = [since EXCEPT !.samples = Lesser(@ + 1, WowSettled), !.ticks = NextTicks]
  BY <1>5
<1> QED
  BY <1>1, <1>2, <1>3, <1>4, <1>5, <1>6, <1>7

\* The least of two numbers.
LEMMA LesserIs ==
  ASSUME NEW a \in Nat, NEW b \in Nat
  PROVE  Lesser(a, b) \in Nat /\ Lesser(a, b) <= a /\ Lesser(a, b) <= b /\ Lesser(a, b) \in {a, b}
BY DEF Lesser

\* What the next sample finds: shapes, and how the line it finds is spaced.
LEMMA QueuedFound ==
  ASSUME DelayConstants, DelayInv
  PROVE  /\ NextDivisor \in Divisors /\ NextDivisor \in Nat \ {0} /\ NextPhase \in 0..NextDivisor - 1
         /\ NextTicks \in 0..Settled /\ read.age \in Nat
         /\ (NextPhase # 0 => read.age <= NextPhase - 1 /\ NextDivisor = divisor /\ NextPhase = phase)
         /\ NextTicks > 0 =>
              /\ NextTicks = since.ticks /\ NextDivisor = divisor /\ NextPhase = phase
              /\ read.age = IF NextPhase = 0 THEN NextDivisor - 1 ELSE NextPhase - 1
<1>1. /\ divisor \in Divisors /\ divisor \in Nat \ {0} /\ phase \in 0..divisor - 1
      /\ since.ticks \in 0..Settled /\ read.age \in Nat /\ Settled \in Nat
      /\ \A p \in DOMAIN queued : queued[p] \in IF p = "divisor" THEN Divisors ELSE DelayValues
  BY DelayFacts DEF DelayInv, DelayShapes
<1>2. read.age <= SinceTick /\ (since.ticks > 0 => read.age = SinceTick)
  BY DEF DelayInv, LineIsSpaced
<1>3. CASE "divisor" \in DOMAIN queued
  <2>1. queued["divisor"] \in Divisors
    BY <1>1, <1>3
  <2>2. queued["divisor"] \in Nat \ {0}
    BY <2>1, DelayFacts
  <2> QED
    BY <1>1, <1>3, <2>1, <2>2 DEF NextDivisor, NextPhase, NextTicks
<1>4. CASE "divisor" \notin DOMAIN queued
  BY <1>1, <1>2, <1>4 DEF NextDivisor, NextPhase, NextTicks, SinceTick
<1> QED
  BY <1>3, <1>4

\* The line one sample later, as the next tick will read it.
LEMMA AgedSpaced ==
  ASSUME DelayConstants, DelayInv
  PROVE  /\ IsLine(DelayAged, Slots) /\ Slots \in Nat \ {0, 1} /\ Slots <= Greatest(Capacities)
         /\ CapacityOf(DelayAged) = Slots
         /\ Clear(DelayAged, Slots, since.filled)
         /\ NextTicks > 0 =>
              Spaced(DelayAged, Slots, NextTicks, NextDivisor * Ticks, (read.age + 1) * Ticks)
<1> DEFINE C == Slots
<1>1. TraceConstants /\ C \in Capacities /\ C \in Nat \ {0, 1} /\ IsLine(delayLine, C)
      /\ Clear(delayLine, C, since.filled) /\ since.filled \in Nat /\ Ticks \in Nat
      /\ C <= Greatest(Capacities)
  BY DelayFacts DEF DelayInv, DelayShapes
<1> HIDE DEF C
<1>2. IsLine(DelayAged, C) /\ CapacityOf(DelayAged) = C
  <2>1. C \in Nat \ {0}
    BY <1>1
  <2>2. IsLine(DelayAged, C)
    BY <1>1, <2>1, LineAgedType DEF DelayAged
  <2> QED
    BY <2>1, <2>2, CapacityIsSlots
<1>3. Clear(DelayAged, C, since.filled)
  <2>1. C \in Nat \ {0}
    BY <1>1
  <2> QED
    BY <1>1, <2>1, ClearAges DEF DelayAged
<1>4. ASSUME NextTicks > 0
      PROVE  Spaced(DelayAged, C, NextTicks, NextDivisor * Ticks, (read.age + 1) * Ticks)
  <2> DEFINE n == NextTicks  d == NextDivisor  step == d * Ticks  age == read.age * Ticks
  <2>1. /\ n \in Nat /\ d \in Nat \ {0} /\ d \in Divisors /\ read.age \in Nat /\ read.age + 1 <= d
        /\ NextTicks = since.ticks /\ d = divisor
    BY <1>4, QueuedFound, DelayFacts
  <2>2. Spaced(delayLine, C, n, step, age)
    BY <1>4, <2>1 DEF DelayInv, LineIsSpaced, C
  <2>3. step \in Nat /\ age \in Nat /\ age + Ticks = (read.age + 1) * Ticks /\ age + Ticks <= step
    <3>1. read.age + 1 \in Nat
      BY <2>1
    <3>2. (read.age + 1) * Ticks <= d * Ticks
      BY <1>1, <2>1, <3>1, ProductGrows
    <3>3. (read.age + 1) * Ticks = read.age * Ticks + Ticks
      BY <1>1, <2>1
    <3> QED
      BY <1>1, <2>1, <3>2, <3>3
  <2>4. C * step <= Horizon
    BY <1>1, <2>1, WithinHorizon
  <2> HIDE DEF step, age, n, d
  <2>5. ASSUME NEW k \in 0..C - 1, k < n PROVE k * step + age + Ticks <= Horizon
    <3>1. k * step <= (C - 1) * step /\ k * step \in Nat /\ (C - 1) * step \in Nat
      BY <1>1, <2>3, StepsWithin
    <3>2. (C - 1) * step = C * step - step
      BY <1>1, <2>3
    <3>3. C * step \in Nat /\ Horizon \in Nat
      BY <1>1, <2>3, DelayFacts
    <3> QED
      BY <1>1, <2>3, <2>4, <3>1, <3>2, <3>3
  <2>6. C \in Nat \ {0}
    BY <1>1
  <2>7. Spaced(DelayAged, C, n, step, age + Ticks)
    BY <1>1, <2>1, <2>2, <2>3, <2>5, <2>6, SpacedAges DEF DelayAged
  <2>8. Spaced(DelayAged, C, n, step, (read.age + 1) * Ticks)
    BY <2>3, <2>7
  <2> QED
    BY <2>8 DEF n, d, step
<1> QED
  BY <1>1, <1>2, <1>3, <1>4 DEF C

\* One sample keeps the line a line of as many slots.
LEMMA ProcessLine ==
  ASSUME DelayConstants, DelayInv, NEW delay \in Delays, NEW displacement, ProcessDelay(delay, displacement)
  PROVE  /\ IsLine(delayLine', Slots) /\ Slots' = Slots
         /\ IsLine(wowLine', WowCapacity)
         /\ delayLine' \in {DelayAged, Write(DelayAged, Input)}
<1>1. /\ IsLine(DelayAged, Slots) /\ Slots \in Nat \ {0} /\ TraceConstants /\ Input \in Traces
      /\ WowCapacity \in Nat \ {0} /\ IsLine(wowLine, WowCapacity)
  BY AgedSpaced, DelayFacts, InputType DEF DelayInv, DelayShapes
<1>2. delayLine' \in {DelayAged, Write(DelayAged, Input)} /\ wowLine' = Write(LineAged(wowLine), Input)
  BY ProcessForm
<1>3. IsLine(Write(DelayAged, Input), Slots)
  BY <1>1, WriteType
<1>4. IsLine(delayLine', Slots)
  BY <1>1, <1>2, <1>3
<1>5. CapacityOf(delayLine') = Slots
  BY <1>1, <1>4, CapacityIsSlots
<1>6. IsLine(LineAged(wowLine), WowCapacity)
  BY <1>1, LineAgedType
<1>7. IsLine(wowLine', WowCapacity)
  BY <1>1, <1>2, <1>6, WriteType
<1> QED
  BY <1>2, <1>4, <1>5, <1>7 DEF Slots

\* The phase of the decimator after one sample.
LEMMA PhaseSteps ==
  ASSUME NEW d \in Nat \ {0}, NEW at \in 0..d - 1
  PROVE  /\ (at + 1) % d \in 0..d - 1
         /\ at = (IF (at + 1) % d = 0 THEN d - 1 ELSE ((at + 1) % d) - 1)
<1>1. CASE at = d - 1
  <2>1. (0 + d) % d = 0
    BY Remainder
  <2> QED
    BY <1>1, <2>1
<1>2. CASE at # d - 1
  <2>1. at + 1 \in 0..d - 1
    BY <1>2
  <2>2. (at + 1) % d = at + 1
    BY <2>1, Remainder
  <2> QED
    BY <1>2, <2>1, <2>2
<1> QED
  BY <1>1, <1>2

\* The counts after one sample.
LEMMA ProcessCounts ==
  ASSUME DelayConstants, DelayInv, NEW delay \in Delays, NEW displacement, ProcessDelay(delay, displacement)
  PROVE  /\ SinceTick' = NextPhase /\ phase' \in 0..NextDivisor - 1 /\ divisor' = NextDivisor
         /\ read' = IF NextPhase = 0 THEN [delay |-> delay, age |-> 0]
                    ELSE [delay |-> read.delay, age |-> read.age + 1]
         /\ since' = [ticks   |-> IF NextPhase = 0 THEN Lesser(NextTicks + 1, Settled) ELSE NextTicks,
                      filled  |-> IF NextPhase = 0 THEN Lesser(since.filled + 1, Settled) ELSE since.filled,
                      samples |-> Lesser(since.samples + 1, WowSettled),
                      calls   |-> since.calls]
<1>1. /\ NextDivisor \in Nat \ {0} /\ NextPhase \in 0..NextDivisor - 1
      /\ divisor' = NextDivisor /\ phase' = (NextPhase + 1) % NextDivisor
  BY QueuedFound, ProcessForm
<1>2. SinceTick' = NextPhase /\ phase' \in 0..NextDivisor - 1
  BY <1>1, PhaseSteps DEF SinceTick
<1>3. /\ read = [delay |-> read.delay, age |-> read.age]
      /\ since = [ticks |-> since.ticks, filled |-> since.filled, samples |-> since.samples,
                  calls |-> since.calls]
  BY DEF DelayInv, DelayShapes
<1>4. CASE NextPhase = 0
  BY <1>1, <1>2, <1>3, <1>4, ProcessForm
<1>5. CASE NextPhase # 0
  <2>1. /\ read.age <= NextPhase - 1 /\ read.age \in Nat /\ NextDivisor <= Greatest(Divisors)
        /\ Greatest(Divisors) \in Nat
    BY <1>5, QueuedFound, DelayFacts
  <2>2. Lesser(read.age + 1, Greatest(Divisors)) = read.age + 1
    BY <1>1, <2>1 DEF Lesser
  <2> QED
    BY <1>1, <1>2, <1>3, <1>5, <2>2, ProcessForm
<1> QED
  BY <1>4, <1>5

\* What was written after the last tick stays one internal sample apart.
LEMMA ProcessSpaced ==
  ASSUME DelayConstants, DelayInv, NEW delay \in Delays, NEW displacement, ProcessDelay(delay, displacement)
  PROVE  LineIsSpaced'
<1> DEFINE C == Slots  d == NextDivisor  n == NextTicks  step == d * Ticks
<1>1. /\ d \in Nat \ {0} /\ NextPhase \in 0..d - 1 /\ n \in Nat /\ Settled \in Nat /\ Ticks \in Nat
      /\ C \in Nat \ {0} /\ IsLine(DelayAged, C) /\ TraceConstants /\ read.age \in Nat
  BY QueuedFound, AgedSpaced, DelayFacts
<1>2. SinceTick' = NextPhase /\ divisor' = d /\ Slots' = C
  BY ProcessCounts, ProcessLine
<1>3. CASE NextPhase = 0
  <2>1. /\ read'.age = 0 /\ since'.ticks = Lesser(n + 1, Settled)
        /\ delayLine' = Write(DelayAged, Input)
    BY <1>3, ProcessCounts, ProcessForm
  <2>2. Spaced(DelayAged, C, n, step, step)
    <3>1. CASE n = 0
      BY <1>1, <3>1 DEF Spaced
    <3>2. CASE n > 0
      <4>1. Spaced(DelayAged, C, n, step, (read.age + 1) * Ticks) /\ read.age = d - 1
        BY <1>3, <3>2, QueuedFound, AgedSpaced
      <4>2. read.age + 1 = d
        BY <1>1, <4>1
      <4> QED
        BY <4>1, <4>2
    <3> QED
      BY <1>1, <3>1, <3>2
  <2>3. step \in Nat
    BY <1>1
  <2> HIDE DEF C, d, n, step
  <2>4. Spaced(delayLine', C, n + 1, step, 0)
    BY <1>1, <2>1, <2>2, <2>3, WriteIsSpaced
  <2>5. since'.ticks <= n + 1 /\ since'.ticks \in Nat
    BY <1>1, <2>1, LesserIs
  <2>6. Spaced(delayLine', C, since'.ticks, step, 0)
    <3>1. \A k \in 0..C - 1 : k < since'.ticks => k < n + 1
      BY <1>1, <2>5
    <3> QED
      BY <2>4, <3>1 DEF Spaced
  <2>7. 0 * Ticks = 0
    BY <1>1
  <2>8. Spaced(delayLine, Slots, since.ticks, divisor * Ticks, read.age * Ticks)'
    BY <1>2, <2>1, <2>6, <2>7 DEF step
  <2> QED
    BY <1>2, <1>3, <2>1, <2>8 DEF LineIsSpaced
<1>4. CASE NextPhase # 0
  <2>1. /\ read'.age = read.age + 1 /\ since'.ticks = n /\ delayLine' = DelayAged
        /\ read.age <= NextPhase - 1
    BY <1>4, ProcessCounts, ProcessForm, QueuedFound
  <2>2. ASSUME n > 0
        PROVE  read.age = NextPhase - 1 /\ Spaced(DelayAged, C, n, step, (read.age + 1) * Ticks)
    BY <1>4, <2>2, QueuedFound, AgedSpaced
  <2> HIDE DEF C, d, n
  <2>3. ASSUME since'.ticks > 0
        PROVE  /\ read'.age = SinceTick'
               /\ Spaced(delayLine, Slots, since.ticks, divisor * Ticks, read.age * Ticks)'
    <3>1. read.age = NextPhase - 1 /\ Spaced(DelayAged, C, n, d * Ticks, (read.age + 1) * Ticks)
      BY <2>1, <2>2, <2>3
    <3> QED
      BY <1>1, <1>2, <2>1, <3>1
  <2>4. read'.age <= SinceTick'
    BY <1>1, <1>2, <2>1
  <2> QED
    BY <2>3, <2>4 DEF LineIsSpaced
<1> QED
  BY <1>3, <1>4

\* The internal delay a tick asks for: of a requested delay within the line it
\* is that delay, of one beyond it no less than the line is long.
LEMMA InternalDelay ==
  ASSUME NEW C \in Nat \ {0}, NEW d \in Nat \ {0}, NEW T \in Nat \ {0}, T % d = 0, NEW delay \in Nat
  PROVE  /\ (Lesser(delay, C * d) * T) \div d \in Nat
         /\ delay <= (C - 1) * d => /\ (Lesser(delay, C * d) * T) \div d <= (C - 1) * T
                                    /\ d * ((Lesser(delay, C * d) * T) \div d) = delay * T
         /\ delay > (C - 1) * d => (Lesser(delay, C * d) * T) \div d >= (C - 1) * T
<1> DEFINE m == Lesser(delay, C * d)
<1>1. PICK q \in Nat : T = d * q
  <2>1. T = d * (T \div d) /\ T \div d \in Nat
    BY Z3
  <2> QED
    BY <2>1
<1>2. C * d \in Nat /\ (C - 1) * d \in Nat /\ C * d = (C - 1) * d + d
  OBVIOUS
<1>3. m \in Nat /\ (delay <= (C - 1) * d => m = delay) /\ (delay > (C - 1) * d => m >= (C - 1) * d)
  BY <1>2 DEF Lesser
<1> HIDE DEF m
<1>4. (m * T) \div d = m * q
  <2>1. m * T = d * (m * q) /\ m * q \in Nat
    BY <1>1, <1>3, Z3
  <2>2. ASSUME NEW x \in Nat PROVE (d * x) \div d = x
    BY <2>2, Z3
  <2> QED
    BY <2>1, <2>2
<1>5. m * q \in Nat /\ d * (m * q) = m * T /\ (C - 1) * T = ((C - 1) * d) * q
  BY <1>1, <1>3, Z3
<1>6. delay <= (C - 1) * d => m * q <= (C - 1) * T
  <2> SUFFICES ASSUME delay <= (C - 1) * d PROVE m * q <= (C - 1) * T
    OBVIOUS
  <2>1. m * q <= ((C - 1) * d) * q
    BY <1>1, <1>2, <1>3, ProductGrows
  <2> QED
    BY <1>5, <2>1
<1>7. delay > (C - 1) * d => m * q >= (C - 1) * T
  <2> SUFFICES ASSUME delay > (C - 1) * d PROVE m * q >= (C - 1) * T
    OBVIOUS
  <2>1. ((C - 1) * d) * q <= m * q /\ m * q \in Nat /\ ((C - 1) * d) * q \in Nat
    BY <1>1, <1>2, <1>3, ProductGrows
  <2> QED
    BY <1>5, <2>1
<1>8. delay <= (C - 1) * d => d * (m * q) = delay * T
  BY <1>3, <1>5
<1> QED
  BY <1>3, <1>4, <1>5, <1>6, <1>7, <1>8 DEF m

\* What a tick reads, once the whole line was written at this divisor.
LEMMA TickReads ==
  ASSUME DelayConstants, DelayInv, NEW delay \in Delays, NextPhase = 0, NextTicks >= Slots
  PROVE  ReadFractional(DelayAged, Internal(delay, NextDivisor)).centre
           = (Lesser(delay, (Slots - 1) * NextDivisor) + NextDivisor) * Ticks
<1> DEFINE C == Slots  d == NextDivisor  T == Ticks  at == Internal(delay, d)
<1>1. /\ d \in Nat \ {0} /\ T \in Nat \ {0} /\ T % d = 0 /\ delay \in Nat /\ TraceConstants
      /\ C \in Nat \ {0} /\ C - 1 \in Nat /\ IsLine(DelayAged, C) /\ NextTicks \in Nat /\ d * T \in Nat
  <2>1. d \in Nat \ {0} /\ T \in Nat \ {0} /\ T % d = 0 /\ delay \in Nat /\ TraceConstants
    BY QueuedFound, DelayFacts
  <2>2. C \in Nat \ {0} /\ C - 1 \in Nat /\ IsLine(DelayAged, C) /\ NextTicks \in Nat
    BY QueuedFound, AgedSpaced
  <2> QED
    BY <2>1, <2>2
<1>2. at = (Lesser(delay, C * d) * T) \div d
  BY DEF Internal, Slots
<1>3. Spaced(DelayAged, C, C, d * T, d * T)
  <2>1. Spaced(DelayAged, C, NextTicks, d * T, (read.age + 1) * T) /\ read.age = d - 1
    BY <1>1, QueuedFound, AgedSpaced
  <2>2. read.age + 1 = d
    BY <1>1, <2>1
  <2>3. \A k \in 0..C - 1 : k < C => k < NextTicks
    BY <1>1
  <2> QED
    BY <2>1, <2>2, <2>3 DEF Spaced
<1> HIDE DEF C, d, at, T
<1>4. /\ at \in Nat
      /\ delay <= (C - 1) * d => at <= (C - 1) * T /\ d * at = delay * T
      /\ delay > (C - 1) * d => at >= (C - 1) * T
  <2>1. /\ (Lesser(delay, C * d) * T) \div d \in Nat
        /\ delay <= (C - 1) * d => /\ (Lesser(delay, C * d) * T) \div d <= (C - 1) * T
                                   /\ d * ((Lesser(delay, C * d) * T) \div d) = delay * T
        /\ delay > (C - 1) * d => (Lesser(delay, C * d) * T) \div d >= (C - 1) * T
    BY <1>1, InternalDelay, Zenon
  <2> QED
    BY <1>2, <2>1, Zenon
<1>5. /\ C \in 1..C /\ (C - 1) * T \in Nat /\ (C - 1) * T <= (C - 1) * T
      /\ (C - 1) * d \in Nat /\ d * ((C - 1) * T) = ((C - 1) * d) * T
  BY <1>1
<1>6. CASE delay <= (C - 1) * d
  <2>1. ReadFractional(DelayAged, at).centre = d * at + d * T
    BY <1>1, <1>3, <1>4, <1>5, <1>6, ReadFractionalIsExact DEF T
  <2>2. Lesser(delay, (C - 1) * d) = delay
    BY <1>1, <1>5, <1>6 DEF Lesser
  <2>3. (delay + d) * T = delay * T + d * T
    BY <1>1
  <2> QED
    BY <1>4, <1>6, <2>1, <2>2, <2>3 DEF C, d, at, T
<1>7. CASE delay > (C - 1) * d
  <2>1. ReadFractional(DelayAged, at) = ReadFractional(DelayAged, (C - 1) * T)
    <3>1. at >= (C - 1) * T
      BY <1>4, <1>7
    <3> QED
      BY <1>1, <1>4, <3>1, ReadIsClamped, Zenon DEF T
  <2>2. ReadFractional(DelayAged, (C - 1) * T).centre = d * ((C - 1) * T) + d * T
    <3> DEFINE far == (C - 1) * T
    <3>1. far \in Nat /\ far <= (C - 1) * Ticks
      BY <1>5 DEF T
    <3> HIDE DEF far
    <3>2. ReadFractional(DelayAged, far).centre = d * far + d * T
      BY <1>1, <1>3, <1>5, <3>1, ReadFractionalIsExact DEF T
    <3> QED
      BY <3>2 DEF far
  <2>3. Lesser(delay, (C - 1) * d) = (C - 1) * d
    BY <1>1, <1>5, <1>7 DEF Lesser
  <2>4. ((C - 1) * d + d) * T = ((C - 1) * d) * T + d * T
    BY <1>1, <1>5
  <2> QED
    BY <1>5, <2>1, <2>2, <2>3, <2>4 DEF C, d, at, T
<1> QED
  BY <1>1, <1>5, <1>6, <1>7

\* Once the line was filled at one divisor the delay stays what was asked.
LEMMA ProcessHonours ==
  ASSUME DelayConstants, DelayInv, NEW delay \in Delays, NEW displacement, ProcessDelay(delay, displacement)
  PROVE  DelayIsHonoured'
<1> DEFINE C == Slots  d == NextDivisor  n == NextTicks  T == Ticks
<1>1. /\ d \in Nat \ {0} /\ d \in Divisors /\ NextPhase \in 0..d - 1 /\ n \in Nat /\ T \in Nat
      /\ C \in Nat \ {0} /\ C \in Capacities /\ read.age \in Nat /\ read.delay \in Nat
      /\ Settled \in Nat /\ C + 1 <= Settled /\ delay \in Nat
  <2>1. /\ d \in Nat \ {0} /\ d \in Divisors /\ NextPhase \in 0..d - 1 /\ n \in Nat /\ read.age \in Nat
    BY QueuedFound, DelayFacts
  <2>2. C \in Nat \ {0} /\ C \in Capacities /\ Settled \in Nat /\ C + 1 <= Settled /\ T \in Nat
    BY DelayFacts DEF DelayInv, DelayShapes
  <2>3. read.delay \in Nat /\ delay \in Nat
    BY DelayFacts DEF DelayInv, DelayShapes
  <2> QED
    BY <2>1, <2>2, <2>3
<1>2. divisor' = d /\ CapacityOf(delayLine') = C
  BY ProcessCounts, ProcessLine DEF Slots
<1> HIDE DEF C, d, n, T
<1> SUFFICES ASSUME since'.ticks = Settled
             PROVE  heldWet'.centre = (Lesser(read'.delay, (C - 1) * d) + d + read'.age) * T
  BY <1>2 DEF DelayIsHonoured, T
<1>3. CASE NextPhase = 0
  <2>1. /\ read' = [delay |-> delay, age |-> 0] /\ since'.ticks = Lesser(n + 1, Settled)
        /\ heldWet' = ReadFractional(DelayAged, Internal(delay, d))
    BY <1>3, ProcessCounts, ProcessForm DEF n, d
  <2>2. n >= C
    BY <1>1, <2>1, LesserIs
  <2>3. heldWet'.centre = (Lesser(delay, (C - 1) * d) + d) * T
    <3>1. ReadFractional(DelayAged, Internal(delay, d)).centre = (Lesser(delay, (C - 1) * d) + d) * T
      BY <1>3, <2>2, TickReads DEF C, d, n, T
    <3> QED
      BY <2>1, <3>1
  <2>4. Lesser(delay, (C - 1) * d) \in Nat
    <3>1. (C - 1) * d \in Nat
      BY <1>1
    <3> QED
      BY <1>1, <3>1, LesserIs
  <2>5. Lesser(delay, (C - 1) * d) + d + 0 = Lesser(delay, (C - 1) * d) + d
    BY <1>1, <2>4
  <2> QED
    BY <2>1, <2>3, <2>5
<1>4. CASE NextPhase # 0
  <2>1. /\ read' = [delay |-> read.delay, age |-> read.age + 1] /\ since'.ticks = n
        /\ heldWet' = Aged(heldWet) /\ read.age <= NextPhase - 1 /\ d = divisor
    BY <1>4, ProcessCounts, ProcessForm, QueuedFound DEF n, d
  <2>2. since.ticks = Settled
    <3>1. n > 0
      BY <1>1, <2>1
    <3> QED
      BY <2>1, <3>1, QueuedFound DEF n
  <2> DEFINE far == Lesser(read.delay, (C - 1) * d)
  <2>3. far \in Nat /\ far <= (C - 1) * d /\ (C - 1) * d \in Nat
    <3>1. (C - 1) * d \in Nat
      BY <1>1
    <3> QED
      BY <1>1, <3>1, LesserIs
  <2>4. heldWet.centre = (far + d + read.age) * T
    BY <2>1, <2>2 DEF DelayInv, DelayIsHonoured, Slots, C, T
  <2> HIDE DEF far
  <2>5. (far + d + read.age) * T + T = (far + d + (read.age + 1)) * T /\ (far + d + read.age) * T \in Nat
    BY <1>1, <2>3
  <2>6. (far + d + (read.age + 1)) * T <= (C + 1) * d * T
    <3>1. far + d + (read.age + 1) <= (C + 1) * d
      <4>1. (C + 1) * d = (C - 1) * d + d + d
        BY <1>1
      <4> QED
        BY <1>1, <2>1, <2>3, <4>1
    <3>2. far + d + (read.age + 1) \in Nat /\ (C + 1) * d \in Nat
      BY <1>1, <2>3
    <3> DEFINE a == far + d + (read.age + 1)  b == (C + 1) * d
    <3> HIDE DEF a, b
    <3>3. a * T <= b * T
      BY <1>1, <3>1, <3>2, ProductGrows DEF a, b
    <3> QED
      BY <3>3 DEF a, b
  <2>7. (C + 1) * d * T <= Horizon /\ TraceConstants /\ Horizon \in Nat
    BY <1>1, WithinHorizon, DelayFacts DEF T
  <2>8. Later((far + d + read.age) * T) = (far + d + read.age) * T + T
    <3> DEFINE a == (far + d + read.age) * T  b == (far + d + (read.age + 1)) * T  c == (C + 1) * d * T
    <3>1. a \in Nat /\ a + T = b /\ b <= c /\ c <= Horizon /\ c \in Nat
      <4>1. (C + 1) * d * T \in Nat
        BY <1>1
      <4> QED
        BY <2>5, <2>6, <2>7, <4>1
    <3> HIDE DEF a, b, c
    <3>2. a + Ticks <= Horizon
      BY <1>1, <2>7, <3>1 DEF T
    <3>3. Later(a) = a + Ticks
      BY <2>7, <3>1, <3>2, LaterAge
    <3> QED
      BY <3>3 DEF a, T
  <2>9. heldWet'.centre = Later(heldWet.centre)
    BY <2>1 DEF Aged
  <2> QED
    BY <2>1, <2>4, <2>5, <2>8, <2>9 DEF far
<1> QED
  BY <1>1, <1>3, <1>4

\* No change of rate loses what the line holds.
LEMMA ProcessEchoes ==
  ASSUME DelayConstants, DelayInv, NEW delay \in Delays, NEW displacement, ProcessDelay(delay, displacement)
  PROVE  Clear(delayLine', Slots, since'.filled) /\ RateChangeKeepsEcho'
<1> DEFINE C == Slots  f == since.filled
<1>1. /\ C \in Nat \ {0} /\ C + 1 <= Settled /\ Settled \in Nat /\ TraceConstants /\ f \in Nat
      /\ IsLine(DelayAged, C) /\ Clear(DelayAged, C, f) /\ heldWet \in Traces
  BY AgedSpaced, DelayFacts DEF DelayInv, DelayShapes
<1>2. Settled = f => heldWet.centre # Unclear
  BY DEF DelayInv, RateChangeKeepsEcho
<1> HIDE DEF C, f
<1>3. CASE NextPhase = 0
  <2>1. /\ since'.filled = Lesser(f + 1, Settled) /\ delayLine' = Write(DelayAged, Input)
        /\ heldWet' = ReadFractional(DelayAged, Internal(delay, NextDivisor))
    BY <1>3, ProcessCounts, ProcessForm DEF f
  <2>2. since'.filled \in Nat /\ since'.filled <= f + 1
    BY <1>1, <2>1, LesserIs
  <2>3. Clear(delayLine', C, f + 1)
    BY <1>1, <2>1, WriteIsClear
  <2>4. Clear(delayLine', C, since'.filled)
    <3>1. \A k \in 0..C - 1 : k < since'.filled => k < f + 1
      BY <1>1, <2>2
    <3> QED
      BY <2>3, <3>1 DEF Clear
  <2>5. ASSUME since'.filled = Settled PROVE heldWet'.centre # Unclear
    <3>1. C <= f
      BY <1>1, <2>2, <2>5
    <3>2. Clear(DelayAged, C, C)
      <4>1. \A k \in 0..C - 1 : k < C => k < f
        BY <1>1, <3>1
      <4> QED
        BY <1>1, <4>1 DEF Clear
    <3>3. Internal(delay, NextDivisor) \in Nat
      <4>1. /\ NextDivisor \in Nat \ {0} /\ Ticks \in Nat \ {0} /\ Ticks % NextDivisor = 0 /\ delay \in Nat
        BY QueuedFound, DelayFacts
      <4>2. (Lesser(delay, C * NextDivisor) * Ticks) \div NextDivisor \in Nat
        BY <1>1, <4>1, InternalDelay
      <4> QED
        BY <4>2 DEF Internal, C, Slots
    <3>4. ReadFractional(DelayAged, Internal(delay, NextDivisor)).centre \in Nat
      BY <1>1, <3>2, <3>3, ReadIsClear
    <3> QED
      BY <2>1, <3>4 DEF Unclear
  <2> QED
    BY <2>4, <2>5 DEF RateChangeKeepsEcho, C
<1>4. CASE NextPhase # 0
  <2>1. since'.filled = f /\ delayLine' = DelayAged /\ heldWet' = Aged(heldWet)
    BY <1>4, ProcessCounts, ProcessForm DEF f
  <2>2. ASSUME f = Settled PROVE heldWet'.centre # Unclear
    <3>1. heldWet.centre # Unclear /\ heldWet.centre \in Ages
      BY <1>1, <1>2, <2>2 DEF Traces
    <3>2. Later(heldWet.centre) # Unclear
      BY <1>1, <3>1 DEF Later, Ages, Unclear, TraceConstants
    <3> QED
      BY <2>1, <3>2 DEF Aged
  <2> QED
    BY <1>1, <2>1, <2>2 DEF RateChangeKeepsEcho, C
<1> QED
  BY <1>3, <1>4

\* The wow line has heard every sample, whatever the depth was.
LEMMA ProcessTapeLine ==
  ASSUME DelayConstants, DelayInv, NEW delay \in Delays, NEW displacement \in -2 * WowRange..2 * WowRange,
         ProcessDelay(delay, displacement)
  PROVE  /\ Recent(wowLine', WowCapacity, since'.samples) /\ TapeHearsCurrent' /\ tape' \in Traces
<1> DEFINE W == WowCapacity  n == since.samples  at == (Nominal + displacement) * Ticks
<1>1. /\ W \in Nat \ {0} /\ n \in Nat /\ TraceConstants /\ Ticks \in Nat \ {0} /\ IsLine(wowLine, W)
      /\ Recent(wowLine, W, n) /\ WowSettled = W /\ 2 * Nominal <= W - 1 /\ Nominal = 2 * WowRange
      /\ WowRange \in Nat
  BY DelayFacts DEF DelayInv, DelayShapes
<1>2. /\ wowLine' = Write(LineAged(wowLine), Input) /\ IsLine(wowLine', W)
      /\ tape' \in {Input, ReadFractional(wowLine', at)}
      /\ since'.samples = Lesser(n + 1, W)
  BY <1>1, ProcessForm, ProcessLine, ProcessCounts
<1>3. (W - 1) * Ticks <= Horizon
  <2>1. W * Ticks <= Horizon /\ Horizon \in Nat
    BY DelayFacts DEF DelayConstants
  <2>2. (W - 1) * Ticks = W * Ticks - Ticks /\ W * Ticks \in Nat
    BY <1>1
  <2> QED
    BY <1>1, <2>1, <2>2
<1>4. at \in Nat /\ at <= 2 * Nominal * Ticks /\ 2 * Nominal * Ticks <= (W - 1) * Ticks
  <2> DEFINE a == Nominal + displacement
  <2>1. a \in Nat /\ a <= 2 * Nominal /\ 2 * Nominal \in Nat /\ W - 1 \in Nat
    BY <1>1
  <2> HIDE DEF a
  <2>2. a * Ticks <= 2 * Nominal * Ticks /\ a * Ticks \in Nat
    BY <1>1, <2>1, ProductGrows
  <2>3. 2 * Nominal * Ticks <= (W - 1) * Ticks
    BY <1>1, <2>1, ProductGrows
  <2> QED
    BY <2>2, <2>3 DEF a
<1> HIDE DEF W, n, at
<1>5. Recent(wowLine', W, n + 1)
  BY <1>1, <1>2, <1>3, WriteIsRecent
<1>6. since'.samples \in Nat /\ since'.samples <= n + 1 /\ since'.samples <= W
  BY <1>1, <1>2, LesserIs
<1>7. Recent(wowLine', W, since'.samples)
  <2>1. \A k \in 0..W - 1 : k < since'.samples => k < n + 1
    BY <1>1, <1>6
  <2> QED
    BY <1>5, <2>1 DEF Recent, Spaced
<1>8. tape' \in Traces
  <2>1. ReadFractional(wowLine', at) \in Traces
    BY <1>1, <1>2, <1>4, ReadIsTrace
  <2> QED
    BY <1>1, <1>2, <2>1, InputType
<1>9. ASSUME since'.samples = W PROVE tape'.centre \in 0..2 * Nominal * Ticks
  <2>1. Recent(wowLine', W, W)
    BY <1>7, <1>9
  <2>2. Spaced(wowLine', W, W, 1 * Ticks, 0)
    <3>1. 1 * Ticks = Ticks
      BY <1>1
    <3> QED
      BY <2>1, <3>1 DEF Recent
  <2>3. W \in 1..W /\ at <= (W - 1) * Ticks
    <3>1. 2 * Nominal * Ticks \in Nat /\ (W - 1) * Ticks \in Nat
      BY <1>1
    <3> QED
      BY <1>1, <1>4, <3>1
  <2>4. ReadFractional(wowLine', at).centre = 1 * at + 0
    BY <1>1, <1>2, <1>4, <2>2, <2>3, ReadFractionalIsExact
  <2>5. 2 * Nominal * Ticks \in Nat
    BY <1>1
  <2> QED
    BY <1>2, <1>4, <2>4, <2>5 DEF Input
<1>10. Nominal' = Nominal /\ Ticks' = Ticks /\ WowSettled' = W
  BY <1>1
<1> QED
  BY <1>1, <1>7, <1>8, <1>9 DEF TapeHearsCurrent, W

\* Every variable keeps its shape.
LEMMA ProcessShapes ==
  ASSUME DelayConstants, DelayInv, NEW delay \in Delays, NEW displacement \in -2 * WowRange..2 * WowRange,
         ProcessDelay(delay, displacement)
  PROVE  DelayShapes' /\ FilterKeepsValue'
<1>1. /\ Slots' = Slots /\ IsLine(delayLine', Slots) /\ IsLine(wowLine', WowCapacity) /\ Slots \in Capacities
  BY ProcessLine DEF DelayInv, DelayShapes
<1>2. divisor' \in Divisors /\ phase' \in 0..divisor' - 1
  BY ProcessCounts, QueuedFound
<1>3. heldWet' \in Traces
  <2>1. /\ NextDivisor \in Nat \ {0} /\ Ticks \in Nat \ {0} /\ Ticks % NextDivisor = 0 /\ delay \in Nat
        /\ TraceConstants /\ heldWet \in Traces /\ Slots \in Nat \ {0} /\ IsLine(DelayAged, Slots)
    BY QueuedFound, DelayFacts, AgedSpaced DEF DelayInv, DelayShapes
  <2>2. (Lesser(delay, Slots * NextDivisor) * Ticks) \div NextDivisor \in Nat
    BY <2>1, InternalDelay
  <2>3. Internal(delay, NextDivisor) \in Nat
    BY <2>2 DEF Internal, Slots
  <2>4. ReadFractional(DelayAged, Internal(delay, NextDivisor)) \in Traces
    BY <2>1, <2>3, ReadIsTrace
  <2>5. Aged(heldWet) \in Traces
    BY <2>1, AgedType
  <2> QED
    BY <2>4, <2>5, ProcessForm
<1>4. tape' \in Traces
  BY ProcessTapeLine
<1>5. /\ wanted' \in [DelayParam -> DelayValues] /\ engine' \in [DelayParam -> DelayValues]
      /\ engine'["cutoff"] = wanted'["cutoff"]
  <2>1. /\ wanted \in [DelayParam -> DelayValues] /\ engine \in [DelayParam -> DelayValues]
        /\ \A p \in DelayParam : p \in DOMAIN queued => queued[p] \in DelayValues
        /\ engine["cutoff"] = wanted["cutoff"] /\ "cutoff" \in DelayParam
    BY DEF DelayInv, DelayShapes, FilterKeepsValue, DelayParam
  <2>2. wanted' = Overlaid(wanted) /\ engine' = Overlaid(engine)
    BY ProcessForm
  <2> QED
    BY <2>1, <2>2 DEF Overlaid
<1>6. queued' = <<>> /\ DOMAIN queued' = {}
  BY ProcessForm
<1>7. read' \in [delay : Delays, age : 0..Greatest(Divisors)]
  <2>1. read.delay \in Delays /\ delay \in Delays /\ read.age \in Nat /\ Greatest(Divisors) \in Nat
    BY DelayFacts DEF DelayInv, DelayShapes
  <2>2. NextPhase # 0 => read.age + 1 <= Greatest(Divisors)
    <3>1. /\ NextPhase \in 0..NextDivisor - 1 /\ NextDivisor <= Greatest(Divisors) /\ NextDivisor \in Nat
          /\ (NextPhase # 0 => read.age <= NextPhase - 1)
      BY QueuedFound, DelayFacts
    <3> QED
      BY <2>1, <3>1
  <2>3. read' = IF NextPhase = 0 THEN [delay |-> delay, age |-> 0]
                ELSE [delay |-> read.delay, age |-> read.age + 1]
    BY ProcessCounts
  <2> QED
    BY <2>1, <2>2, <2>3
<1>8. since' \in [ticks : 0..Settled, filled : 0..Settled, samples : 0..WowSettled, calls : 0..MaxCalls]
  <2>1. /\ since.filled \in 0..Settled /\ since.samples \in Nat /\ since.calls \in 0..MaxCalls
        /\ NextTicks \in 0..Settled /\ Settled \in Nat /\ WowSettled \in Nat
    BY QueuedFound, DelayFacts DEF DelayInv, DelayShapes
  <2>2. /\ Lesser(NextTicks + 1, Settled) \in 0..Settled /\ Lesser(since.filled + 1, Settled) \in 0..Settled
        /\ Lesser(since.samples + 1, WowSettled) \in 0..WowSettled
    BY <2>1 DEF Lesser
  <2>3. since' = [ticks   |-> IF NextPhase = 0 THEN Lesser(NextTicks + 1, Settled) ELSE NextTicks,
                  filled  |-> IF NextPhase = 0 THEN Lesser(since.filled + 1, Settled) ELSE since.filled,
                  samples |-> Lesser(since.samples + 1, WowSettled),
                  calls   |-> since.calls]
    BY ProcessCounts
  <2> QED
    BY <2>1, <2>2, <2>3
<1>9. engine'.cutoff = engine'["cutoff"] /\ wanted'.cutoff = wanted'["cutoff"]
  OBVIOUS
<1> QED
  BY <1>1, <1>2, <1>3, <1>4, <1>5, <1>6, <1>7, <1>8, <1>9 DEF DelayShapes, FilterKeepsValue

\* A value published, from any thread.
LEMMA SetDelayParameterInv ==
  ASSUME DelayConstants, DelayInv, SetDelayParameter
  PROVE  DelayInv'
<1>1. /\ UNCHANGED <<delayLine, divisor, phase, heldWet, wowLine, tape, wanted, engine, read>>
      /\ since' = [since EXCEPT !.calls = @ + 1] /\ since.calls < MaxCalls
      /\ since \in [ticks : 0..Settled, filled : 0..Settled, samples : 0..WowSettled, calls : 0..MaxCalls]
      /\ MaxCalls \in Nat
  BY DelayFacts DEF SetDelayParameter, MayCall, DelayInv, DelayShapes
<1>2. /\ since' \in [ticks : 0..Settled, filled : 0..Settled, samples : 0..WowSettled, calls : 0..MaxCalls]
      /\ since'.ticks = since.ticks /\ since'.filled = since.filled /\ since'.samples = since.samples
  BY <1>1
<1>3. /\ DOMAIN queued' \subseteq DelayParam \cup {"divisor"}
      /\ \A p \in DOMAIN queued' : queued'[p] \in IF p = "divisor" THEN Divisors ELSE DelayValues
  <2>1. /\ DOMAIN queued \subseteq DelayParam \cup {"divisor"}
        /\ \A p \in DOMAIN queued : queued[p] \in IF p = "divisor" THEN Divisors ELSE DelayValues
    BY DEF DelayInv, DelayShapes
  <2>2. ASSUME NEW p \in DelayParam \cup {"divisor"}, NEW v \in IF p = "divisor" THEN Divisors ELSE DelayValues,
               queued' = Published(p, v)
        PROVE  /\ DOMAIN queued' \subseteq DelayParam \cup {"divisor"}
               /\ \A q \in DOMAIN queued' : queued'[q] \in IF q = "divisor" THEN Divisors ELSE DelayValues
    BY <2>1, <2>2 DEF Published
  <2>3. CASE \E p \in DelayParam, v \in DelayValues : queued' = Published(p, v)
    <3>1. PICK p \in DelayParam, v \in DelayValues : queued' = Published(p, v)
      BY <2>3
    <3>2. p \in DelayParam \cup {"divisor"} /\ v \in IF p = "divisor" THEN Divisors ELSE DelayValues
      BY DEF DelayParam
    <3> QED
      BY <2>2, <3>1, <3>2
  <2>4. CASE \E d \in Divisors : queued' = Published("divisor", d)
    BY <2>2, <2>4
  <2> QED
    BY <2>3, <2>4 DEF SetDelayParameter
<1>4. Slots' = Slots /\ SinceTick' = SinceTick
  BY <1>1 DEF Slots, SinceTick
<1>5. DelayShapes'
  BY <1>1, <1>2, <1>3, <1>4 DEF DelayInv, DelayShapes
<1>6. LineIsSpaced'
  BY <1>1, <1>2, <1>4 DEF DelayInv, LineIsSpaced
<1>7. DelayIsHonoured'
  BY <1>1, <1>2 DEF DelayInv, DelayIsHonoured
<1>8. Clear(delayLine, Slots, since.filled)' /\ RateChangeKeepsEcho'
  BY <1>1, <1>2, <1>4 DEF DelayInv, RateChangeKeepsEcho
<1>9. Recent(wowLine, WowCapacity, since.samples)' /\ TapeHearsCurrent'
  BY <1>1, <1>2 DEF DelayInv, TapeHearsCurrent
<1>10. FilterKeepsValue'
  BY <1>1 DEF DelayInv, FilterKeepsValue
<1> QED
  BY <1>5, <1>6, <1>7, <1>8, <1>9, <1>10 DEF DelayInv

\* A phase counts samples.
LEMMA PhaseIsCounted ==
  ASSUME NEW d \in Nat \ {0}, NEW at \in 0..d - 1
  PROVE  (IF at = 0 THEN d - 1 ELSE at - 1) \in Nat
OBVIOUS

\* Lines that were cleared, and counts with them, whatever the decimator's phase.
LEMMA ClearedDelayInv ==
  ASSUME DelayConstants, NEW C \in Capacities,
         divisor' \in Divisors, phase' \in 0..divisor' - 1,
         delayLine' = Line(C), wowLine' = Line(WowCapacity), heldWet' = Silent, tape' = Silent,
         wanted' \in [DelayParam -> DelayValues], engine' \in [DelayParam -> DelayValues],
         engine'["cutoff"] = wanted'["cutoff"],
         DOMAIN queued' \subseteq DelayParam \cup {"divisor"},
         \A p \in DOMAIN queued' : queued'[p] \in IF p = "divisor" THEN Divisors ELSE DelayValues,
         read' \in [delay : Delays, age : {0}], NEW calls \in 0..MaxCalls,
         since' = [ticks |-> 0, filled |-> 0, samples |-> 0, calls |-> calls]
  PROVE  DelayInv'
<1>1. /\ C \in Nat \ {0} /\ WowCapacity \in Nat \ {0} /\ TraceConstants /\ Settled \in Nat \ {0}
      /\ WowSettled \in Nat \ {0} /\ Greatest(Divisors) \in Nat /\ MaxCalls \in Nat
  BY DelayFacts
<1>2. IsLine(delayLine', C) /\ IsLine(wowLine', WowCapacity)
  BY <1>1, LineType
<1>3. Slots' = C
  <2>1. CapacityOf(delayLine') = C
    BY <1>1, <1>2, CapacityIsSlots
  <2> QED
    BY <2>1 DEF Slots
<1>4. Silent \in Traces
  BY <1>1 DEF Silent, Traces, Ages, Unclear, TraceConstants
<1>5. DelayShapes'
  BY <1>1, <1>2, <1>3, <1>4 DEF DelayShapes
<1>6. read'.age = 0 /\ since'.ticks = 0 /\ since'.filled = 0 /\ since'.samples = 0
  OBVIOUS
<1>7. SinceTick' \in Nat
  <2>1. divisor' \in Nat \ {0}
    BY DelayFacts
  <2>2. SinceTick' = IF phase' = 0 THEN divisor' - 1 ELSE phase' - 1
    BY DEF SinceTick
  <2>3. (IF phase' = 0 THEN divisor' - 1 ELSE phase' - 1) \in Nat
    BY <2>1, PhaseIsCounted, Zenon
  <2> QED
    BY <2>2, <2>3, Zenon
<1>8. LineIsSpaced'
  BY <1>6, <1>7 DEF LineIsSpaced
<1>9. DelayIsHonoured' /\ RateChangeKeepsEcho' /\ TapeHearsCurrent'
  BY <1>1, <1>6 DEF DelayIsHonoured, RateChangeKeepsEcho, TapeHearsCurrent
<1>10. Clear(delayLine', Slots', since'.filled) /\ Recent(wowLine', WowCapacity, since'.samples)
  BY <1>1, <1>3, <1>6 DEF Clear, Recent, Spaced
<1>11. FilterKeepsValue'
  <2>1. engine'.cutoff = engine'["cutoff"] /\ wanted'.cutoff = wanted'["cutoff"]
    OBVIOUS
  <2> QED
    BY <2>1 DEF FilterKeepsValue
<1> QED
  BY <1>5, <1>8, <1>9, <1>10, <1>11 DEF DelayInv

\* What the two clearing calls leave alone is as it was.
LEMMA KeptInv ==
  ASSUME DelayConstants, DelayInv, UNCHANGED <<divisor, phase, wanted, queued>>, MayCall, CountsCleared,
         read' = [read EXCEPT !.age = 0]
  PROVE  /\ divisor' \in Divisors /\ phase' \in 0..divisor' - 1 /\ wanted' \in [DelayParam -> DelayValues]
         /\ DOMAIN queued' \subseteq DelayParam \cup {"divisor"}
         /\ \A p \in DOMAIN queued' : queued'[p] \in IF p = "divisor" THEN Divisors ELSE DelayValues
         /\ read' \in [delay : Delays, age : {0}] /\ since.calls + 1 \in 0..MaxCalls
         /\ since' = [ticks |-> 0, filled |-> 0, samples |-> 0, calls |-> since.calls + 1]
<1>1. MaxCalls \in Nat
  BY DelayFacts
<1> QED
  BY <1>1 DEF DelayInv, DelayShapes, MayCall, CountsCleared

\* prepare(): new lines, the defaults seeded, the filter given its value.
LEMMA PrepareDelayInv ==
  ASSUME DelayConstants, DelayInv, PrepareDelay
  PROVE  DelayInv'
<1>1. PICK C \in Capacities : delayLine' = Line(C)
  BY DEF PrepareDelay
<1>2. /\ wowLine' = Line(WowCapacity) /\ heldWet' = Silent /\ tape' = Silent
      /\ engine' = Reprepared(wanted) /\ read' = [read EXCEPT !.age = 0]
      /\ UNCHANGED <<divisor, phase, wanted, queued>> /\ MayCall /\ CountsCleared
  BY DEF PrepareDelay
<1>3. /\ divisor' \in Divisors /\ phase' \in 0..divisor' - 1 /\ wanted' \in [DelayParam -> DelayValues]
      /\ DOMAIN queued' \subseteq DelayParam \cup {"divisor"}
      /\ \A p \in DOMAIN queued' : queued'[p] \in IF p = "divisor" THEN Divisors ELSE DelayValues
      /\ read' \in [delay : Delays, age : {0}] /\ since.calls + 1 \in 0..MaxCalls
      /\ since' = [ticks |-> 0, filled |-> 0, samples |-> 0, calls |-> since.calls + 1]
  BY <1>2, KeptInv
<1>4. engine' \in [DelayParam -> DelayValues] /\ engine'["cutoff"] = wanted'["cutoff"]
  <2>1. wanted["cutoff"] \in DelayValues /\ wanted' = wanted
    BY <1>2, <1>3 DEF DelayParam
  <2>2. DelayDefaults \in [DelayParam -> DelayValues] /\ "cutoff" \in DelayParam
    BY DEF DelayDefaults, DelayParam, DelayValues
  <2>3. engine' = [DelayDefaults EXCEPT !["cutoff"] = wanted["cutoff"]]
    BY <1>2 DEF Reprepared
  <2> QED
    BY <2>1, <2>2, <2>3
<1> QED
  BY <1>1, <1>2, <1>3, <1>4, ClearedDelayInv

\* reset(): the lines cleared as they are.
LEMMA ResetDelayInv ==
  ASSUME DelayConstants, DelayInv, ResetDelay
  PROVE  DelayInv'
<1>1. Slots \in Capacities /\ delayLine' = Line(Slots)
  BY DEF ResetDelay, DelayInv, DelayShapes, Slots
<1>2. /\ wowLine' = Line(WowCapacity) /\ heldWet' = Silent /\ tape' = Silent
      /\ engine' = [engine EXCEPT !.cutoff = wanted.cutoff] /\ read' = [read EXCEPT !.age = 0]
      /\ UNCHANGED <<divisor, phase, wanted, queued>> /\ MayCall /\ CountsCleared
  BY DEF ResetDelay
<1>3. /\ divisor' \in Divisors /\ phase' \in 0..divisor' - 1 /\ wanted' \in [DelayParam -> DelayValues]
      /\ DOMAIN queued' \subseteq DelayParam \cup {"divisor"}
      /\ \A p \in DOMAIN queued' : queued'[p] \in IF p = "divisor" THEN Divisors ELSE DelayValues
      /\ read' \in [delay : Delays, age : {0}] /\ since.calls + 1 \in 0..MaxCalls
      /\ since' = [ticks |-> 0, filled |-> 0, samples |-> 0, calls |-> since.calls + 1]
  BY <1>2, KeptInv
<1>4. engine' \in [DelayParam -> DelayValues] /\ engine'["cutoff"] = wanted'["cutoff"]
  <2>1. wanted["cutoff"] \in DelayValues /\ wanted' = wanted /\ "cutoff" \in DelayParam
    BY <1>2, <1>3 DEF DelayParam
  <2>2. engine \in [DelayParam -> DelayValues]
    BY DEF DelayInv, DelayShapes
  <2> QED
    BY <1>2, <2>1, <2>2
<1> QED
  BY <1>1, <1>2, <1>3, <1>4, ClearedDelayInv

\* The state before the first call.
LEMMA InitDelay ==
  ASSUME DelayConstants, DelayInit
  PROVE  DelayInv
<1>1. PICK C \in Capacities : delayLine = Line(C)
  BY DEF DelayInit
<1>2. /\ C \in Nat \ {0} /\ WowCapacity \in Nat \ {0} /\ TraceConstants /\ Settled \in Nat \ {0}
      /\ WowSettled \in Nat \ {0} /\ Greatest(Divisors) \in Nat \ {0} /\ MaxCalls \in Nat /\ 1 \in Divisors
      /\ Delays # {}
  BY DelayFacts
<1>3. IsLine(delayLine, C) /\ IsLine(wowLine, WowCapacity)
  BY <1>1, <1>2, LineType DEF DelayInit
<1>4. Slots = C
  BY <1>2, <1>3, CapacityIsSlots DEF Slots
<1>5. Silent \in Traces
  BY <1>2 DEF Silent, Traces, Ages, Unclear, TraceConstants
<1>6. /\ divisor = 1 /\ phase = 0 /\ heldWet = Silent /\ tape = Silent /\ queued = <<>>
      /\ since = [ticks |-> 0, filled |-> 0, samples |-> 0, calls |-> 0]
      /\ read = [delay |-> CHOOSE d \in Delays : TRUE, age |-> 0]
      /\ wanted = DelayDefaults /\ engine = DelayDefaults
  BY DEF DelayInit
<1>7. (CHOOSE d \in Delays : TRUE) \in Delays
  BY <1>2
<1>8. read \in [delay : Delays, age : {0}] /\ read.age = 0
  BY <1>6, <1>7
<1>9. wanted \in [DelayParam -> DelayValues] /\ engine \in [DelayParam -> DelayValues]
  BY <1>6 DEF DelayDefaults, DelayParam, DelayValues
<1>10. DOMAIN queued = {}
  BY <1>6
<1>11. /\ since \in [ticks : 0..Settled, filled : 0..Settled, samples : 0..WowSettled, calls : 0..MaxCalls]
       /\ since.ticks = 0 /\ since.filled = 0 /\ since.samples = 0
  BY <1>2, <1>6
<1>12. DelayShapes
  BY <1>2, <1>3, <1>4, <1>5, <1>6, <1>8, <1>9, <1>10, <1>11 DEF DelayShapes
<1>13. LineIsSpaced
  BY <1>6, <1>8, <1>11 DEF LineIsSpaced, SinceTick
<1>14. DelayIsHonoured /\ RateChangeKeepsEcho /\ TapeHearsCurrent
  BY <1>2, <1>11 DEF DelayIsHonoured, RateChangeKeepsEcho, TapeHearsCurrent
<1>15. Clear(delayLine, Slots, since.filled) /\ Recent(wowLine, WowCapacity, since.samples)
  <2>1. since.filled = 0 /\ since.samples = 0
    BY <1>11
  <2>2. \A k \in 0..Slots - 1 : ~(k < 0)
    BY <1>2, <1>4
  <2>3. \A k \in 0..WowCapacity - 1 : ~(k < 0)
    BY <1>2
  <2> QED
    BY <2>1, <2>2, <2>3, Zenon DEF Clear, Recent, Spaced
<1>16. FilterKeepsValue
  BY <1>6 DEF FilterKeepsValue
<1> QED
  BY <1>12, <1>13, <1>14, <1>15, <1>16 DEF DelayInv

\* Every step keeps the invariant.
LEMMA NextDelay ==
  ASSUME DelayConstants, DelayInv, [DelayNext]_delayVars
  PROVE  DelayInv'
<1>1. CASE SetDelayParameter
  BY <1>1, SetDelayParameterInv
<1>2. CASE PrepareDelay
  BY <1>2, PrepareDelayInv
<1>3. CASE ResetDelay
  BY <1>3, ResetDelayInv
<1>4. CASE \E delay \in Delays, displacement \in -2 * WowRange..2 * WowRange : ProcessDelay(delay, displacement)
  <2>1. PICK delay \in Delays, displacement \in -2 * WowRange..2 * WowRange : ProcessDelay(delay, displacement)
    BY <1>4
  <2>2. DelayShapes' /\ FilterKeepsValue' /\ LineIsSpaced' /\ DelayIsHonoured'
    BY <2>1, ProcessShapes, ProcessSpaced, ProcessHonours
  <2>3. Clear(delayLine', Slots', since'.filled) /\ RateChangeKeepsEcho'
    BY <2>1, ProcessEchoes, ProcessLine
  <2>4. Recent(wowLine', WowCapacity, since'.samples) /\ TapeHearsCurrent'
    BY <2>1, ProcessTapeLine
  <2> QED
    BY <2>2, <2>3, <2>4 DEF DelayInv
<1>5. CASE UNCHANGED delayVars
  <2>1. Slots' = Slots /\ SinceTick' = SinceTick
    BY <1>5 DEF delayVars, Slots, SinceTick
  <2>2. DelayShapes'
    BY <1>5, <2>1 DEF delayVars, DelayInv, DelayShapes
  <2>3. LineIsSpaced'
    BY <1>5, <2>1 DEF delayVars, DelayInv, LineIsSpaced
  <2>4. DelayIsHonoured' /\ RateChangeKeepsEcho' /\ TapeHearsCurrent' /\ FilterKeepsValue'
    BY <1>5 DEF delayVars, DelayInv, DelayIsHonoured, RateChangeKeepsEcho, TapeHearsCurrent, FilterKeepsValue
  <2>5. Clear(delayLine, Slots, since.filled)' /\ Recent(wowLine, WowCapacity, since.samples)'
    BY <1>5, <2>1 DEF delayVars, DelayInv
  <2> QED
    BY <2>2, <2>3, <2>4, <2>5 DEF DelayInv
<1> QED
  BY <1>1, <1>2, <1>3, <1>4, <1>5 DEF DelayNext

\* The inductive invariant holds in every reachable state.
THEOREM DelayInductive ==
  ASSUME DelayConstants
  PROVE  DelaySpec => []DelayInv
<1>1. DelayInit => DelayInv
  BY InitDelay
<1>2. DelayInv /\ [DelayNext]_delayVars => DelayInv'
  BY NextDelay
<1> QED
  BY <1>1, <1>2, PTL DEF DelaySpec

\* The types, and that a hold lasts one internal sample at the most.
LEMMA DelayShows ==
  ASSUME DelayConstants, DelayInv
  PROVE  DelayTypeOK /\ HeldIsFresh
<1>1. /\ delayLine.writePos \in 0..Slots - 1 /\ DOMAIN delayLine.slots = 0..Slots - 1
      /\ wowLine.writePos \in 0..WowCapacity - 1
  BY DEF DelayInv, DelayShapes, IsLine
<1>2. DelayTypeOK
  BY <1>1 DEF DelayTypeOK, DelayInv, DelayShapes, Slots
<1>3. divisor \in Nat \ {0} /\ phase \in 0..divisor - 1 /\ read.age <= SinceTick /\ read.age \in Nat
  BY DelayFacts DEF DelayInv, DelayShapes, LineIsSpaced
<1>4. HeldIsFresh
  BY <1>3 DEF HeldIsFresh, SinceTick
<1> QED
  BY <1>2, <1>4

\* The modulated delay's variables keep their types.
THEOREM DelayTypes ==
  ASSUME DelayConstants
  PROVE  DelaySpec => []DelayTypeOK
<1>1. DelayInv => DelayTypeOK
  BY DelayShows
<1> QED
  BY <1>1, DelayInductive, PTL

\* Once the main line was filled at one rate, the echo is as late as asked for:
\* for every capacity, every divisor and every delay, one beyond the line
\* included, and at every sample of a hold (ModulatedDelayCore::process()).
THEOREM DelaysAreHonoured ==
  ASSUME DelayConstants
  PROVE  DelaySpec => []DelayIsHonoured
<1>1. DelayInv => DelayIsHonoured
  BY DEF DelayInv
<1> QED
  BY <1>1, DelayInductive, PTL

\* A wet value is never held beyond one internal sample: a change of rate, a
\* reset or a prepare in the middle of a hold included.
THEOREM HoldsAreFresh ==
  ASSUME DelayConstants
  PROVE  DelaySpec => []HeldIsFresh
<1>1. DelayInv => HeldIsFresh
  BY DelayShows
<1> QED
  BY <1>1, DelayInductive, PTL

\* No sequence of rates silences a line that was filled: every slot of it stays
\* of an input, and so does whatever is read between two of them.
THEOREM EchoesOutlastTheRate ==
  ASSUME DelayConstants
  PROVE  DelaySpec => []RateChangeKeepsEcho
<1>1. DelayInv => RateChangeKeepsEcho
  BY DEF DelayInv
<1> QED
  BY <1>1, DelayInductive, PTL

\* Raising the wow depth in mid-stream finds the tape line written all along:
\* what is read of it is no older than the two LFOs may ask for.
THEOREM TapeIsCurrent ==
  ASSUME DelayConstants
  PROVE  DelaySpec => []TapeHearsCurrent
<1>1. DelayInv => TapeHearsCurrent
  BY DEF DelayInv
<1> QED
  BY <1>1, DelayInductive, PTL

\* The filter acts with the value last applied to it, through every prepare()
\* and reset().
THEOREM FiltersKeepTheirValue ==
  ASSUME DelayConstants
  PROVE  DelaySpec => []FilterKeepsValue
<1>1. DelayInv => FilterKeepsValue
  BY DEF DelayInv
<1> QED
  BY <1>1, DelayInductive, PTL

-----------------------------------------------------------------------------
(* The saturation core                                                     *)

\* What the assumption says of the constants.
LEMMA SaturationFacts ==
  ASSUME SaturationConstants
  PROVE  /\ CascadeConstants /\ TraceConstants /\ Stages \in Nat /\ Stages \in Nat \ {0}
         /\ CascadeOf(Stages) /\ DryCapacity \in Nat \ {0}
         /\ DryCapacity * Ticks > GroupDelay(FactorOf(Stages)) + Ticks
         /\ SettlingTime \in Nat \ {0} /\ SettlingTime - 1 = Span(FactorOf(Stages)) \div Ticks
         /\ (SettlingTime - 1) * Ticks + Ticks <= Horizon
         /\ GroupDelay(FactorOf(Stages)) \in Nat /\ Silent \in Traces /\ Input \in Traces
         /\ Input.centre = 0 /\ Input.reach = 0 /\ Silent.reach = Unclear
         /\ SettlingTime > 1
<1>1. CascadeConstants /\ TraceConstants /\ Stages \in 1..3 /\ Ticks \in Nat \ {0} /\ Horizon \in Nat
  BY DEF SaturationConstants, CascadeConstants, TraceConstants
<1>2. CascadeOf(Stages)
  BY <1>1 DEF SaturationConstants, CascadeOf
<1>3. /\ GroupDelay(FactorOf(Stages)) \in Nat /\ Span(FactorOf(Stages)) \in Nat
      /\ Span(FactorOf(Stages)) \div Ticks \in Nat /\ Span(FactorOf(Stages)) \div Ticks >= 1
      /\ (Span(FactorOf(Stages)) \div Ticks) * Ticks <= Span(FactorOf(Stages))
  <2>1. GroupDelay(FactorOf(Stages)) \div Ticks \in Nat
    BY <1>1, <1>2, DelayInTicks
  <2> QED BY <1>1, <1>2, <2>1, DelayInTicks
<1>4. SettlingTime \in Nat \ {0} /\ SettlingTime > 1 /\ SettlingTime - 1 = Span(FactorOf(Stages)) \div Ticks
  BY <1>3 DEF SettlingTime
<1>5. DryCapacity \in Nat /\ DryCapacity * Ticks > GroupDelay(FactorOf(Stages)) + 2 * Ticks
  BY DEF SaturationConstants
<1>6. DryCapacity \in Nat \ {0} /\ DryCapacity * Ticks > GroupDelay(FactorOf(Stages)) + Ticks
  BY <1>1, <1>3, <1>5
<1>7. (SettlingTime - 1) * Ticks + Ticks <= Horizon
  <2>1. Horizon >= Span(FactorOf(Stages)) + Ticks
    BY <1>2 DEF CascadeOf
  <2>2. (SettlingTime - 1) * Ticks <= Span(FactorOf(Stages)) /\ (SettlingTime - 1) * Ticks \in Nat
    BY <1>1, <1>3, <1>4
  <2> QED BY <1>1, <1>3, <2>1, <2>2
<1>8. Silent \in Traces /\ Input \in Traces /\ Input.centre = 0 /\ Input.reach = 0
      /\ Silent.reach = Unclear
  BY <1>1, InputType DEF Silent, Input, Traces, Ages, Unclear, TraceConstants
<1> QED BY <1>1, <1>2, <1>3, <1>4, <1>6, <1>7, <1>8

SaturationTypes ==
  /\ quality \in Tier /\ voicing \in Voicing /\ antiderivative \in Voicing
  /\ oversampler \in Cascades(Stages) /\ IsLine(dryMixRing, DryCapacity)
  /\ wet \in Traces /\ dry \in Traces /\ uPrev \in Traces
  /\ satRun \in 0..SettlingTime /\ satFresh \in BOOLEAN /\ satEdits \in 0..MaxSaturationEdits

\* The memories heard every sample since the run began.
SaturationHeard ==
  /\ quality = "adaa" /\ satRun > 0 => uPrev = Input
  /\ quality = "oversampled" => Tracks(oversampler, Stages, satRun)
  /\ Recent(dryMixRing, DryCapacity, satRun)

\* Nothing in them is from before a reset.
SaturationReach ==
  satFresh /\ satRun < SettlingTime =>
    /\ Remembers(oversampler, Stages, HeardBack(satRun))
    /\ Within(dryMixRing.slots, DryCapacity, HeardBack(satRun))
    /\ wet.reach <= HeardBack(satRun) /\ dry.reach <= HeardBack(satRun)
    /\ uPrev.reach <= HeardBack(satRun)

SaturationInv ==
  SaturationTypes /\ SaturationHeard /\ DryWetOffsetIsKnown /\ SaturationReach /\ OneAntiderivative

\* Where every memory was just cleared.
LEMMA SaturationCleared ==
  ASSUME SaturationConstants
  PROVE  /\ ClearedStages(Stages) \in Cascades(Stages) /\ IsLine(Line(DryCapacity), DryCapacity)
         /\ \A os : Tracks(os, Stages, 0)
         /\ \A line : Recent(line, DryCapacity, 0)
         /\ HeardBack(0) = Unclear /\ 0 # SettlingTime /\ 0 \in 0..SettlingTime
         /\ Remembers(ClearedStages(Stages), Stages, Unclear)
         /\ Within(Line(DryCapacity).slots, DryCapacity, Unclear)
         /\ Silent \in Traces /\ Silent.reach <= Unclear
<1>1. SettlingTime \in Nat \ {0} /\ Silent.reach = Unclear /\ Silent \in Traces
  BY SaturationFacts
<1>2. HeardBack(0) = Unclear /\ 0 # SettlingTime /\ 0 \in 0..SettlingTime /\ Silent.reach <= Unclear
  BY <1>1 DEF HeardBack, Unclear
<1>3. ClearedStages(Stages) \in Cascades(Stages) /\ Remembers(ClearedStages(Stages), Stages, Unclear)
  BY SaturationFacts, ClearedCascade
<1>4. /\ IsLine(Line(DryCapacity), DryCapacity) /\ Within(Line(DryCapacity).slots, DryCapacity, Unclear)
      /\ \A line : Recent(line, DryCapacity, 0)
  BY SaturationFacts, ClearedRing
<1>5. \A os : Tracks(os, Stages, 0)
  BY SaturationFacts, NothingHeard
<1> QED BY <1>1, <1>2, <1>3, <1>4, <1>5

\* The core begins as it is after a reset.
LEMMA SaturationStarts ==
  ASSUME SaturationConstants, SaturationInit
  PROVE  SaturationInv
<1>1. voicing \in Voicing
  BY DEF SaturationInit, SaturationConstants
<1>2. SaturationTypes
  BY <1>1, SaturationCleared DEF SaturationInit, SaturationTypes, Tier, SaturationConstants
<1>3. SaturationHeard /\ DryWetOffsetIsKnown /\ OneAntiderivative
  BY SaturationCleared DEF SaturationInit, SaturationHeard, DryWetOffsetIsKnown, OneAntiderivative
<1>4. SaturationReach
  BY SaturationCleared DEF SaturationInit, SaturationReach
<1> QED BY <1>2, <1>3, <1>4 DEF SaturationInv

\* reset() and prepare() clear every memory.
LEMMA ResetSaturationInv ==
  ASSUME SaturationConstants, SaturationInv, ResetSaturation
  PROVE  SaturationInv'
<1>1. SaturationTypes'
  BY SaturationCleared
     DEF SaturationInv, SaturationTypes, ResetSaturation, SaturationEdit, SaturationConstants
<1>2. SaturationHeard' /\ DryWetOffsetIsKnown' /\ OneAntiderivative'
  BY SaturationCleared DEF ResetSaturation, SaturationHeard, DryWetOffsetIsKnown, OneAntiderivative
<1>3. SaturationReach'
  BY SaturationCleared DEF ResetSaturation, SaturationReach
<1> QED BY <1>1, <1>2, <1>3 DEF SaturationInv

\* A voicing changes the shape and, with it, the antiderivative.
LEMMA SetVoicingInv ==
  ASSUME SaturationConstants, SaturationInv, NEW v \in Voicing, SetVoicing(v)
  PROVE  SaturationInv'
<1>1. SaturationTypes'
  BY DEF SaturationInv, SaturationTypes, SetVoicing, SaturationEdit, SaturationConstants
<1>2. SaturationHeard' /\ DryWetOffsetIsKnown' /\ SaturationReach'
  BY DEF SaturationInv, SaturationHeard, DryWetOffsetIsKnown, SaturationReach, SetVoicing
<1>3. OneAntiderivative'
  BY DEF OneAntiderivative, SetVoicing
<1> QED BY <1>1, <1>2, <1>3 DEF SaturationInv

\* A change of tier starts the count over; the same tier again changes nothing.
LEMMA SetQualityInv ==
  ASSUME SaturationConstants, SaturationInv, NEW q \in Tier, SetQuality(q)
  PROVE  SaturationInv'
<1>1. CASE q = quality
  <2>1. SaturationTypes'
    BY <1>1 DEF SaturationInv, SaturationTypes, SetQuality, SaturationEdit, SaturationConstants
  <2>2. SaturationHeard' /\ DryWetOffsetIsKnown' /\ SaturationReach' /\ OneAntiderivative'
    BY <1>1 DEF SaturationInv, SaturationTypes, SaturationHeard, DryWetOffsetIsKnown, SaturationReach,
                OneAntiderivative, SetQuality
  <2> QED BY <2>1, <2>2 DEF SaturationInv
<1>2. CASE q # quality
  <2>1. SaturationTypes'
    BY <1>2, SaturationCleared
       DEF SaturationInv, SaturationTypes, SetQuality, SaturationEdit, SaturationConstants
  <2>2. satRun' = 0 /\ ~satFresh' /\ UNCHANGED <<oversampler, dryMixRing, voicing, antiderivative>>
    BY <1>2 DEF SetQuality
  <2>3. SaturationHeard'
    BY <2>2, SaturationCleared DEF SaturationHeard
  <2>4. DryWetOffsetIsKnown' /\ SaturationReach'
    BY <2>2, SaturationCleared DEF DryWetOffsetIsKnown, SaturationReach
  <2>5. OneAntiderivative'
    BY <2>2 DEF SaturationInv, OneAntiderivative
  <2> QED BY <2>1, <2>3, <2>4, <2>5 DEF SaturationInv
<1> QED BY <1>1, <1>2

\* What the adaa shaper gives for a sample: half a sample late once it has heard
\* the one before, and of nothing older than its memory.
LEMMA AdaaSample ==
  ASSUME SaturationConstants, uPrev \in Traces
  PROVE  LET y == AdaaShaped(Input) IN
         /\ y \in Traces
         /\ uPrev = Input => y.centre = Ticks \div 2
         /\ \A r \in Nat : uPrev.reach <= HeardBack(r) => y.reach <= HeardBack(r + 1)
<1> DEFINE half == Ticks \div 2
           y == AdaaShaped(Input)
<1>1. /\ TraceConstants /\ Ticks \in Nat \ {0} /\ Horizon \in Nat /\ Ticks <= Horizon
      /\ Input \in Traces /\ Aged(uPrev) \in Traces
  <2>1. (SettlingTime - 1) * Ticks \in Nat /\ (SettlingTime - 1) * Ticks + Ticks <= Horizon
    BY SaturationFacts DEF TraceConstants
  <2> QED BY <2>1, SaturationFacts, AgedType DEF TraceConstants
<1>2. half \in 0..Ticks - 1
  <2>1. Ticks \in Nat /\ Ticks >= 1
    BY <1>1
  <2>2. \A n \in Nat : n >= 1 => n \div 2 \in 0..n - 1
    OBVIOUS
  <2> QED BY <2>1, <2>2
<1>3. y = Between(Input, Aged(uPrev), half)
  BY DEF AdaaShaped
<1> HIDE DEF half, y
<1>4. y \in Traces
  BY <1>1, <1>2, <1>3, BetweenType
<1>5. uPrev = Input => y.centre = half
  <2> SUFFICES ASSUME uPrev = Input PROVE y.centre = half
    OBVIOUS
  <2>1. Aged(uPrev) = [centre |-> 0 + 1 * Ticks, reach |-> 0 + 1 * Ticks]
    BY <1>1 DEF Aged, Later, Input, Unclear
  <2>2. Input = [centre |-> 0, reach |-> 0]
    BY DEF Input
  <2>3. Between([centre |-> 0, reach |-> 0], Aged(uPrev), half).centre = 0 + 1 * half
    BY <1>1, <1>2, <2>1, BetweenNeighbours
  <2> QED BY <1>2, <1>3, <2>2, <2>3
<1>6. ASSUME NEW r \in Nat, uPrev.reach <= HeardBack(r) PROVE y.reach <= HeardBack(r + 1)
  <2>1. /\ HeardBack(r) \in Int /\ HeardBack(r) >= Unclear /\ HeardBack(r + 1) \in Nat
        /\ LaterReach(HeardBack(r)) = HeardBack(r + 1)
    BY <1>1, HeardBackLater
  <2>2. uPrev.reach \in Ages /\ Aged(uPrev).reach = Later(uPrev.reach)
    BY DEF Traces, Aged
  <2>3. Later(uPrev.reach) <= LaterReach(HeardBack(r)) /\ Later(uPrev.reach) \in Int
    BY <1>1, <1>6, <2>1, <2>2 DEF Later, LaterReach, Ages, Unclear
  <2>4. Input.reach = 0
    BY DEF Input
  <2>5. y.reach \in {Input.reach, Aged(uPrev).reach}
    BY <1>3 DEF Between, Sum2
  <2> QED BY <2>1, <2>2, <2>3, <2>4, <2>5
<1> QED BY <1>4, <1>5, <1>6 DEF y, half

\* What the selected tier gives for a sample.
LEMMA ShapedSample ==
  ASSUME SaturationConstants, SaturationInv
  PROVE  LET shaped == Shaped(quality) IN
         /\ shaped.os \in Cascades(Stages) /\ shaped.out[1] \in Traces
         /\ quality = "oversampled" => Tracks(shaped.os, Stages, satRun + 1)
         /\ satRun >= SettlingTime - 1 => shaped.out[1].centre = DryDelay(quality) + Apart(quality)
         /\ Remembers(oversampler, Stages, HeardBack(satRun)) /\ uPrev.reach <= HeardBack(satRun) =>
              /\ Remembers(shaped.os, Stages, HeardBack(satRun + 1))
              /\ shaped.out[1].reach <= HeardBack(satRun + 1)
<1> DEFINE aged == OversamplerAged(oversampler)
           y == Oversampled(aged, Input)
           L == HeardBack(satRun + 1)
<1>1. satRun \in Nat /\ oversampler \in Cascades(Stages) /\ quality \in Tier /\ uPrev \in Traces
  BY SaturationFacts DEF SaturationInv, SaturationTypes
<1>2. L \in Nat
  BY <1>1, SaturationFacts, HeardBackLater
<1>3. CASE quality = "oversampled"
  <2>1. Shaped(quality) = y /\ DryDelay(quality) + Apart(quality) = GroupDelay(FactorOf(Stages))
    BY <1>3, SaturationFacts DEF Shaped, DryDelay, Apart
  <2>2. Tracks(oversampler, Stages, satRun)
    BY <1>3 DEF SaturationInv, SaturationHeard
  <2>3. /\ y.os \in Cascades(Stages) /\ y.out[1] \in Traces /\ Tracks(y.os, Stages, satRun + 1)
        /\ satRun >= Span(FactorOf(Stages)) \div Ticks => y.out[1].centre = GroupDelay(FactorOf(Stages))
    BY <1>1, <2>2, SaturationFacts, CascadeSample
  <2>4. Remembers(oversampler, Stages, HeardBack(satRun)) =>
          Remembers(y.os, Stages, L) /\ Reaches(y.out, L)
    BY <1>1, SaturationFacts, CascadeSampleRemembers
  <2>5. Len(y.out) = 1
    BY <1>1, <2>2, SaturationFacts, CascadeSample
  <2> HIDE DEF y, L
  <2>6. Reaches(y.out, L) => y.out[1].reach <= L
    BY <2>5 DEF Reaches
  <2>7. SettlingTime - 1 = Span(FactorOf(Stages)) \div Ticks
    BY SaturationFacts
  <2> QED BY <2>1, <2>3, <2>4, <2>6, <2>7 DEF L
<1>4. /\ aged \in Cascades(Stages)
      /\ Remembers(oversampler, Stages, HeardBack(satRun)) => Remembers(aged, Stages, L)
  BY <1>1, SaturationFacts, CascadeAgesForm, CascadeSampleRemembers
<1>5. CASE quality = "naive"
  <2>1. Shaped(quality) = [os |-> aged, out |-> <<Input>>] /\ DryDelay(quality) + Apart(quality) = 0
    BY <1>5 DEF Shaped, DryDelay, Apart
  <2>2. Input \in Traces /\ Input.centre = 0 /\ Input.reach <= L
    BY <1>2, SaturationFacts
  <2> HIDE DEF aged, L
  <2> QED BY <1>4, <1>5, <2>1, <2>2 DEF L
<1>6. CASE quality = "adaa"
  <2> DEFINE z == AdaaShaped(Input)
  <2>1. Shaped(quality) = [os |-> aged, out |-> <<z>>]
    BY <1>6 DEF Shaped
  <2>2. DryDelay(quality) + Apart(quality) = Ticks \div 2
    BY <1>6, SaturationFacts DEF DryDelay, Apart, TraceConstants
  <2>3. /\ z \in Traces /\ (uPrev = Input => z.centre = Ticks \div 2)
        /\ uPrev.reach <= HeardBack(satRun) => z.reach <= L
    BY <1>1, AdaaSample
  <2>4. satRun >= SettlingTime - 1 => uPrev = Input
    BY <1>1, <1>6, SaturationFacts DEF SaturationInv, SaturationHeard
  <2> HIDE DEF aged, L, z
  <2> QED BY <1>4, <1>6, <2>1, <2>2, <2>3, <2>4 DEF L
<1> QED BY <1>1, <1>3, <1>5, <1>6 DEF Tier

\* A sample through the selected tier and the dry ring.
LEMMA ProcessSaturationInv ==
  ASSUME SaturationConstants, SaturationInv, ProcessSaturation
  PROVE  SaturationInv'
<1> DEFINE shaped == Shaped(quality)
           ring   == Write(LineAged(dryMixRing), Input)
           delay  == DryDelay(quality)
           n      == satRun + 1
           L      == HeardBack(n)
<1>1. /\ satRun \in Nat /\ satRun <= SettlingTime /\ SettlingTime \in Nat \ {0}
      /\ IsLine(dryMixRing, DryCapacity) /\ DryCapacity \in Nat \ {0} /\ TraceConstants
  BY SaturationFacts DEF SaturationInv, SaturationTypes
<1>2. /\ oversampler' = shaped.os /\ wet' = shaped.out[1] /\ dryMixRing' = ring
      /\ dry' = ReadFractional(ring, delay) /\ quality' = quality /\ satFresh' = satFresh
      /\ satRun' = IF satRun < SettlingTime THEN n ELSE satRun
      /\ uPrev' = IF quality = "adaa" THEN Input ELSE Aged(uPrev)
  BY DEF ProcessSaturation
<1>3. delay \in Nat
  BY SaturationFacts DEF DryDelay
<1>4. /\ shaped.os \in Cascades(Stages) /\ shaped.out[1] \in Traces
      /\ quality = "oversampled" => Tracks(shaped.os, Stages, n)
      /\ satRun >= SettlingTime - 1 => shaped.out[1].centre = delay + Apart(quality)
      /\ Remembers(oversampler, Stages, HeardBack(satRun)) /\ uPrev.reach <= HeardBack(satRun) =>
           Remembers(shaped.os, Stages, L) /\ shaped.out[1].reach <= L
  BY ShapedSample
<1>5. L \in Nat
  BY <1>1, HeardBackLater
<1> HIDE DEF shaped, L
<1>6. IsLine(ring, DryCapacity)
  <2>1. IsLine(LineAged(dryMixRing), DryCapacity) /\ Input \in Traces
    BY <1>1, LineAgedType, InputType
  <2> QED BY <1>1, <2>1, WriteType
\* Once settled, one sample fewer is as good.
<1>7. Recent(ring, DryCapacity, IF satRun < SettlingTime THEN n ELSE satRun)
  <2> DEFINE m == IF satRun < SettlingTime THEN satRun ELSE satRun - 1
  <2>1. m \in Nat /\ m <= satRun /\ m <= SettlingTime - 1 /\ SettlingTime - 1 \in Nat
    BY <1>1
  <2>2. m + 1 = IF satRun < SettlingTime THEN n ELSE satRun
    BY <1>1
  <2> HIDE DEF m
  <2>3. Recent(dryMixRing, DryCapacity, m)
    <3>1. Recent(dryMixRing, DryCapacity, satRun)
      BY DEF SaturationInv, SaturationHeard
    <3> QED BY <1>1, <2>1, <3>1, RecentLess
  <2>4. m * Ticks <= Horizon
    <3>1. Ticks \in Nat /\ Horizon \in Nat
      BY <1>1 DEF TraceConstants
    <3>2. m * Ticks <= (SettlingTime - 1) * Ticks /\ m * Ticks \in Nat
          /\ (SettlingTime - 1) * Ticks \in Nat
      BY <2>1, <3>1, ProductGrows
    <3>3. (SettlingTime - 1) * Ticks + Ticks <= Horizon
      BY SaturationFacts
    <3> QED BY <3>1, <3>2, <3>3
  <2>5. Recent(ring, DryCapacity, m + 1)
    BY <1>1, <2>1, <2>3, <2>4, RingSample
  <2> QED BY <2>2, <2>5
<1> HIDE DEF ring, delay
<1>8. SaturationTypes'
  <2>1. dry' \in Traces
    BY <1>1, <1>2, <1>3, <1>6, ReadIsTrace
  <2>2. satRun' \in 0..SettlingTime
    BY <1>1, <1>2
  <2>3. antiderivative' \in Voicing /\ voicing' = voicing /\ satEdits' = satEdits
    BY DEF SaturationInv, SaturationTypes, ProcessSaturation
  <2>4. uPrev' \in Traces
    BY <1>1, <1>2, AgedType, InputType DEF SaturationInv, SaturationTypes
  <2> QED BY <1>2, <1>4, <1>6, <2>1, <2>2, <2>3, <2>4 DEF SaturationInv, SaturationTypes
<1>9. SaturationHeard'
  <2>1. CASE satRun < SettlingTime
    BY <1>2, <1>4, <1>7, <2>1 DEF SaturationHeard
  <2>2. CASE ~(satRun < SettlingTime)
    <3>1. quality = "oversampled" => Tracks(shaped.os, Stages, satRun)
      BY <1>1, <1>4, SaturationFacts, TracksLess
    <3> QED BY <1>2, <1>7, <2>2, <3>1 DEF SaturationHeard
  <2> QED BY <2>1, <2>2
<1>10. DryWetOffsetIsKnown'
  <2> SUFFICES ASSUME satRun' = SettlingTime
               PROVE  dry'.centre # Unclear /\ wet'.centre = dry'.centre + Apart(quality)'
    BY DEF DryWetOffsetIsKnown
  <2>1. satRun >= SettlingTime - 1
    BY <1>1, <1>2
  <2>2. wet'.centre = delay + Apart(quality)
    BY <1>2, <1>4, <2>1
  <2>3. Recent(ring, DryCapacity, SettlingTime)
    BY <1>2, <1>7
  <2>4. ReadFractional(ring, delay).centre = delay
    <3>1. CASE quality = "oversampled"
      <4>1. SettlingTime >= Span(FactorOf(Stages)) \div Ticks + 1
        BY <1>1, SaturationFacts DEF SettlingTime
      <4>2. delay = GroupDelay(FactorOf(Stages))
        BY <3>1 DEF delay, DryDelay
      <4>3. Stages \in Nat /\ CascadeOf(Stages) /\ DryCapacity \in Nat
            /\ DryCapacity * Ticks > GroupDelay(FactorOf(Stages)) + Ticks /\ SettlingTime \in Nat
        BY SaturationFacts
      <4> QED BY <1>6, <2>3, <4>1, <4>2, <4>3, RingReads, Zenon
    <3>2. CASE quality # "oversampled"
      <4>1. delay = 0
        BY <3>2 DEF delay, DryDelay
      <4> QED BY <1>1, <1>6, <2>3, <4>1, RingReadsNow
    <3> QED BY <3>1, <3>2
  <2>5. Apart(quality)' = Apart(quality)
    BY <1>2 DEF Apart
  <2> QED BY <1>2, <1>3, <2>2, <2>4, <2>5 DEF Unclear
<1>11. SaturationReach'
  <2> SUFFICES ASSUME satFresh', satRun' < SettlingTime
               PROVE  /\ Remembers(oversampler', Stages, HeardBack(satRun'))
                      /\ Within(dryMixRing'.slots, DryCapacity, HeardBack(satRun'))
                      /\ wet'.reach <= HeardBack(satRun') /\ dry'.reach <= HeardBack(satRun')
                      /\ uPrev'.reach <= HeardBack(satRun')
    BY DEF SaturationReach
  <2>1. satRun < SettlingTime /\ satRun' = n
    BY <1>1, <1>2
  <2>2. /\ Remembers(oversampler, Stages, HeardBack(satRun))
        /\ Within(dryMixRing.slots, DryCapacity, HeardBack(satRun))
        /\ uPrev.reach <= HeardBack(satRun)
    BY <1>2, <2>1 DEF SaturationInv, SaturationReach
  <2>3. Within(ring.slots, DryCapacity, L)
    BY <1>1, <2>2, RingRemembers DEF ring, L
  <2>4. L \in Int
    BY <1>5
  <2>5. dry'.reach <= L
    BY <1>1, <1>2, <1>3, <1>6, <2>3, <2>4, ReadWithin
  <2>6. HeardBack(satRun') = L
    BY <2>1 DEF L
  <2>7. uPrev'.reach <= L
    <3>1. HeardBack(satRun) \in Int /\ HeardBack(satRun) >= Unclear /\ LaterReach(HeardBack(satRun)) = L
      BY <1>1, HeardBackLater DEF L
    <3>2. uPrev.reach \in Ages /\ Aged(uPrev).reach = Later(uPrev.reach)
      BY DEF SaturationInv, SaturationTypes, Traces, Aged
    <3>3. Later(uPrev.reach) <= L
      BY <1>1, <2>2, <3>1, <3>2 DEF Later, LaterReach, Ages, Unclear, TraceConstants
    <3> QED BY <1>2, <1>5, <3>2, <3>3, SaturationFacts
  <2> QED BY <1>2, <1>4, <2>2, <2>3, <2>5, <2>6, <2>7
<1>12. OneAntiderivative'
  BY DEF SaturationInv, OneAntiderivative, ProcessSaturation
<1> QED BY <1>8, <1>9, <1>10, <1>11, <1>12 DEF SaturationInv

\* Every step keeps the invariant.
LEMMA SaturationKept ==
  ASSUME SaturationConstants, SaturationInv, [SaturationNext]_saturationVars
  PROVE  SaturationInv'
<1>1. CASE ProcessSaturation
  BY <1>1, ProcessSaturationInv
<1>2. ASSUME NEW q \in Tier, SetQuality(q) PROVE SaturationInv'
  BY <1>2, SetQualityInv
<1>3. ASSUME NEW v \in Voicing, SetVoicing(v) PROVE SaturationInv'
  BY <1>3, SetVoicingInv
<1>4. CASE ResetSaturation
  BY <1>4, ResetSaturationInv
<1>5. CASE UNCHANGED saturationVars
  BY <1>5 DEF saturationVars, SaturationInv, SaturationTypes, SaturationHeard, DryWetOffsetIsKnown,
              SaturationReach, OneAntiderivative
<1> QED BY <1>1, <1>2, <1>3, <1>4, <1>5 DEF SaturationNext

\* The types, and the silence after a reset.
LEMMA SaturationShows ==
  ASSUME SaturationConstants, SaturationInv
  PROVE  SaturationTypeOK /\ ResetIsSilent
<1>1. SaturationTypeOK
  BY DEF SaturationInv, SaturationTypes, SaturationTypeOK, IsLine
<1>2. ResetIsSilent
  <2> SUFFICES ASSUME satFresh, satRun \in 1..SettlingTime - 1
               PROVE  wet.reach <= (satRun - 1) * Ticks /\ dry.reach <= (satRun - 1) * Ticks
    BY DEF ResetIsSilent
  <2>1. satRun < SettlingTime /\ satRun # 0 /\ HeardBack(satRun) = (satRun - 1) * Ticks
    BY SaturationFacts DEF HeardBack
  <2> QED BY <2>1 DEF SaturationInv, SaturationReach
<1> QED BY <1>1, <1>2

\* The memory of the selected tier and the dry ring heard the same samples: for
\* every centre tap, factor and capacity, and every order of resets, changes of
\* tier and voicing, and samples.
THEOREM SaturationInductive == ASSUME SaturationConstants PROVE SaturationSpec => []SaturationInv
<1>1. SaturationInit => SaturationInv
  BY SaturationStarts
<1>2. SaturationInv /\ [SaturationNext]_saturationVars => SaturationInv'
  BY SaturationKept
<1> QED BY <1>1, <1>2, PTL DEF SaturationSpec

-----------------------------------------------------------------------------
(* The tape dynamics effect                                                *)

\* What the assumption says of the constants.
LEMMA TapeFacts ==
  ASSUME TapeConstants, NEW k \in Core
  PROVE  /\ CascadeConstants /\ TraceConstants /\ k + 1 \in Nat /\ k + 1 \in Nat \ {0}
         /\ CascadeOf(k + 1) /\ TapeDryCapacity \in Nat \ {0}
         /\ TapeDryCapacity * Ticks > GroupDelay(Factor(k)) + Ticks
         /\ TapeSettlingTime(k) \in Nat \ {0}
         /\ TapeSettlingTime(k) - 1 = Span(Factor(k)) \div Ticks
         /\ (TapeSettlingTime(k) - 1) * Ticks + Ticks <= Horizon
         /\ GroupDelay(Factor(k)) \in Nat
<1>1. CascadeConstants /\ TraceConstants /\ Ticks \in Nat \ {0} /\ Horizon \in Nat
  BY DEF TapeConstants, CascadeConstants, TraceConstants
<1>2. k + 1 \in 1..3 /\ k + 1 \in Nat /\ k + 1 \in Nat \ {0}
  BY DEF Core
<1>3. CascadeOf(k + 1)
  BY <1>1, <1>2 DEF TapeConstants, CascadeOf, Factor
<1>4. /\ GroupDelay(Factor(k)) \in Nat /\ Span(Factor(k)) \in Nat
      /\ Span(Factor(k)) \div Ticks \in Nat
      /\ (Span(Factor(k)) \div Ticks) * Ticks <= Span(Factor(k))
  BY <1>2, <1>3, DelayInTicks DEF Factor
<1>5. TapeSettlingTime(k) \in Nat \ {0} /\ TapeSettlingTime(k) - 1 = Span(Factor(k)) \div Ticks
  BY <1>4 DEF TapeSettlingTime
<1>6. TapeDryCapacity \in Nat /\ TapeDryCapacity * Ticks > GroupDelay(Factor(k)) + Ticks
  BY DEF TapeConstants
<1>7. TapeDryCapacity \in Nat \ {0}
  BY <1>1, <1>4, <1>6
<1>8. (TapeSettlingTime(k) - 1) * Ticks + Ticks <= Horizon
  <2>1. Horizon >= Span(Factor(k)) + Ticks
    BY <1>3 DEF CascadeOf, Factor
  <2>2. (TapeSettlingTime(k) - 1) * Ticks <= Span(Factor(k))
        /\ (TapeSettlingTime(k) - 1) * Ticks \in Nat
    BY <1>1, <1>4, <1>5
  <2> QED BY <1>1, <1>4, <2>1, <2>2
<1> QED BY <1>1, <1>2, <1>3, <1>4, <1>5, <1>6, <1>7, <1>8

\* What a core of the effect is, at its factor.
DryRings == [slots : [0..TapeDryCapacity - 1 -> Traces], writePos : 0..TapeDryCapacity - 1]

TapeCoreOf(k) ==
  [applied : [Param -> TapeValues], oversampler : Cascades(k + 1), dryMixRing : DryRings,
   magnet : Magnet]

\* A dry ring is a line of the delay line's theorems.
LEMMA DryRingIsLine == \A ring : ring \in DryRings <=> IsLine(ring, TapeDryCapacity)
BY DEF DryRings, IsLine

\* Its lines heard the last r samples, and nothing from before its run.
CoreHeard(k, core, r) ==
  Tracks(core.oversampler, k + 1, r) /\ Recent(core.dryMixRing, TapeDryCapacity, r)

CoreReach(k, core, r) ==
  r < TapeSettlingTime(k) =>
    /\ Remembers(core.oversampler, k + 1, HeardBack(r))
    /\ Within(core.dryMixRing.slots, TapeDryCapacity, HeardBack(r))

\* Three fields of a core are replaced.
LEMMA TapeCoreEdited ==
  ASSUME NEW A, NEW B, NEW C, NEW M,
         NEW core \in [applied : A, oversampler : B, dryMixRing : C, magnet : M],
         NEW os \in B, NEW ring \in C, NEW magnet \in M
  PROVE  LET edited == [core EXCEPT !.oversampler = os, !.dryMixRing = ring, !.magnet = magnet]
         IN  /\ edited \in [applied : A, oversampler : B, dryMixRing : C, magnet : M]
             /\ edited.applied = core.applied /\ edited.oversampler = os
             /\ edited.dryMixRing = ring /\ edited.magnet = magnet
OBVIOUS

\* A core was just cleared.
LEMMA ClearedTapeCore ==
  ASSUME TapeConstants, NEW k \in Core, NEW core \in TapeCoreOf(k)
  PROVE  LET cleared == ResetTapeCore(k, core) IN
         /\ cleared \in TapeCoreOf(k) /\ cleared.applied = core.applied /\ cleared.magnet = "clear"
         /\ CoreHeard(k, cleared, 0) /\ CoreReach(k, cleared, 0)
<1> DEFINE os == ClearedStages(k + 1)
           ring == Line(TapeDryCapacity)
           cleared == ResetTapeCore(k, core)
<1>1. cleared = [core EXCEPT !.oversampler = os, !.dryMixRing = ring, !.magnet = "clear"]
  BY DEF ResetTapeCore
<1>2. os \in Cascades(k + 1) /\ Remembers(os, k + 1, Unclear)
  BY TapeFacts, ClearedCascade
<1>3. Tracks(os, k + 1, 0)
  BY TapeFacts, NothingHeard
<1>4. /\ IsLine(ring, TapeDryCapacity) /\ Within(ring.slots, TapeDryCapacity, Unclear)
      /\ Recent(ring, TapeDryCapacity, 0)
  BY TapeFacts, ClearedRing
<1>5. HeardBack(0) = Unclear
  BY DEF HeardBack
<1> HIDE DEF os, ring, cleared
<1>6. /\ cleared \in TapeCoreOf(k) /\ cleared.applied = core.applied /\ cleared.oversampler = os
      /\ cleared.dryMixRing = ring /\ cleared.magnet = "clear"
  <2>1. ring \in DryRings /\ "clear" \in Magnet
    BY <1>4, DryRingIsLine DEF Magnet
  <2> QED BY <1>1, <1>2, <2>1, TapeCoreEdited DEF TapeCoreOf
<1>7. CoreHeard(k, cleared, 0) /\ CoreReach(k, cleared, 0)
  BY <1>2, <1>3, <1>4, <1>5, <1>6 DEF CoreHeard, CoreReach
<1> QED BY <1>6, <1>7 DEF cleared

\* A core was prepared: its magnetics may be left over.
LEMMA PreparedTapeCore ==
  ASSUME TapeConstants, NEW k \in Core, NEW core \in TapeCoreOf(k)
  PROVE  LET prepared == PrepareCore(k, core) IN
         /\ prepared \in TapeCoreOf(k) /\ prepared.applied = core.applied
         /\ CoreHeard(k, prepared, 0) /\ CoreReach(k, prepared, 0)
<1> DEFINE cleared == ResetTapeCore(k, core)
           magnet == IF core.magnet = "clear" THEN "clear" ELSE "stale"
           prepared == PrepareCore(k, core)
<1>1. /\ cleared \in TapeCoreOf(k) /\ cleared.applied = core.applied
      /\ CoreHeard(k, cleared, 0) /\ CoreReach(k, cleared, 0)
  BY ClearedTapeCore
<1>2. prepared = [cleared EXCEPT !.magnet = magnet]
  BY DEF PrepareCore
<1>3. magnet \in Magnet
  BY DEF Magnet
<1> HIDE DEF cleared, magnet, prepared
<1>4. /\ prepared \in TapeCoreOf(k) /\ prepared.applied = cleared.applied
      /\ prepared.oversampler = cleared.oversampler /\ prepared.dryMixRing = cleared.dryMixRing
  BY <1>1, <1>2, <1>3 DEF TapeCoreOf
<1>6. CoreHeard(k, prepared, 0) /\ CoreReach(k, prepared, 0)
  BY <1>1, <1>4 DEF CoreHeard, CoreReach
<1> QED BY <1>1, <1>4, <1>6 DEF prepared

\* A core that does not run only ages.
LEMMA IdledTapeCore ==
  ASSUME TapeConstants, NEW k \in Core, NEW core \in TapeCoreOf(k)
  PROVE  Idled(core) \in TapeCoreOf(k) /\ Idled(core).applied = core.applied
<1> DEFINE os == OversamplerAged(core.oversampler)
           ring == LineAged(core.dryMixRing)
           magnet == IF core.magnet = "running" THEN "stale" ELSE core.magnet
           idled == Idled(core)
<1>1. idled = [core EXCEPT !.oversampler = os, !.dryMixRing = ring, !.magnet = magnet]
  BY DEF Idled
<1>2. os \in Cascades(k + 1)
  BY TapeFacts, CascadeAgesForm DEF TapeCoreOf
<1>3. ring \in DryRings
  <2>1. IsLine(core.dryMixRing, TapeDryCapacity)
    BY DryRingIsLine DEF TapeCoreOf
  <2> QED BY <2>1, TapeFacts, LineAgedType, DryRingIsLine
<1>4. magnet \in Magnet
  BY DEF Magnet, TapeCoreOf
<1> HIDE DEF os, ring, magnet, idled
<1>5. idled \in TapeCoreOf(k) /\ idled.applied = core.applied
  BY <1>1, <1>2, <1>3, <1>4, TapeCoreEdited DEF TapeCoreOf
<1> QED BY <1>5 DEF idled

\* A sample through the core that runs: once it is settled, one sample fewer is as good.
LEMMA SampledTapeCore ==
  ASSUME TapeConstants, NEW k \in Core, NEW core \in TapeCoreOf(k),
         NEW r \in 0..TapeSettlingTime(k), CoreHeard(k, core, r), CoreReach(k, core, r)
  PROVE  LET next == Sampled(k, core)
             tapeWet  == Wet(k, core)
             tapeDry  == ReadFractional(next.dryMixRing, TapeDryDelay(k))
             n    == IF r < TapeSettlingTime(k) THEN r + 1 ELSE r
         IN  /\ next \in TapeCoreOf(k) /\ next.applied = core.applied
             /\ core.magnet # "stale" => next.magnet # "stale"
             /\ CoreHeard(k, next, n) /\ CoreReach(k, next, n)
             /\ tapeWet \in Traces /\ tapeDry \in Traces
             /\ n = TapeSettlingTime(k) => tapeWet.centre # Unclear /\ tapeDry.centre = tapeWet.centre
             /\ n < TapeSettlingTime(k) => tapeWet.reach <= HeardBack(n) /\ tapeDry.reach <= HeardBack(n)
<1> DEFINE S == TapeSettlingTime(k)
           C == TapeDryCapacity
           y == Oversampled(OversamplerAged(core.oversampler), Input)
           ring == Write(LineAged(core.dryMixRing), Input)
           magnet == IF core.magnet = "stale" THEN "stale" ELSE "running"
           next == Sampled(k, core)
           delay == GroupDelay(Factor(k))
           tapeDry == ReadFractional(ring, delay)
           n == IF r < S THEN r + 1 ELSE r
           m == IF r < S THEN r ELSE r - 1
           L == HeardBack(r + 1)
<1>1. /\ S \in Nat \ {0} /\ r \in Nat /\ r <= S /\ n \in Nat /\ n <= S /\ n = m + 1
      /\ m \in Nat /\ m <= r /\ m <= S - 1 /\ S - 1 \in Nat
  BY TapeFacts
<1>2. TraceConstants /\ C \in Nat \ {0} /\ Ticks \in Nat /\ Horizon \in Nat /\ delay \in Nat
  BY TapeFacts DEF TraceConstants
<1>3. core.oversampler \in Cascades(k + 1) /\ IsLine(core.dryMixRing, C)
  BY DryRingIsLine DEF TapeCoreOf
<1>4. Tracks(core.oversampler, k + 1, r) /\ Recent(core.dryMixRing, C, r)
  BY DEF CoreHeard
<1>5. next = [core EXCEPT !.oversampler = y.os, !.dryMixRing = ring, !.magnet = magnet]
  BY DEF Sampled
<1>6. Wet(k, core) = y.out[1] /\ TapeDryDelay(k) = delay
  BY DEF Wet, TapeDryDelay
<1>7. /\ y.os \in Cascades(k + 1) /\ Len(y.out) = 1 /\ y.out[1] \in Traces
      /\ Tracks(y.os, k + 1, r + 1)
      /\ r >= Span(Factor(k)) \div Ticks => y.out[1].centre = delay
  <2>1. k + 1 \in Nat /\ CascadeOf(k + 1) /\ Factor(k) = FactorOf(k + 1)
    BY TapeFacts DEF Factor
  <2> QED BY <1>1, <1>3, <1>4, <2>1, CascadeSample
<1>8. Remembers(core.oversampler, k + 1, HeardBack(r)) =>
        Remembers(y.os, k + 1, L) /\ Reaches(y.out, L)
  BY <1>1, <1>3, TapeFacts, CascadeSampleRemembers
<1>9. IsLine(ring, C)
  BY <1>2, <1>3, LineAgedType, InputType, WriteType
<1>18. /\ next \in TapeCoreOf(k) /\ next.applied = core.applied /\ next.oversampler = y.os
       /\ next.dryMixRing = ring /\ next.magnet = magnet
  <2>1. ring \in DryRings /\ magnet \in Magnet
    BY <1>9, DryRingIsLine DEF Magnet
  <2> HIDE DEF y, ring, magnet, next
  <2> QED BY <1>5, <1>7, <2>1, TapeCoreEdited DEF TapeCoreOf
<1>10. Within(core.dryMixRing.slots, C, HeardBack(r)) => Within(ring.slots, C, L)
  BY <1>1, <1>2, <1>3, RingRemembers
<1>11. L \in Nat /\ (r < S => L = HeardBack(n))
  BY <1>1, <1>2, HeardBackLater
<1>12. Recent(ring, C, n)
  <2>1. Recent(core.dryMixRing, C, m)
    BY <1>1, <1>2, <1>4, RecentLess
  <2>2. m * Ticks <= (S - 1) * Ticks /\ m * Ticks \in Nat /\ (S - 1) * Ticks \in Nat
    BY <1>1, <1>2, ProductGrows
  <2>3. (S - 1) * Ticks + Ticks <= Horizon
    BY TapeFacts
  <2> HIDE DEF m, S
  <2>4. m * Ticks <= Horizon
    BY <1>1, <1>2, <2>2, <2>3
  <2>5. Recent(ring, C, m + 1)
    BY <1>1, <1>2, <1>3, <2>1, <2>4, RingSample
  <2> QED BY <1>1, <2>5
<1>13. S - 1 = Span(Factor(k)) \div Ticks
  BY TapeFacts
<1>14. tapeDry \in Traces
  BY <1>2, <1>9, ReadIsTrace
<1>15. n = S => tapeDry.centre = delay
  <2>1. /\ k + 1 \in Nat /\ CascadeOf(k + 1) /\ C \in Nat /\ delay = GroupDelay(FactorOf(k + 1))
        /\ C * Ticks > GroupDelay(FactorOf(k + 1)) + Ticks
    BY <1>2, TapeFacts DEF Factor
  <2>2. ASSUME n = S PROVE n >= Span(FactorOf(k + 1)) \div Ticks + 1
    BY <1>1, <1>13, <2>2 DEF Factor
  <2> QED BY <1>1, <1>9, <1>12, <2>1, <2>2, RingReads
<1>16. CASE r < S
  <2>1. Tracks(y.os, k + 1, n)
    BY <1>7, <1>16
  <2>2. Remembers(y.os, k + 1, HeardBack(n)) /\ Reaches(y.out, HeardBack(n))
        /\ Within(ring.slots, C, HeardBack(n))
    BY <1>8, <1>10, <1>11, <1>16 DEF CoreReach
  <2>3. y.out[1].reach <= HeardBack(n)
    BY <1>7, <2>2 DEF Reaches
  <2>4. tapeDry.reach <= HeardBack(n)
    <3>1. HeardBack(n) \in Int
      BY <1>11, <1>16
    <3> QED BY <1>2, <1>9, <2>2, <3>1, ReadWithin
  <2>5. n = S => y.out[1].centre = delay
    BY <1>1, <1>7, <1>13, <1>16
  <2> HIDE DEF y, ring, next, tapeDry, n, delay, magnet
  <2>6. next \in TapeCoreOf(k)
    BY <1>18
  <2>7. CoreHeard(k, next, n) /\ CoreReach(k, next, n)
    BY <1>12, <1>18, <2>1, <2>2 DEF CoreHeard, CoreReach
  <2>8. n = S => y.out[1].centre # Unclear /\ tapeDry.centre = y.out[1].centre
    BY <1>2, <1>15, <2>5 DEF Unclear
  <2>9. core.magnet # "stale" => next.magnet # "stale"
    BY <1>18 DEF magnet
  <2> QED BY <1>6, <1>7, <1>14, <1>18, <2>3, <2>4, <2>6, <2>7, <2>8, <2>9 DEF next, n, tapeDry
<1>17. CASE ~(r < S)
  <2>1. Tracks(y.os, k + 1, n) /\ n = S
    <3>1. Tracks(y.os, k + 1, r)
      BY <1>1, <1>7, TapeFacts, TracksLess
    <3> QED BY <1>1, <1>17, <3>1
  <2>2. y.out[1].centre = delay
    BY <1>1, <1>7, <1>13, <1>17
  <2> HIDE DEF y, ring, next, tapeDry, n, delay, magnet
  <2>3. next \in TapeCoreOf(k)
    BY <1>18
  <2>4. CoreHeard(k, next, n) /\ CoreReach(k, next, n)
    BY <1>1, <1>12, <1>18, <2>1 DEF CoreHeard, CoreReach
  <2>5. y.out[1].centre # Unclear /\ tapeDry.centre = y.out[1].centre
    BY <1>2, <1>15, <2>1, <2>2 DEF Unclear
  <2>6. core.magnet # "stale" => next.magnet # "stale"
    BY <1>18 DEF magnet
  <2>7. ~(n < S)
    BY <1>1, <2>1
  <2> QED BY <1>6, <1>7, <1>14, <1>18, <2>3, <2>4, <2>5, <2>6, <2>7 DEF next, n, tapeDry
<1> QED BY <1>16, <1>17

-----------------------------------------------------------------------------
(* What was published and not applied                                      *)

\* Values of some of the parameters: what an edit or a preset gives.
ValuesOfSome(values) == \A p \in Param : p \in DOMAIN values => values[p] \in TapeValues

TapePendingOK ==
  /\ tapePending = [x \in DOMAIN tapePending |-> tapePending[x]]
  /\ DOMAIN tapePending \subseteq Param \cup {"oversampling"}
  /\ ValuesOfSome(tapePending)
  /\ "oversampling" \in DOMAIN tapePending => tapePending["oversampling"] \in Core

TapeTypes ==
  /\ oversamplingIndex \in Core /\ applied \in [Param -> TapeValues] /\ TapePendingOK
  /\ tapeCores = [k \in Core |-> tapeCores[k]] /\ \A k \in Core : tapeCores[k] \in TapeCoreOf(k)
  /\ last \in [wet : Traces, dry : Traces]
  /\ tapeRun \in 0..TapeSettlingTime(oversamplingIndex) /\ tapeFresh \in BOOLEAN
  /\ tapeEdits \in 0..MaxTapeEdits

\* The core that runs: its lines and its magnetics.
TapeRuns ==
  LET k == oversamplingIndex IN
  /\ CoreHeard(k, tapeCores[k], tapeRun) /\ CoreReach(k, tapeCores[k], tapeRun)
  /\ tapeFresh => tapeCores[k].magnet # "stale"

\* And what is heard of it.
TapeStartsClean ==
  tapeRun # 0 /\ tapeRun < TapeSettlingTime(oversamplingIndex) =>
    last.wet.reach <= HeardBack(tapeRun) /\ last.dry.reach <= HeardBack(tapeRun)

TapeInv == TapeTypes /\ TapeRuns /\ TapeStartsClean /\ TapeAligned /\ CoresAgree

\* What every core has applied once `values` were pushed.
WithValues(values) == Over(values, applied)

\* A push changes the values of a core and nothing else of it.
LEMMA PushedTapeCores ==
  ASSUME TapeInv, NEW values, ValuesOfSome(values), NEW k \in Core
  PROVE  LET pushed == PushedToAll(values)[k] IN
         /\ pushed \in TapeCoreOf(k) /\ pushed.applied = WithValues(values)
         /\ pushed.oversampler = tapeCores[k].oversampler
         /\ pushed.dryMixRing = tapeCores[k].dryMixRing /\ pushed.magnet = tapeCores[k].magnet
<1> DEFINE now == WithValues(values)
           core == tapeCores[k]
           pushed == PushedToAll(values)[k]
<1>1. core \in TapeCoreOf(k) /\ core.applied = applied /\ applied \in [Param -> TapeValues]
  BY DEF TapeInv, TapeTypes, CoresAgree
<1>2. now \in [Param -> TapeValues]
  BY <1>1 DEF WithValues, Over, ValuesOfSome
<1>3. Over(values, core.applied) = now
  BY <1>1 DEF WithValues
<1>4. pushed = [core EXCEPT !.applied = Over(values, core.applied)]
  BY DEF PushedToAll
<1> HIDE DEF now, core, pushed
<1>5. pushed = [core EXCEPT !.applied = now]
  BY <1>3, <1>4
<1>6. /\ pushed \in TapeCoreOf(k) /\ pushed.applied = now
      /\ pushed.oversampler = core.oversampler /\ pushed.dryMixRing = core.dryMixRing
      /\ pushed.magnet = core.magnet
  BY <1>1, <1>2, <1>5 DEF TapeCoreOf
<1> QED BY <1>6 DEF now, core, pushed

\* The cores once values were pushed and core j was selected.
LEMMA SelectedTapeCores ==
  ASSUME TapeConstants, TapeInv, NEW values, ValuesOfSome(values), NEW j \in Core
  PROVE  LET ready == Selected(PushedToAll(values), j)
             r     == IF j = oversamplingIndex THEN tapeRun ELSE 0
         IN  /\ ready = [k \in Core |-> ready[k]]
             /\ \A k \in Core : ready[k] \in TapeCoreOf(k) /\ ready[k].applied = WithValues(values)
             /\ r \in 0..TapeSettlingTime(j) /\ CoreHeard(j, ready[j], r) /\ CoreReach(j, ready[j], r)
             /\ j # oversamplingIndex \/ tapeFresh => ready[j].magnet # "stale"
<1> DEFINE all == PushedToAll(values)
           ready == Selected(all, j)
           cleared == ResetTapeCore(j, all[j])
<1>1. all = [k \in Core |-> all[k]]
  BY DEF PushedToAll
<1>2. \A k \in Core : /\ all[k] \in TapeCoreOf(k) /\ all[k].applied = WithValues(values)
                      /\ all[k].oversampler = tapeCores[k].oversampler
                      /\ all[k].dryMixRing = tapeCores[k].dryMixRing
                      /\ all[k].magnet = tapeCores[k].magnet
  BY PushedTapeCores
<1>3. oversamplingIndex \in Core /\ tapeRun \in 0..TapeSettlingTime(oversamplingIndex)
  BY DEF TapeInv, TapeTypes
<1>4. TapeSettlingTime(j) \in Nat
  BY TapeFacts
<1>5. /\ cleared \in TapeCoreOf(j) /\ cleared.applied = all[j].applied /\ cleared.magnet = "clear"
      /\ CoreHeard(j, cleared, 0) /\ CoreReach(j, cleared, 0)
  BY <1>2, ClearedTapeCore
<1>6. ready = IF j = oversamplingIndex THEN all ELSE [all EXCEPT ![j] = cleared]
  BY DEF Selected
<1> HIDE DEF all, cleared, ready
<1>7. CASE j = oversamplingIndex
  <2>1. CoreHeard(j, all[j], tapeRun) /\ CoreReach(j, all[j], tapeRun)
        /\ (tapeFresh => all[j].magnet # "stale")
    BY <1>2, <1>7 DEF TapeInv, TapeRuns, CoreHeard, CoreReach
  <2> QED BY <1>1, <1>2, <1>3, <1>6, <1>7, <2>1 DEF ready, all
<1>8. CASE j # oversamplingIndex
  <2>1. ready = [k \in Core |-> IF k = j THEN cleared ELSE all[k]]
    BY <1>1, <1>6, <1>8
  <2>2. ready = [k \in Core |-> ready[k]] /\ ready[j] = cleared
    BY <2>1
  <2>3. \A k \in Core : ready[k] \in TapeCoreOf(k) /\ ready[k].applied = WithValues(values)
    BY <1>2, <1>5, <2>1
  <2> QED BY <1>4, <1>5, <1>8, <2>2, <2>3 DEF ready, all
<1> QED BY <1>7, <1>8

\* Every core begins as it is after a reset.
LEMMA TapeStarts ==
  ASSUME TapeConstants, TapeInit
  PROVE  TapeInv
<1> DEFINE fresh(k) == [applied |-> TapeDefaults, oversampler |-> ClearedStages(k + 1),
                        dryMixRing |-> Line(TapeDryCapacity), magnet |-> "clear"]
<1>1. ASSUME NEW k \in Core
      PROVE  /\ fresh(k) \in TapeCoreOf(k) /\ CoreHeard(k, fresh(k), 0) /\ CoreReach(k, fresh(k), 0)
  <2>1. /\ ClearedStages(k + 1) \in Cascades(k + 1) /\ Tracks(ClearedStages(k + 1), k + 1, 0)
        /\ Remembers(ClearedStages(k + 1), k + 1, Unclear)
    BY TapeFacts, ClearedCascade, NothingHeard
  <2>2. /\ Line(TapeDryCapacity) \in DryRings /\ Recent(Line(TapeDryCapacity), TapeDryCapacity, 0)
        /\ Within(Line(TapeDryCapacity).slots, TapeDryCapacity, Unclear)
    BY TapeFacts, ClearedRing, DryRingIsLine
  <2>3. TapeDefaults \in [Param -> TapeValues] /\ "clear" \in Magnet
    BY DEF TapeDefaults, TapeConstants, Magnet
  <2>4. HeardBack(0) = Unclear
    BY DEF HeardBack
  <2>5. fresh(k) \in TapeCoreOf(k)
    BY <2>1, <2>2, <2>3 DEF TapeCoreOf
  <2> QED BY <2>1, <2>2, <2>4, <2>5 DEF CoreHeard, CoreReach
<1>2. /\ tapeCores = [k \in Core |-> fresh(k)] /\ applied = TapeDefaults /\ oversamplingIndex = 2
      /\ tapePending = <<>> /\ last = [wet |-> Silent, dry |-> Silent]
      /\ tapeRun = 0 /\ tapeFresh = TRUE /\ tapeEdits = 0
  BY DEF TapeInit
<1>3. fresh(2).magnet = "clear" /\ \A k \in Core : fresh(k).applied = TapeDefaults
  OBVIOUS
<1> HIDE DEF fresh
<1>4. TapePendingOK
  BY <1>2 DEF TapePendingOK, ValuesOfSome
<1>5. Silent \in Traces /\ 2 \in Core
  BY DEF Silent, Traces, Ages, Unclear, Core, TapeConstants, CascadeConstants, TraceConstants
<1>6. TapeSettlingTime(2) \in Nat \ {0}
  BY <1>5, TapeFacts
<1>7. TapeTypes
  <2>1. last \in [wet : Traces, dry : Traces]
    BY <1>2, <1>5
  <2>2. TapeDefaults \in [Param -> TapeValues]
    BY DEF TapeDefaults, TapeConstants
  <2>3. tapeEdits \in 0..MaxTapeEdits
    BY <1>2 DEF TapeConstants
  <2> QED BY <1>1, <1>2, <1>4, <1>5, <1>6, <2>1, <2>2, <2>3 DEF TapeTypes
<1>8. TapeRuns
  BY <1>1, <1>2, <1>3, <1>5 DEF TapeRuns
<1>9. TapeStartsClean /\ TapeAligned
  BY <1>2, <1>6 DEF TapeStartsClean, TapeAligned
<1>10. CoresAgree
  BY <1>1, <1>2, <1>3 DEF CoresAgree
<1> QED BY <1>7, <1>8, <1>9, <1>10 DEF TapeInv

\* An edit is only published.
LEMMA SetTapeParameterInv ==
  ASSUME TapeConstants, TapeInv, SetTapeParameter
  PROVE  TapeInv'
<1>1. PICK p \in Param \cup {"oversampling"} :
        \E v \in IF p = "oversampling" THEN Core ELSE TapeValues :
          tapePending' = [q \in DOMAIN tapePending \cup {p} |-> IF q = p THEN v ELSE tapePending[q]]
  BY DEF SetTapeParameter
<1>2. PICK v \in IF p = "oversampling" THEN Core ELSE TapeValues :
        tapePending' = [q \in DOMAIN tapePending \cup {p} |-> IF q = p THEN v ELSE tapePending[q]]
  BY <1>1
<1>3. TapePendingOK'
  <2>1. "oversampling" \notin Param
    BY DEF Param
  <2> QED BY <1>2, <2>1 DEF TapeInv, TapeTypes, TapePendingOK, ValuesOfSome
<1>4. TapeTypes'
  BY <1>3 DEF TapeInv, TapeTypes, SetTapeParameter, TapeEdit, TapeConstants
<1>5. TapeRuns' /\ TapeStartsClean' /\ TapeAligned' /\ CoresAgree'
  BY DEF TapeInv, TapeRuns, TapeStartsClean, TapeAligned, CoresAgree, SetTapeParameter
<1> QED BY <1>4, <1>5 DEF TapeInv

\* A preset pushes its colour and selects its core.
LEMMA ApplyPresetInv ==
  ASSUME TapeConstants, TapeInv, ApplyPreset
  PROVE  TapeInv'
<1>1. PICK cfg \in Presets :
        /\ applied' = [applied EXCEPT !.colour = cfg.colour]
        /\ tapeCores' = Selected(PushedToAll([colour |-> cfg.colour]), cfg.oversampling)
        /\ oversamplingIndex' = cfg.oversampling
        /\ TapeRestarted(cfg.oversampling)
  BY DEF ApplyPreset
<1> DEFINE values == [colour |-> cfg.colour]
           j == cfg.oversampling
           ready == Selected(PushedToAll(values), j)
           r == IF j = oversamplingIndex THEN tapeRun ELSE 0
<1>2. j \in Core /\ cfg.colour \in TapeValues
  BY DEF Presets, Core
<1>3. ValuesOfSome(values)
  BY <1>2 DEF ValuesOfSome
<1>4. applied' = WithValues(values) /\ applied' \in [Param -> TapeValues]
  <2>1. applied \in [Param -> TapeValues]
    BY DEF TapeInv, TapeTypes
  <2> QED BY <1>1, <1>2, <2>1 DEF WithValues, Over, Param
<1>5. /\ ready = [k \in Core |-> ready[k]]
      /\ \A k \in Core : ready[k] \in TapeCoreOf(k) /\ ready[k].applied = WithValues(values)
      /\ r \in 0..TapeSettlingTime(j) /\ CoreHeard(j, ready[j], r) /\ CoreReach(j, ready[j], r)
      /\ j # oversamplingIndex \/ tapeFresh => ready[j].magnet # "stale"
  BY <1>2, <1>3, SelectedTapeCores
<1>6. /\ tapeCores' = ready /\ oversamplingIndex' = j /\ tapeRun' = r
      /\ tapeFresh' = (j # oversamplingIndex \/ tapeFresh)
      /\ tapePending' = tapePending /\ last' = last
  BY <1>1 DEF TapeRestarted, ApplyPreset
<1> HIDE DEF ready, j, values
<1>7. TapeTypes'
  <2>1. tapeEdits' \in 0..MaxTapeEdits
    BY DEF ApplyPreset, TapeEdit, TapeConstants, TapeInv, TapeTypes
  <2>2. TapePendingOK'
    BY <1>6 DEF TapeInv, TapeTypes, TapePendingOK, ValuesOfSome
  <2>3. tapeFresh' \in BOOLEAN
    BY <1>6
  <2>4. last' \in [wet : Traces, dry : Traces]
    BY <1>6 DEF TapeInv, TapeTypes
  <2> QED BY <1>2, <1>4, <1>5, <1>6, <2>1, <2>2, <2>3, <2>4 DEF TapeTypes
<1>8. TapeRuns'
  BY <1>5, <1>6 DEF TapeRuns
<1>9. TapeStartsClean' /\ TapeAligned'
  <2>1. CASE j = oversamplingIndex
    BY <1>6, <2>1 DEF TapeInv, TapeStartsClean, TapeAligned
  <2>2. CASE j # oversamplingIndex
    <3>1. TapeSettlingTime(j) \in Nat \ {0}
      BY <1>2, TapeFacts
    <3> QED BY <1>6, <2>2, <3>1 DEF TapeStartsClean, TapeAligned
  <2> QED BY <2>1, <2>2
<1>10. CoresAgree'
  BY <1>4, <1>5, <1>6 DEF CoresAgree
<1> QED BY <1>7, <1>8, <1>9, <1>10 DEF TapeInv

\* prepare() and reset(): every core cleared, every applied value pushed again.
LEMMA TapeRestartInv ==
  ASSUME TapeConstants, TapeInv, NEW cleared, cleared = [k \in Core |-> cleared[k]],
         \A k \in Core : /\ cleared[k] \in TapeCoreOf(k) /\ cleared[k].applied = applied
                         /\ CoreHeard(k, cleared[k], 0) /\ CoreReach(k, cleared[k], 0),
         tapeCores' = cleared,
         tapeFresh' \in BOOLEAN, tapeFresh' => \A k \in Core : cleared[k].magnet # "stale",
         last' = [wet |-> Silent, dry |-> Silent], tapeRun' = 0, TapeEdit,
         UNCHANGED <<applied, oversamplingIndex, tapePending>>
  PROVE  TapeInv'
<1>1. Silent \in Traces
  BY DEF Silent, Traces, Ages, Unclear, TapeConstants, CascadeConstants, TraceConstants
<1>2. oversamplingIndex \in Core /\ TapeSettlingTime(oversamplingIndex) \in Nat \ {0}
  BY TapeFacts DEF TapeInv, TapeTypes
<1>3. TapeTypes'
  <2>1. tapeEdits' \in 0..MaxTapeEdits
    BY DEF TapeEdit, TapeConstants, TapeInv, TapeTypes
  <2>2. TapePendingOK' /\ applied' \in [Param -> TapeValues]
    BY DEF TapeInv, TapeTypes, TapePendingOK, ValuesOfSome
  <2>3. last' \in [wet : Traces, dry : Traces]
    BY <1>1
  <2> QED BY <1>2, <2>1, <2>2, <2>3 DEF TapeTypes
<1>4. TapeRuns'
  BY <1>2 DEF TapeRuns
<1>5. TapeStartsClean' /\ TapeAligned'
  BY <1>2 DEF TapeStartsClean, TapeAligned
<1>6. CoresAgree'
  BY DEF CoresAgree
<1> QED BY <1>3, <1>4, <1>5, <1>6 DEF TapeInv

\* reset() clears every core, magnetics included.
LEMMA ResetTapeInv ==
  ASSUME TapeConstants, TapeInv, ResetTape
  PROVE  TapeInv'
<1> DEFINE cleared == [k \in Core |-> ResetTapeCore(k, PushedToAll(applied)[k])]
<1>1. ValuesOfSome(applied) /\ WithValues(applied) = applied
  BY DEF TapeInv, TapeTypes, ValuesOfSome, WithValues, Over
<1>2. ASSUME NEW k \in Core
      PROVE  /\ cleared[k] \in TapeCoreOf(k) /\ cleared[k].applied = applied
             /\ CoreHeard(k, cleared[k], 0) /\ CoreReach(k, cleared[k], 0)
             /\ cleared[k].magnet # "stale"
  <2>1. PushedToAll(applied)[k] \in TapeCoreOf(k) /\ PushedToAll(applied)[k].applied = applied
    BY <1>1, PushedTapeCores
  <2>2. cleared[k] = ResetTapeCore(k, PushedToAll(applied)[k])
    OBVIOUS
  <2> HIDE DEF cleared
  <2> QED BY <2>1, <2>2, ClearedTapeCore
<1>3. cleared = [k \in Core |-> cleared[k]] /\ tapeCores' = cleared
  BY DEF ResetTape
<1> HIDE DEF cleared
<1>4. /\ last' = [wet |-> Silent, dry |-> Silent] /\ tapeRun' = 0 /\ tapeFresh' = TRUE
      /\ TapeEdit /\ UNCHANGED <<applied, oversamplingIndex, tapePending>>
  BY DEF ResetTape
<1> QED BY <1>2, <1>3, <1>4, TapeRestartInv

\* prepare() clears every core, but for the magnetics.
LEMMA PrepareTapeInv ==
  ASSUME TapeConstants, TapeInv, PrepareTape
  PROVE  TapeInv'
<1> DEFINE cleared == [k \in Core |-> PrepareCore(k, PushedToAll(applied)[k])]
<1>1. ValuesOfSome(applied) /\ WithValues(applied) = applied
  BY DEF TapeInv, TapeTypes, ValuesOfSome, WithValues, Over
<1>2. ASSUME NEW k \in Core
      PROVE  /\ cleared[k] \in TapeCoreOf(k) /\ cleared[k].applied = applied
             /\ CoreHeard(k, cleared[k], 0) /\ CoreReach(k, cleared[k], 0)
  <2>1. PushedToAll(applied)[k] \in TapeCoreOf(k) /\ PushedToAll(applied)[k].applied = applied
    BY <1>1, PushedTapeCores
  <2>2. cleared[k] = PrepareCore(k, PushedToAll(applied)[k])
    OBVIOUS
  <2> HIDE DEF cleared
  <2> QED BY <2>1, <2>2, PreparedTapeCore
<1>3. cleared = [k \in Core |-> cleared[k]] /\ tapeCores' = cleared
  BY DEF PrepareTape
<1> HIDE DEF cleared
<1>4. /\ last' = [wet |-> Silent, dry |-> Silent] /\ tapeRun' = 0 /\ tapeFresh' = FALSE
      /\ TapeEdit /\ UNCHANGED <<applied, oversamplingIndex, tapePending>>
  BY DEF PrepareTape
<1> QED BY <1>2, <1>3, <1>4, TapeRestartInv

\* process(): the pending values, the selection, and a sample on every core.
LEMMA ProcessTapeInv ==
  ASSUME TapeConstants, TapeInv, ProcessTape
  PROVE  TapeInv'
<1> DEFINE j == IF "oversampling" \in DOMAIN tapePending THEN tapePending["oversampling"]
                ELSE oversamplingIndex
           ready == Selected(PushedToAll(tapePending), j)
           next == [c \in Core |-> IF c = j THEN Sampled(c, ready[c]) ELSE Idled(ready[c])]
           r == IF j = oversamplingIndex THEN tapeRun ELSE 0
           n == IF r < TapeSettlingTime(j) THEN r + 1 ELSE r
           tapeWet == Wet(j, ready[j])
           tapeDry == ReadFractional(Sampled(j, ready[j]).dryMixRing, TapeDryDelay(j))
<1>1. j \in Core /\ ValuesOfSome(tapePending)
  BY DEF TapeInv, TapeTypes, TapePendingOK
<1>2. TapeSettlingTime(j) \in Nat \ {0}
  BY <1>1, TapeFacts
<1>3. /\ applied' = WithValues(tapePending) /\ oversamplingIndex' = j /\ tapePending' = <<>>
      /\ tapeCores' = next /\ tapeRun' = n /\ tapeEdits' = tapeEdits
      /\ tapeFresh' = (j # oversamplingIndex \/ tapeFresh)
      /\ last' = [wet |-> tapeWet, dry |-> ReadFractional(next[j].dryMixRing, TapeDryDelay(j))]
  BY DEF ProcessTape, TapeCurrent, WithValues
<1>4. last' = [wet |-> tapeWet, dry |-> tapeDry]
  <2>1. next[j] = Sampled(j, ready[j])
    BY <1>1
  <2> QED BY <1>3, <2>1
<1>5. WithValues(tapePending) \in [Param -> TapeValues]
  BY <1>1 DEF TapeInv, TapeTypes, WithValues, Over, ValuesOfSome
<1>6. /\ \A k \in Core : ready[k] \in TapeCoreOf(k) /\ ready[k].applied = WithValues(tapePending)
      /\ r \in 0..TapeSettlingTime(j) /\ CoreHeard(j, ready[j], r) /\ CoreReach(j, ready[j], r)
      /\ j # oversamplingIndex \/ tapeFresh => ready[j].magnet # "stale"
  <2> HIDE DEF j
  <2> QED BY <1>1, SelectedTapeCores
<1> HIDE DEF j, ready
<1>7. /\ Sampled(j, ready[j]) \in TapeCoreOf(j) /\ Sampled(j, ready[j]).applied = ready[j].applied
      /\ ready[j].magnet # "stale" => Sampled(j, ready[j]).magnet # "stale"
      /\ CoreHeard(j, Sampled(j, ready[j]), n) /\ CoreReach(j, Sampled(j, ready[j]), n)
      /\ tapeWet \in Traces /\ tapeDry \in Traces
      /\ n = TapeSettlingTime(j) => tapeWet.centre # Unclear /\ tapeDry.centre = tapeWet.centre
      /\ n < TapeSettlingTime(j) => tapeWet.reach <= HeardBack(n) /\ tapeDry.reach <= HeardBack(n)
  <2> HIDE DEF r
  <2> QED BY <1>1, <1>6, SampledTapeCore
<1>8. ASSUME NEW k \in Core
      PROVE  next[k] \in TapeCoreOf(k) /\ next[k].applied = WithValues(tapePending)
  <2>1. CASE k = j
    BY <1>6, <1>7, <2>1
  <2>2. CASE k # j
    BY <1>6, <2>2, IdledTapeCore
  <2> QED BY <2>1, <2>2
<1>9. n \in 0..TapeSettlingTime(j) /\ n # 0
  BY <1>2, <1>6
<1>10. next = [k \in Core |-> next[k]] /\ next[j] = Sampled(j, ready[j])
  BY <1>1
<1> HIDE DEF next, n, tapeWet, tapeDry
<1>11. TapeTypes'
  <2>1. TapePendingOK'
    BY <1>3 DEF TapePendingOK, ValuesOfSome
  <2>2. last' \in [wet : Traces, dry : Traces]
    BY <1>4, <1>7
  <2>3. tapeFresh' \in BOOLEAN /\ tapeEdits' \in 0..MaxTapeEdits
    BY <1>3 DEF TapeInv, TapeTypes
  <2> QED BY <1>1, <1>3, <1>5, <1>8, <1>9, <1>10, <2>1, <2>2, <2>3 DEF TapeTypes
<1>12. TapeRuns'
  BY <1>3, <1>6, <1>7, <1>10 DEF TapeRuns
<1>13. TapeStartsClean' /\ TapeAligned'
  BY <1>3, <1>4, <1>7 DEF TapeStartsClean, TapeAligned
<1>14. CoresAgree'
  BY <1>3, <1>8 DEF CoresAgree
<1> QED BY <1>11, <1>12, <1>13, <1>14 DEF TapeInv

\* Every step keeps the invariant.
LEMMA TapeKept ==
  ASSUME TapeConstants, TapeInv, [TapeNext]_tapeVars
  PROVE  TapeInv'
<1>1. CASE SetTapeParameter
  BY <1>1, SetTapeParameterInv
<1>2. CASE ProcessTape
  BY <1>2, ProcessTapeInv
<1>3. CASE ApplyPreset
  BY <1>3, ApplyPresetInv
<1>4. CASE PrepareTape
  BY <1>4, PrepareTapeInv
<1>5. CASE ResetTape
  BY <1>5, ResetTapeInv
<1>6. CASE UNCHANGED tapeVars
  BY <1>6 DEF tapeVars, TapeInv, TapeTypes, TapePendingOK, ValuesOfSome, TapeRuns, TapeStartsClean,
              TapeAligned, CoresAgree
<1> QED BY <1>1, <1>2, <1>3, <1>4, <1>5, <1>6 DEF TapeNext

\* The types, and the clean start after a switch.
LEMMA TapeShows ==
  ASSUME TapeConstants, TapeInv
  PROVE  TapeTypeOK /\ SwitchStartsClean
<1> DEFINE k == oversamplingIndex
<1>1. k \in Core /\ TapeSettlingTime(k) \in Nat \ {0}
  BY TapeFacts DEF TapeInv, TapeTypes
<1>2. TapeTypeOK
  BY DEF TapeInv, TapeTypes, TapePendingOK, TapeTypeOK, TapeCoreOf, DryRings
<1>3. SwitchStartsClean
  <2>1. tapeFresh => tapeCores[k].magnet # "stale"
    BY DEF TapeInv, TapeRuns
  <2>2. ASSUME tapeRun \in 1..TapeSettlingTime(k) - 1
        PROVE  last.wet.reach <= (tapeRun - 1) * Ticks /\ last.dry.reach <= (tapeRun - 1) * Ticks
    <3>1. tapeRun < TapeSettlingTime(k) /\ tapeRun # 0 /\ HeardBack(tapeRun) = (tapeRun - 1) * Ticks
      BY <1>1, <2>2 DEF HeardBack
    <3> QED BY <3>1 DEF TapeInv, TapeStartsClean
  <2> QED BY <2>1, <2>2 DEF SwitchStartsClean
<1> QED BY <1>2, <1>3

\* The selected core's cascade and dry ring heard the same samples, its magnetics
\* are not of an earlier run after a switch, and all cores carry what was applied:
\* for every centre tap, capacity and set of values, and every order of edits,
\* presets, prepares, resets and blocks.
THEOREM TapeInductive == ASSUME TapeConstants PROVE TapeSpec => []TapeInv
<1>1. TapeInit => TapeInv
  BY TapeStarts
<1>2. TapeInv /\ [TapeNext]_tapeVars => TapeInv'
  BY TapeKept
<1> QED BY <1>1, <1>2, PTL DEF TapeSpec

-----------------------------------------------------------------------------
(* The program-dependent effect: a core, and the values it is given        *)

SettingsSet == [base : [Target -> Levels], depth : [Target -> Int], link : Values["link"]]
CoreSet == [base : [Target -> Levels], depth : [Target -> Int],
            saturator : [Target -> Levels], lastNorm : Levels]

\* What every push leaves true: the core has the effect's bases and depths, and
\* a tone that nothing modulates is at its base.
InStep(core, s) ==
  /\ core.base = s.base /\ core.depth = s.depth
  /\ core.depth["tone"] = 0 => core.saturator["tone"] = core.base["tone"]

\* setStaticTone() sets the base and the saturator, and no depth.
LEMMA ToneIsSet ==
  ASSUME PdsConstants, NEW core \in CoreSet, NEW v \in Levels
  PROVE  /\ SetStaticTone(core, v) \in CoreSet
         /\ SetStaticTone(core, v).base = [core.base EXCEPT !["tone"] = v]
         /\ SetStaticTone(core, v).depth = core.depth
         /\ SetStaticTone(core, v).saturator["tone"] = v
         /\ SetStaticTone(core, v).lastNorm = core.lastNorm
BY DEF SetStaticTone, CoreSet, Target

\* A depth of the tone that becomes zero puts the tone back to its base.
LEMMA DepthIsSet ==
  ASSUME PdsConstants, NEW core \in CoreSet, NEW t \in Target, NEW d \in Int
  PROVE  /\ SetDepth(core, t, d) \in CoreSet
         /\ SetDepth(core, t, d).base = core.base
         /\ SetDepth(core, t, d).depth = [core.depth EXCEPT ![t] = d]
         /\ SetDepth(core, t, d).lastNorm = core.lastNorm
         /\ t = "tone" /\ d = 0 => SetDepth(core, t, d).saturator["tone"] = core.base["tone"]
         /\ ~(t = "tone" /\ d = 0) => SetDepth(core, t, d).saturator = core.saturator
<1>1. CASE t = "tone" /\ d = 0
  BY <1>1 DEF SetDepth, CoreSet, Target
<1>2. CASE ~(t = "tone" /\ d = 0)
  BY <1>2 DEF SetDepth, CoreSet, Target
<1> QED BY <1>1, <1>2

-----------------------------------------------------------------------------
(* The walk: each parameter found goes to the settings and to every core   *)

\* One parameter found, pushed to a core and noted in the settings.
LEMMA VisitKeepsStep ==
  ASSUME PdsConstants, NEW core \in CoreSet, NEW s \in SettingsSet, InStep(core, s),
         NEW parameter \in Parameter, NEW v \in Values[parameter]
  PROVE  /\ Pushed(core, parameter, v) \in CoreSet /\ Noted(s, parameter, v) \in SettingsSet
         /\ InStep(Pushed(core, parameter, v), Noted(s, parameter, v))
         /\ Pushed(core, parameter, v).lastNorm = core.lastNorm
<1> USE DEF Target, SettingsSet
<1>1. CASE parameter = "preset"
  <2> DEFINE row == PresetConfig(v)
             driven == SetDepth(core, "drive", row.drive)
             toned == SetDepth(driven, "tone", row.tone)
  <2>1. row.drive \in Int /\ row.tone = 0 /\ row = [t \in Target |-> row[t]] /\ row \in [Target -> Int]
    BY DEF PresetConfig
  <2>2. driven \in CoreSet /\ driven.base = core.base
        /\ driven.depth = [core.depth EXCEPT !["drive"] = row.drive]
        /\ driven.lastNorm = core.lastNorm
    BY <2>1, DepthIsSet
  <2>3. toned \in CoreSet /\ toned.base = driven.base
        /\ toned.depth = [driven.depth EXCEPT !["tone"] = row.tone]
        /\ toned.lastNorm = driven.lastNorm /\ toned.saturator["tone"] = driven.base["tone"]
    BY <2>1, <2>2, DepthIsSet
  <2>4. Pushed(core, parameter, v) = toned /\ Noted(s, parameter, v) = [s EXCEPT !.depth = row]
    BY <1>1 DEF Pushed, Noted
  <2> HIDE DEF row, driven, toned
  <2>5. toned.depth = row
    BY <2>1, <2>2, <2>3 DEF CoreSet
  <2> QED BY <2>1, <2>2, <2>3, <2>4, <2>5 DEF InStep
<1>2. CASE parameter = "toneBase"
  <2>1. v \in Levels
    BY <1>2 DEF Values, PdsConstants, Levels
  <2>2. Pushed(core, parameter, v) = SetStaticTone(core, v)
        /\ Noted(s, parameter, v) = [s EXCEPT !.base["tone"] = v]
    BY <1>2 DEF Pushed, Noted
  <2> QED BY <2>1, <2>2, ToneIsSet DEF InStep
<1>3. CASE parameter \in {"driveDepth", "toneDepth"}
  <2> DEFINE t == IF parameter = "driveDepth" THEN "drive" ELSE "tone"
  <2>1. v \in Int
    BY <1>3 DEF Values, PdsConstants
  <2>2. Pushed(core, parameter, v) = SetDepth(core, t, v)
        /\ Noted(s, parameter, v) = [s EXCEPT !.depth[t] = v]
    BY <1>3 DEF Pushed, Noted
  <2>3. t \in Target
    OBVIOUS
  <2> HIDE DEF t
  <2> QED BY <2>1, <2>2, <2>3, DepthIsSet DEF InStep, CoreSet
<1>4. CASE parameter = "link"
  BY <1>4 DEF Pushed, Noted, InStep, Values
<1> QED BY <1>1, <1>2, <1>3, <1>4 DEF Parameter, Values


\* What a walk finds is a value of its parameter.
LEMMA FoundIsAValue ==
  ASSUME NEW found \in Findings, NEW parameter \in Parameter, found[parameter] # {}
  PROVE  (CHOOSE v \in found[parameter] : TRUE) \in Values[parameter]
<1>1. found[parameter] \in Found(parameter)
  BY DEF Findings, Parameter, Values
<1> QED BY <1>1 DEF Found

\* One parameter's turn of the walk, found or not.
LEMMA PassKeepsStep ==
  ASSUME PdsConstants, NEW found \in Findings, NEW parameter \in Parameter,
         NEW core \in CoreSet, NEW s \in SettingsSet, InStep(core, s)
  PROVE  /\ PushedFrom(core, found, parameter) \in CoreSet
         /\ NotedFrom(s, found, parameter) \in SettingsSet
         /\ InStep(PushedFrom(core, found, parameter), NotedFrom(s, found, parameter))
         /\ PushedFrom(core, found, parameter).lastNorm = core.lastNorm
<1>1. CASE found[parameter] = {}
  BY <1>1 DEF PushedFrom, NotedFrom
<1>2. CASE found[parameter] # {}
  <2> DEFINE v == CHOOSE v \in found[parameter] : TRUE
  <2>1. v \in Values[parameter]
    BY <1>2, FoundIsAValue
  <2>2. PushedFrom(core, found, parameter) = Pushed(core, parameter, v)
        /\ NotedFrom(s, found, parameter) = Noted(s, parameter, v)
    BY <1>2 DEF PushedFrom, NotedFrom
  <2> HIDE DEF v
  <2> QED BY <2>1, <2>2, VisitKeepsStep
<1> QED BY <1>1, <1>2

\* The core and the settings after the five visits.
WalkedCore(core, found) == Walk(core, LAMBDA k, parameter : PushedFrom(k, found, parameter))
WalkedSettings(s, found) == Walk(s, LAMBDA z, parameter : NotedFrom(z, found, parameter))

\* The five turns of a walk.
LEMMA WalkKeepsStep ==
  ASSUME PdsConstants, NEW found \in Findings,
         NEW core \in CoreSet, NEW s \in SettingsSet, InStep(core, s)
  PROVE  /\ WalkedCore(core, found) \in CoreSet /\ WalkedSettings(s, found) \in SettingsSet
         /\ InStep(WalkedCore(core, found), WalkedSettings(s, found))
         /\ WalkedCore(core, found).lastNorm = core.lastNorm
<1> DEFINE k1 == PushedFrom(core, found, "preset")  s1 == NotedFrom(s, found, "preset")
           k2 == PushedFrom(k1, found, "toneBase")  s2 == NotedFrom(s1, found, "toneBase")
           k3 == PushedFrom(k2, found, "driveDepth") s3 == NotedFrom(s2, found, "driveDepth")
           k4 == PushedFrom(k3, found, "toneDepth") s4 == NotedFrom(s3, found, "toneDepth")
           k5 == PushedFrom(k4, found, "link")      s5 == NotedFrom(s4, found, "link")
<1>0. {"preset", "toneBase", "driveDepth", "toneDepth", "link"} = Parameter
  BY DEF Parameter, Values
<1>1. k1 \in CoreSet /\ s1 \in SettingsSet /\ InStep(k1, s1) /\ k1.lastNorm = core.lastNorm
  BY <1>0, PassKeepsStep
<1>2. k2 \in CoreSet /\ s2 \in SettingsSet /\ InStep(k2, s2) /\ k2.lastNorm = k1.lastNorm
  <2> HIDE DEF k1, s1
  <2> QED BY <1>0, <1>1, PassKeepsStep
<1>3. k3 \in CoreSet /\ s3 \in SettingsSet /\ InStep(k3, s3) /\ k3.lastNorm = k2.lastNorm
  <2> HIDE DEF k2, s2
  <2> QED BY <1>0, <1>2, PassKeepsStep
<1>4. k4 \in CoreSet /\ s4 \in SettingsSet /\ InStep(k4, s4) /\ k4.lastNorm = k3.lastNorm
  <2> HIDE DEF k3, s3
  <2> QED BY <1>0, <1>3, PassKeepsStep
<1>5. k5 \in CoreSet /\ s5 \in SettingsSet /\ InStep(k5, s5) /\ k5.lastNorm = k4.lastNorm
  <2> HIDE DEF k4, s4
  <2> QED BY <1>0, <1>4, PassKeepsStep
<1>6. WalkedCore(core, found) = k5 /\ WalkedSettings(s, found) = s5
  BY DEF WalkedCore, WalkedSettings, Walk
<1> HIDE DEF k1, k2, k3, k4, k5, s1, s2, s3, s4, s5
<1> QED BY <1>1, <1>2, <1>3, <1>4, <1>5, <1>6

\* The settings after a walk are settings.
LEMMA WalkKeepsSettings ==
  ASSUME PdsConstants, NEW found \in Findings, NEW s \in SettingsSet
  PROVE  WalkedSettings(s, found) \in SettingsSet
<1> DEFINE core == [base |-> s.base, depth |-> s.depth, saturator |-> s.base, lastNorm |-> 0]
<1>1. core \in CoreSet /\ InStep(core, s)
  BY DEF CoreSet, SettingsSet, InStep, PdsConstants, Levels, Target
<1> HIDE DEF core
<1> QED BY <1>1, WalkKeepsStep

\* And the drive has no base to edit.
LEMMA WalkKeepsDrive ==
  ASSUME PdsConstants, NEW found \in Findings, NEW s \in SettingsSet
  PROVE  WalkedSettings(s, found).base["drive"] = s.base["drive"]
<1> DEFINE Same(z) == z \in SettingsSet /\ z.base["drive"] = s.base["drive"]
<1>1. ASSUME NEW z, Same(z), NEW parameter \in Parameter
      PROVE  Same(NotedFrom(z, found, parameter))
  <2> DEFINE v == CHOOSE v \in found[parameter] : TRUE
  <2>1. CASE found[parameter] = {}
    BY <1>1, <2>1 DEF NotedFrom
  <2>2. CASE found[parameter] # {}
    <3>1. v \in Values[parameter] /\ NotedFrom(z, found, parameter) = Noted(z, parameter, v)
      BY <2>2, FoundIsAValue DEF NotedFrom
    <3> HIDE DEF v
    <3>2. /\ Noted(z, parameter, v) \in SettingsSet
          /\ Noted(z, parameter, v).base["drive"] = z.base["drive"]
      BY <1>1, <3>1 DEF Noted, SettingsSet, Parameter, Values, Target, PresetConfig, PdsConstants, Levels
    <3> QED BY <1>1, <3>1, <3>2
  <2> QED BY <2>1, <2>2
<1>2. {"preset", "toneBase", "driveDepth", "toneDepth", "link"} = Parameter
  BY DEF Parameter, Values
<1>3. Same(s)
  OBVIOUS
<1> HIDE DEF Same
<1>4. Same(WalkedSettings(s, found))
  BY <1>1, <1>2, <1>3 DEF WalkedSettings, Walk
<1> QED BY <1>4 DEF Same

\* applyAll() puts a core in step whatever it held, its tone at the base.
LEMMA AllIsApplied ==
  ASSUME PdsConstants, NEW core \in CoreSet, pdsSettings \in SettingsSet,
         core.base["drive"] = pdsSettings.base["drive"]
  PROVE  /\ ApplyAll(core) \in CoreSet /\ InStep(ApplyAll(core), pdsSettings)
         /\ ApplyAll(core).lastNorm = core.lastNorm
         /\ ApplyAll(core).saturator["tone"] = pdsSettings.base["tone"]
<1> DEFINE based == SetStaticTone(core, pdsSettings.base.tone)
           driven == SetDepth(based, "drive", pdsSettings.depth.drive)
           toned == SetDepth(driven, "tone", pdsSettings.depth.tone)
<1>0. pdsSettings.base.tone \in Levels /\ pdsSettings.depth.drive \in Int /\ pdsSettings.depth.tone \in Int
      /\ pdsSettings.base \in [Target -> Levels] /\ pdsSettings.depth \in [Target -> Int]
  BY DEF SettingsSet, Target
<1>1. based \in CoreSet /\ based.base = [core.base EXCEPT !["tone"] = pdsSettings.base.tone]
      /\ based.lastNorm = core.lastNorm /\ based.saturator["tone"] = pdsSettings.base.tone
  BY <1>0, ToneIsSet
<1>2. "drive" \in Target /\ "tone" \in Target
  BY DEF Target
<1>3. driven \in CoreSet /\ driven.base = based.base
      /\ driven.depth = [based.depth EXCEPT !["drive"] = pdsSettings.depth.drive]
      /\ driven.lastNorm = based.lastNorm /\ driven.saturator = based.saturator
  <2> HIDE DEF based
  <2>1. ~("drive" = "tone" /\ pdsSettings.depth.drive = 0)
    OBVIOUS
  <2> QED BY <1>0, <1>1, <1>2, <2>1, DepthIsSet
<1>4. /\ toned \in CoreSet /\ toned.base = driven.base
      /\ toned.depth = [driven.depth EXCEPT !["tone"] = pdsSettings.depth.tone]
      /\ toned.lastNorm = driven.lastNorm
      /\ pdsSettings.depth.tone = 0 => toned.saturator["tone"] = driven.base["tone"]
      /\ pdsSettings.depth.tone # 0 => toned.saturator = driven.saturator
  <2> HIDE DEF driven
  <2>1. pdsSettings.depth.tone = 0 <=> ("tone" = "tone" /\ pdsSettings.depth.tone = 0)
    OBVIOUS
  <2> QED BY <1>0, <1>2, <1>3, DepthIsSet, SMTT(30)
<1>5. ApplyAll(core) = toned
  BY DEF ApplyAll
<1> HIDE DEF based, driven, toned
<1>6. toned.base = pdsSettings.base
  BY <1>0, <1>1, <1>3, <1>4 DEF CoreSet, Target
<1>7. toned.depth = pdsSettings.depth
  BY <1>0, <1>1, <1>3, <1>4 DEF CoreSet, Target
<1>8. toned.saturator["tone"] = pdsSettings.base["tone"]
  BY <1>0, <1>1, <1>3, <1>4, <1>6
<1> QED BY <1>1, <1>3, <1>4, <1>5, <1>6, <1>7, <1>8 DEF InStep

\* A channel's saturator after newBlock(): its tone is where the level before
\* the block puts it.
LEMMA BlockIsStarted ==
  ASSUME PdsConstants, NEW core \in CoreSet, NEW s \in SettingsSet, InStep(core, s)
  PROVE  /\ NewBlock(core) \in CoreSet /\ InStep(NewBlock(core), s)
         /\ NewBlock(core).lastNorm = core.lastNorm
         /\ NewBlock(core).saturator["tone"]
              = Clamp(s.base["tone"] + s.depth["tone"] * core.lastNorm)
<1>1. core.base = s.base /\ core.depth = s.depth /\ core.base["tone"] \in Levels
      /\ core.depth["tone"] \in Int /\ core.lastNorm \in Levels /\ core.lastNorm \in Int
  BY DEF InStep, CoreSet, Target, Levels, PdsConstants
<1>2. CASE core.depth["tone"] = 0
  <2>1. 0 * core.lastNorm = 0
    BY <1>1
  <2>2. Clamp(s.base["tone"] + 0) = s.base["tone"]
    BY <1>1 DEF Clamp, Levels, PdsConstants
  <2>3. NewBlock(core) = core /\ core.saturator["tone"] = s.base["tone"]
    BY <1>1, <1>2 DEF NewBlock, InStep
  <2> QED BY <1>1, <1>2, <2>1, <2>2, <2>3
<1>3. CASE core.depth["tone"] # 0
  <2> DEFINE m == core.depth["tone"] * core.lastNorm
             tone == Moved(core, "tone", core.lastNorm)
  <2>1. m \in Int
    BY <1>1
  <2>2. tone = Clamp(s.base["tone"] + m)
    BY <1>1 DEF Moved, Modulate
  <2> HIDE DEF m
  <2>3. tone \in Levels
    BY <1>1, <2>1, <2>2 DEF Clamp, Levels, PdsConstants
  <2>4. NewBlock(core) = [core EXCEPT !.saturator.tone = tone]
    BY <1>3 DEF NewBlock
  <2> HIDE DEF tone
  <2>5. /\ NewBlock(core) \in CoreSet /\ NewBlock(core).base = core.base
        /\ NewBlock(core).depth = core.depth /\ NewBlock(core).lastNorm = core.lastNorm
        /\ NewBlock(core).saturator["tone"] = tone
    BY <2>3, <2>4 DEF CoreSet, Target
  <2> QED BY <1>1, <1>3, <2>2, <2>5 DEF InStep, m
<1> QED BY <1>2, <1>3

\* A core after a sample: the level is kept, and the drive is where it puts it.
LEMMA SampleIsHeard ==
  ASSUME PdsConstants, NEW core \in CoreSet, NEW s \in SettingsSet, InStep(core, s),
         NEW norm \in Levels, NEW detects \in BOOLEAN
  PROVE  /\ ProcessWithNorm(core, norm, detects) \in CoreSet
         /\ InStep(ProcessWithNorm(core, norm, detects), s)
         /\ ProcessWithNorm(core, norm, detects).lastNorm = norm
         /\ ProcessWithNorm(core, norm, detects).saturator["tone"] = core.saturator["tone"]
         /\ ProcessWithNorm(core, norm, detects).saturator["drive"]
              = Clamp(s.base["drive"] + s.depth["drive"] * norm)
<1> DEFINE m == core.depth["drive"] * norm
           drive == Moved(core, "drive", norm)
<1>1. core.base = s.base /\ core.depth = s.depth /\ core.base["drive"] \in Levels
      /\ core.depth["drive"] \in Int /\ norm \in Int
  BY DEF InStep, CoreSet, Target, Levels, PdsConstants
<1>2. m \in Int
  BY <1>1
<1>3. drive = Clamp(s.base["drive"] + m)
  BY <1>1 DEF Moved, Modulate
<1> HIDE DEF m
<1>4. drive \in Levels
  BY <1>1, <1>2, <1>3 DEF Clamp, Levels, PdsConstants
<1>5. ProcessWithNorm(core, norm, detects)
        = [[core EXCEPT !.lastNorm = norm] EXCEPT !.saturator.drive = drive]
  BY DEF ProcessWithNorm, CarriedLevel
<1> HIDE DEF drive
<1>6. [[core EXCEPT !.lastNorm = norm] EXCEPT !.saturator.drive = drive]
        = [core EXCEPT !.lastNorm = norm, !.saturator.drive = drive]
  BY <1>4 DEF CoreSet, Target
<1> DEFINE after == [core EXCEPT !.lastNorm = norm, !.saturator.drive = drive]
<1>7. /\ after \in CoreSet /\ after.base = core.base /\ after.depth = core.depth
      /\ after.lastNorm = norm /\ after.saturator["tone"] = core.saturator["tone"]
      /\ after.saturator["drive"] = drive
  BY <1>4 DEF CoreSet, Target
<1>8. ProcessWithNorm(core, norm, detects) = after
  BY <1>5, <1>6
<1> HIDE DEF after
<1> QED BY <1>1, <1>3, <1>7, <1>8 DEF InStep, m

-----------------------------------------------------------------------------
(* The invariant, and what keeps it                                        *)

Types ==
  /\ pdsCores \in [PdsChannel -> CoreSet] /\ pdsSettings \in SettingsSet
  /\ pdsChannels \in 0..Cardinality(PdsChannel) /\ width \in 0..pdsChannels
  /\ heardNorm \in [PdsChannel -> Levels] /\ tonedBy \in [PdsChannel -> Levels]
  /\ sampled \in BOOLEAN

\* The drive's base is nobody's to edit.
DriveStays == /\ pdsSettings.base["drive"] = 0
              /\ \A c \in PdsChannel : pdsCores[c].base["drive"] = 0

\* Every prepared core is in step with the effect and keeps the level it heard.
CoresInStep ==
  \A c \in Prepared(pdsChannels) :
    InStep(pdsCores[c], pdsSettings) /\ pdsCores[c].lastNorm = heardNorm[c]

PdsInvariant ==
  Types /\ DriveStays /\ CoresInStep /\ ModulationIsBasePlusOffset /\ StoppedIsStatic

\* The prepared channels are channels.
LEMMA ChannelsAreCounted ==
  ASSUME PdsConstants
  PROVE  Cardinality(PdsChannel) \in Nat /\ PdsChannel \subseteq Nat
<1>1. Cardinality(PdsChannel) \in Nat
  BY FS_CardinalityType DEF PdsConstants
<1> QED BY <1>1 DEF PdsConstants

\* Nothing is modulated at first.
LEMMA InvariantBegins ==
  ASSUME PdsConstants, PdsInit
  PROVE  PdsInvariant
<1>1. FreshCore \in CoreSet /\ InStep(FreshCore, pdsSettings) /\ pdsSettings \in SettingsSet
      /\ FreshCore.base["drive"] = 0 /\ pdsSettings.base["drive"] = 0
  BY DEF PdsInit, FreshCore, Still, CoreSet, SettingsSet, InStep, PdsConstants, Levels,
         Target, Values
<1>2. Cardinality(PdsChannel) \in Nat /\ PdsChannel \subseteq Nat
  BY ChannelsAreCounted
<1>3. Types
  <2>1. pdsCores \in [PdsChannel -> CoreSet]
    BY <1>1 DEF PdsInit
  <2>2. heardNorm \in [PdsChannel -> Levels] /\ tonedBy \in [PdsChannel -> Levels]
    BY DEF PdsInit, Levels, PdsConstants
  <2>3. pdsChannels \in 0..Cardinality(PdsChannel) /\ width \in 0..pdsChannels
    BY <1>2 DEF PdsInit
  <2>4. sampled \in BOOLEAN
    BY DEF PdsInit
  <2> QED BY <1>1, <2>1, <2>2, <2>3, <2>4 DEF Types
<1>4. Prepared(pdsChannels) = {} /\ Prepared(width) = {}
  BY <1>2 DEF PdsInit, Prepared, PdsConstants
<1>5. CoresInStep /\ ModulationIsBasePlusOffset /\ StoppedIsStatic
  BY <1>4 DEF CoresInStep, ModulationIsBasePlusOffset, StoppedIsStatic
<1>6. DriveStays
  BY <1>1 DEF DriveStays, PdsInit
<1> QED BY <1>3, <1>5, <1>6 DEF PdsInvariant

\* prepare() and reset() leave the first n cores in step, silent and static.
LEMMA ClearKeeps ==
  ASSUME PdsConstants, PdsInvariant, NEW n \in 1..Cardinality(PdsChannel), ClearedCores(n)
  PROVE  PdsInvariant'
<1> DEFINE C(c) == [pdsCores[c] EXCEPT !.lastNorm = 0]
<1>0. Types /\ DriveStays /\ pdsSettings' = pdsSettings /\ pdsSettings \in SettingsSet /\ n \in Nat
      /\ Cardinality(PdsChannel) \in Nat /\ PdsChannel \subseteq Nat
  BY ChannelsAreCounted DEF PdsInvariant, ClearedCores, Types
<1>1. ASSUME NEW c \in PdsChannel, c < n
      PROVE  /\ pdsCores'[c] \in CoreSet /\ InStep(pdsCores'[c], pdsSettings)
             /\ pdsCores'[c].lastNorm = 0
             /\ pdsCores'[c].saturator["tone"] = pdsSettings.base["tone"]
  <2>1. pdsCores[c] \in CoreSet /\ pdsCores[c].base["drive"] = pdsSettings.base["drive"] /\ 0 \in Levels
    BY <1>0 DEF Types, DriveStays, Levels, PdsConstants
  <2>2. C(c) \in CoreSet /\ C(c).base = pdsCores[c].base /\ C(c).lastNorm = 0
    BY <2>1 DEF CoreSet
  <2>3. pdsCores'[c] = ApplyAll(C(c))
    BY <1>1 DEF ClearedCores, OnChannels
  <2> HIDE DEF C
  <2> QED BY <1>0, <2>1, <2>2, <2>3, AllIsApplied
<1>2. ASSUME NEW c \in PdsChannel, ~(c < n)
      PROVE  pdsCores'[c] = pdsCores[c]
  BY <1>2 DEF ClearedCores, OnChannels
<1>3. /\ DOMAIN pdsCores' = PdsChannel /\ pdsCores' = [c \in PdsChannel |-> pdsCores'[c]]
      /\ pdsChannels' = n /\ width' = 0 /\ sampled' = FALSE
      /\ heardNorm' = [c \in PdsChannel |-> IF c < n THEN 0 ELSE heardNorm[c]]
      /\ tonedBy' = [c \in PdsChannel |-> IF c < n THEN 0 ELSE tonedBy[c]]
  BY DEF ClearedCores, OnChannels
<1>4. \A c \in PdsChannel : pdsCores'[c] \in CoreSet
  BY <1>0, <1>1, <1>2 DEF Types
<1>5. Types'
  <2>1. pdsCores' \in [PdsChannel -> CoreSet]
    BY <1>3, <1>4
  <2>2. heardNorm' \in [PdsChannel -> Levels] /\ tonedBy' \in [PdsChannel -> Levels]
    BY <1>0, <1>3 DEF Types, Levels, PdsConstants
  <2>3. pdsChannels' \in 0..Cardinality(PdsChannel) /\ width' \in 0..pdsChannels'
    BY <1>0, <1>3
  <2>4. sampled' \in BOOLEAN
    BY <1>3
  <2> QED BY <1>0, <2>1, <2>2, <2>3, <2>4 DEF Types
<1>6. DriveStays'
  <2>1. ASSUME NEW c \in PdsChannel
        PROVE  pdsCores'[c].base["drive"] = 0
    <3>1. CASE c < n
      BY <1>0, <1>1, <3>1 DEF InStep, DriveStays
    <3>2. CASE ~(c < n)
      BY <1>0, <1>2, <3>2 DEF DriveStays
    <3> QED BY <3>1, <3>2
  <2> QED BY <1>0, <2>1 DEF DriveStays
<1>7. CoresInStep'
  BY <1>0, <1>1, <1>3 DEF CoresInStep, Prepared
<1>8. ModulationIsBasePlusOffset'
  <2>1. Prepared(width') = {}
    BY <1>0, <1>3 DEF Prepared
  <2> QED BY <2>1 DEF ModulationIsBasePlusOffset
<1>9. StoppedIsStatic'
  BY <1>0, <1>1, <1>3 DEF StoppedIsStatic, Prepared
<1> QED BY <1>5, <1>6, <1>7, <1>8, <1>9 DEF PdsInvariant

\* A block puts every tone where the level before it says, whatever the walk found.
LEMMA BlockKeeps ==
  ASSUME PdsConstants, PdsInvariant, StartBlock
  PROVE  PdsInvariant'
<1> PICK found \in Findings, n \in 1..pdsChannels :
      /\ pdsSettings' = ApplyPending(found).settings
      /\ pdsCores' = OnChannels(n, ApplyPending(found).cores, NewBlock)
      /\ width' = n
      /\ tonedBy' = [c \in PdsChannel |-> IF c < n THEN heardNorm[c] ELSE tonedBy[c]]
  BY DEF StartBlock
<1> DEFINE walked == ApplyPending(found).cores
<1>0. /\ Types /\ DriveStays /\ CoresInStep /\ pdsSettings \in SettingsSet
      /\ pdsChannels \in Nat /\ n \in Nat /\ n > 0 /\ n <= pdsChannels
      /\ pdsChannels' = pdsChannels /\ heardNorm' = heardNorm /\ sampled' = FALSE
      /\ PdsChannel \subseteq Nat
  BY ChannelsAreCounted DEF PdsInvariant, StartBlock, Types
<1>1. pdsSettings' = WalkedSettings(pdsSettings, found)
  BY DEF ApplyPending, WalkedSettings
<1>2. pdsSettings' \in SettingsSet
  BY <1>0, <1>1, WalkKeepsSettings
<1>3. ASSUME NEW c \in PdsChannel, c < pdsChannels
      PROVE  /\ walked[c] \in CoreSet /\ InStep(walked[c], pdsSettings')
             /\ walked[c].lastNorm = heardNorm[c]
  <2>1. walked[c] = WalkedCore(pdsCores[c], found)
    BY <1>3 DEF ApplyPending, OnChannels, WalkedCore
  <2>2. pdsCores[c] \in CoreSet /\ InStep(pdsCores[c], pdsSettings) /\ pdsCores[c].lastNorm = heardNorm[c]
    BY <1>0, <1>3 DEF Types, CoresInStep, Prepared
  <2> HIDE DEF walked
  <2> QED BY <1>0, <1>1, <2>1, <2>2, WalkKeepsStep
<1>4. ASSUME NEW c \in PdsChannel, ~(c < pdsChannels)
      PROVE  walked[c] = pdsCores[c]
  BY <1>4 DEF ApplyPending, OnChannels
<1>5. /\ pdsCores' = [c \in PdsChannel |-> pdsCores'[c]]
      /\ \A c \in PdsChannel : pdsCores'[c] = IF c < n THEN NewBlock(walked[c]) ELSE walked[c]
  BY DEF OnChannels
<1> HIDE DEF walked
<1>6. ASSUME NEW c \in PdsChannel, c < pdsChannels
      PROVE  /\ pdsCores'[c] \in CoreSet /\ InStep(pdsCores'[c], pdsSettings')
             /\ pdsCores'[c].lastNorm = heardNorm[c]
             /\ c < n => pdsCores'[c].saturator["tone"]
                           = Clamp(pdsSettings'.base["tone"] + pdsSettings'.depth["tone"] * heardNorm[c])
  <2>1. walked[c] \in CoreSet /\ InStep(walked[c], pdsSettings') /\ walked[c].lastNorm = heardNorm[c]
    BY <1>3, <1>6
  <2>2. CASE c < n
    <3>1. pdsCores'[c] = NewBlock(walked[c])
      BY <1>5, <2>2
    <3> QED BY <1>2, <2>1, <3>1, BlockIsStarted
  <2>3. CASE ~(c < n)
    BY <1>5, <2>1, <2>3
  <2> QED BY <2>2, <2>3
<1>7. ASSUME NEW c \in PdsChannel, ~(c < pdsChannels)
      PROVE  pdsCores'[c] = pdsCores[c]
  <2>1. ~(c < n)
    BY <1>0, <1>7
  <2> QED BY <1>4, <1>5, <1>7, <2>1
<1>8. Types'
  <2>1. \A c \in PdsChannel : pdsCores'[c] \in CoreSet
    BY <1>0, <1>6, <1>7 DEF Types
  <2>2. pdsCores' \in [PdsChannel -> CoreSet]
    BY <1>5, <2>1
  <2>3. tonedBy' \in [PdsChannel -> Levels]
    BY <1>0 DEF Types
  <2>4. pdsChannels' \in 0..Cardinality(PdsChannel) /\ width' \in 0..pdsChannels'
    BY <1>0, ChannelsAreCounted DEF Types
  <2>5. sampled' \in BOOLEAN /\ heardNorm' \in [PdsChannel -> Levels]
    BY <1>0 DEF Types
  <2> QED BY <1>2, <2>2, <2>3, <2>4, <2>5 DEF Types
<1>9. DriveStays'
  <2>1. pdsSettings'.base["drive"] = 0
    BY <1>0, <1>1, WalkKeepsDrive DEF DriveStays
  <2>2. ASSUME NEW c \in PdsChannel
        PROVE  pdsCores'[c].base["drive"] = 0
    <3>1. CASE c < pdsChannels
      BY <1>6, <2>1, <3>1 DEF InStep
    <3>2. CASE ~(c < pdsChannels)
      BY <1>0, <1>7, <3>2 DEF DriveStays
    <3> QED BY <3>1, <3>2
  <2> QED BY <2>1, <2>2 DEF DriveStays
<1>10. CoresInStep'
  BY <1>0, <1>6 DEF CoresInStep, Prepared
<1>11. ModulationIsBasePlusOffset'
  <2>1. ASSUME NEW c \in PdsChannel, c < n
        PROVE  pdsCores'[c].saturator["tone"] = Base("tone", tonedBy[c])'
    BY <1>0, <1>6, <2>1 DEF Base
  <2> QED BY <1>0, <2>1 DEF ModulationIsBasePlusOffset, Prepared
<1>12. StoppedIsStatic'
  BY <1>0 DEF StoppedIsStatic
<1> QED BY <1>8, <1>9, <1>10, <1>11, <1>12 DEF PdsInvariant

\* A sample: each saturator is moved by the level its own channel heard.
LEMMA SampleKeeps ==
  ASSUME PdsConstants, PdsInvariant, Sample
  PROVE  PdsInvariant'
<1> PICK norms \in Norms :
      /\ pdsCores' = [c \in PdsChannel |->
                     IF c >= width THEN pdsCores[c]
                     ELSE ProcessWithNorm(pdsCores[c], norms[c], pdsSettings.link = "perChannel" \/ c = 0)]
      /\ heardNorm' = [c \in PdsChannel |-> IF c < width THEN norms[c] ELSE heardNorm[c]]
  BY DEF Sample
<1>0. /\ Types /\ DriveStays /\ CoresInStep /\ ModulationIsBasePlusOffset
      /\ pdsSettings \in SettingsSet /\ pdsSettings' = pdsSettings
      /\ pdsChannels \in Nat /\ width \in Nat /\ width > 0 /\ width <= pdsChannels
      /\ pdsChannels' = pdsChannels /\ width' = width /\ tonedBy' = tonedBy /\ sampled' = TRUE
      /\ PdsChannel \subseteq Nat
  BY ChannelsAreCounted DEF PdsInvariant, Sample, Types
<1>1. ASSUME NEW c \in PdsChannel, c < width
      PROVE  norms[c] \in Levels
  BY <1>0, <1>1 DEF Norms, Prepared
<1>2. ASSUME NEW c \in PdsChannel, c < width
      PROVE  /\ pdsCores'[c] \in CoreSet /\ InStep(pdsCores'[c], pdsSettings)
             /\ pdsCores'[c].lastNorm = norms[c] /\ heardNorm'[c] = norms[c]
             /\ pdsCores'[c].saturator["tone"] = pdsCores[c].saturator["tone"]
             /\ pdsCores'[c].saturator["drive"] = Clamp(pdsSettings.base["drive"] + pdsSettings.depth["drive"] * norms[c])
  <2> DEFINE detects == pdsSettings.link = "perChannel" \/ c = 0
  <2>1. pdsCores[c] \in CoreSet /\ InStep(pdsCores[c], pdsSettings) /\ detects \in BOOLEAN
        /\ norms[c] \in Levels
    BY <1>0, <1>1, <1>2 DEF Types, CoresInStep, Prepared
  <2>2. pdsCores'[c] = ProcessWithNorm(pdsCores[c], norms[c], detects) /\ heardNorm'[c] = norms[c]
    BY <1>0, <1>2
  <2> HIDE DEF detects
  <2> QED BY <1>0, <2>1, <2>2, SampleIsHeard
<1>3. ASSUME NEW c \in PdsChannel, ~(c < width)
      PROVE  pdsCores'[c] = pdsCores[c] /\ heardNorm'[c] = heardNorm[c]
  BY <1>0, <1>3
<1>4. Types'
  <2>1. \A c \in PdsChannel : pdsCores'[c] \in CoreSet
    BY <1>0, <1>2, <1>3 DEF Types
  <2>2. pdsCores' \in [PdsChannel -> CoreSet]
    BY <2>1
  <2>3. \A c \in PdsChannel : heardNorm'[c] \in Levels
    BY <1>0, <1>1, <1>2, <1>3 DEF Types
  <2>4. heardNorm' \in [PdsChannel -> Levels]
    BY <2>3
  <2> QED BY <1>0, <2>2, <2>4 DEF Types
<1>5. DriveStays'
  <2>1. ASSUME NEW c \in PdsChannel
        PROVE  pdsCores'[c].base["drive"] = 0
    BY <1>0, <1>2, <1>3 DEF InStep, DriveStays
  <2> QED BY <1>0, <2>1 DEF DriveStays
<1>6. CoresInStep'
  <2>1. ASSUME NEW c \in PdsChannel, c < pdsChannels
        PROVE  InStep(pdsCores'[c], pdsSettings) /\ pdsCores'[c].lastNorm = heardNorm'[c]
    BY <1>0, <1>2, <1>3, <2>1 DEF CoresInStep, Prepared
  <2> QED BY <1>0, <2>1 DEF CoresInStep, Prepared
<1>7. ModulationIsBasePlusOffset'
  <2>1. ASSUME NEW c \in PdsChannel, c < width
        PROVE  /\ pdsCores'[c].saturator["tone"] = Base("tone", tonedBy[c])
               /\ pdsCores'[c].saturator["drive"] = Base("drive", heardNorm'[c])
    <3>1. pdsCores[c].saturator["tone"] = Base("tone", tonedBy[c])
      BY <1>0, <2>1 DEF ModulationIsBasePlusOffset, Prepared
    <3> QED BY <1>2, <2>1, <3>1 DEF Base
  <2> QED BY <1>0, <2>1 DEF ModulationIsBasePlusOffset, Prepared, Base
<1>8. StoppedIsStatic'
  BY <1>0 DEF StoppedIsStatic
<1> QED BY <1>4, <1>5, <1>6, <1>7, <1>8 DEF PdsInvariant

\* Every step keeps the invariant.
LEMMA PdsStepKeeps ==
  ASSUME PdsConstants, PdsInvariant, [PdsNext]_pdsVars
  PROVE  PdsInvariant'
<1>1. CASE PreparePds
  BY <1>1, ClearKeeps DEF PreparePds
<1>2. CASE ResetPds
  <2>1. pdsChannels \in 1..Cardinality(PdsChannel)
    BY <1>2, ChannelsAreCounted DEF ResetPds, PdsInvariant, Types
  <2> QED BY <1>2, <2>1, ClearKeeps DEF ResetPds
<1>3. CASE StartBlock
  BY <1>3, BlockKeeps
<1>4. CASE Sample
  BY <1>4, SampleKeeps
<1>5. CASE UNCHANGED pdsVars
  BY <1>5 DEF pdsVars, PdsInvariant, Types, DriveStays, CoresInStep, ModulationIsBasePlusOffset,
              StoppedIsStatic, Base
<1> QED BY <1>1, <1>2, <1>3, <1>4, <1>5 DEF PdsNext

\* The inductive invariant holds in every reachable state.
LEMMA PdsInvariantHolds ==
  ASSUME PdsConstants
  PROVE  PdsSpec => []PdsInvariant
<1>1. PdsInit => PdsInvariant
  BY InvariantBegins
<1>2. PdsInvariant /\ [PdsNext]_pdsVars => PdsInvariant'
  BY PdsStepKeeps
<1> QED BY <1>1, <1>2, PTL DEF PdsSpec

-----------------------------------------------------------------------------
(* Its theorems                                                            *)

\* The types that a run checks are among the invariant's.
LEMMA PdsShows == PdsInvariant => PdsTypeOK
BY DEF PdsInvariant, PdsTypeOK, Types, CoreSet

\* No saturator leaves the window of levels, and no buffer is wider than what
\* was prepared, whatever is edited, preset, prepared, reset and played.
THEOREM PdsTypeCorrect ==
  ASSUME PdsConstants
  PROVE  PdsSpec => []PdsTypeOK
<1> QED BY PdsShows, PdsInvariantHolds, PTL

\* FR-007 and SC-003 of process() (ModulationIsBasePlusOffset), for any number of
\* channels and any edits found by a walk: each saturator of the buffer works
\* with its base plus the depth times the level its channel heard.
THEOREM ModulationIsKept ==
  ASSUME PdsConstants
  PROVE  PdsSpec => []ModulationIsBasePlusOffset
<1>1. PdsInvariant => ModulationIsBasePlusOffset
  BY DEF PdsInvariant
<1> QED BY <1>1, PdsInvariantHolds, PTL

\* Nothing that was moved is left in a saturator's tone when prepare() or reset()
\* has stopped the effect.
THEOREM StoppedStaysStatic ==
  ASSUME PdsConstants
  PROVE  PdsSpec => []StoppedIsStatic
<1>1. PdsInvariant => StoppedIsStatic
  BY DEF PdsInvariant
<1> QED BY <1>1, PdsInvariantHolds, PTL

-----------------------------------------------------------------------------
(* The effects in one run                                                  *)

\* Every effect keeps its invariant, the one that runs and those that stand still.
EffectsInv ==
  /\ CompressorInv /\ SaturationInv /\ TapeInv /\ DelayInv /\ FollowerInv /\ CurveInv
  /\ PdsInvariant

\* What the run assumes of the constants.
LEMMA EffectsConstants ==
  SaturationConstants /\ TapeConstants /\ DelayConstants /\ DynamicsConstants /\ PdsConstants
BY EffectsAssumption

\* Every effect begins in its invariant, those that stand still included.
LEMMA EffectsStart == EffectsInit => EffectsInv
<1> SUFFICES ASSUME EffectsInit PROVE EffectsInv
  OBVIOUS
<1>1. SaturationInit /\ TapeInit /\ Init /\ DelayInit /\ FollowerInit /\ CurveInit /\ PdsInit
  BY DEF EffectsInit
<1>2. CompressorInv
  BY <1>1, InitCompressor
<1>3. SaturationInv
  BY <1>1, EffectsConstants, SaturationStarts
<1>4. TapeInv
  BY <1>1, EffectsConstants, TapeStarts
<1>5. DelayInv
  BY <1>1, EffectsConstants, InitDelay
<1>6. FollowerInv
  BY <1>1, EffectsConstants, FollowerStarts
<1>7. CurveInv
  BY <1>1, EffectsConstants, CurveStarts
<1>8. PdsInvariant
  BY <1>1, EffectsConstants, InvariantBegins
<1> QED
  BY <1>2, <1>3, <1>4, <1>5, <1>6, <1>7, <1>8 DEF EffectsInv

\* A step of the run is a step of the effect that runs, and leaves the others alone.
LEMMA EachEffectSteps ==
  ASSUME [EffectsNext]_effectsVars
  PROVE  /\ [Next]_vars /\ [SaturationNext]_saturationVars /\ [TapeNext]_tapeVars
         /\ [DelayNext]_delayVars /\ [FollowerNext]_followerVars /\ [AskNext]_curveVars
         /\ [PdsNext]_pdsVars
<1>1. CASE EffectsNext
  BY <1>1, Zenon DEF EffectsNext
<1>2. CASE UNCHANGED effectsVars
  BY <1>2, Zenon DEF effectsVars
<1> QED
  BY <1>1, <1>2

\* Every step of the run keeps every effect's invariant.
LEMMA EffectsStep ==
  ASSUME EffectsInv, [EffectsNext]_effectsVars
  PROVE  EffectsInv'
<1>1. /\ CompressorInv /\ SaturationInv /\ TapeInv /\ DelayInv /\ FollowerInv /\ CurveInv
      /\ PdsInvariant
  BY DEF EffectsInv
<1>2. CompressorInv'
  BY <1>1, EachEffectSteps, NextCompressor
<1>3. SaturationInv'
  BY <1>1, EachEffectSteps, EffectsConstants, SaturationKept
<1>4. TapeInv'
  BY <1>1, EachEffectSteps, EffectsConstants, TapeKept
<1>5. DelayInv'
  BY <1>1, EachEffectSteps, EffectsConstants, NextDelay
<1>6. FollowerInv'
  BY <1>1, EachEffectSteps, EffectsConstants, FollowerKept
<1>7. CurveInv'
  BY <1>1, EachEffectSteps, EffectsConstants, CurveKept
<1>8. PdsInvariant'
  BY <1>1, EachEffectSteps, EffectsConstants, PdsStepKeeps
<1> QED
  BY <1>2, <1>3, <1>4, <1>5, <1>6, <1>7, <1>8 DEF EffectsInv

\* Whichever effect runs, and however it is driven, every effect's inductive
\* invariant holds.
THEOREM EffectsInductive == EffectsSpec => []EffectsInv
<1>1. EffectsInv /\ [EffectsNext]_effectsVars => EffectsInv'
  BY EffectsStep
<1> QED
  BY <1>1, EffectsStart, PTL DEF EffectsSpec

\* Types and ranges of all the effects, for every cascade, every capacity of the
\* lines, and any number of channels, voicings, values, rates and hold times.
THEOREM EffectsTypeCorrect == EffectsSpec => []EffectsTypeOK
<1>1. EffectsInv => EffectsTypeOK
  <2> SUFFICES ASSUME EffectsInv PROVE EffectsTypeOK
    OBVIOUS
  <2>1. TypeOK /\ PdsTypeOK
    BY CompressorShows, PdsShows DEF EffectsInv
  <2>2. SaturationTypeOK
    BY EffectsConstants, SaturationShows DEF EffectsInv
  <2>3. TapeTypeOK
    BY EffectsConstants, TapeShows DEF EffectsInv
  <2>4. DelayTypeOK
    BY EffectsConstants, DelayShows DEF EffectsInv
  <2>5. DynamicsTypeOK
    <3>1. FollowerTypes /\ EnvelopeWasHeard
      BY DEF EffectsInv, FollowerInv, FollowerLevels
    <3>2. distance \in (0 - Reach)..Reach
      BY DEF EffectsInv, CurveInv
    <3>3. Top \in Nat /\ heard \in 0..Top
      BY <3>1, EffectsConstants DEF FollowerTypes, DynamicsConstants
    <3>4. {env, y1, meanSquare, heldPeak, heard} \subseteq 0..Top
      BY <3>1, <3>3 DEF EnvelopeWasHeard
    <3> QED
      BY <3>1, <3>2, <3>4 DEF DynamicsTypeOK, FollowerTypes
  <2> QED
    BY <2>1, <2>2, <2>3, <2>4, <2>5 DEF EffectsTypeOK
<1> QED
  BY <1>1, EffectsInductive, PTL

\* How late a signal is is known in every effect that delays one: the two terms
\* of a dry/wet mix are of the same input sample in every tier and at every
\* oversampling factor (saturation-core.h, tape-dynamics-core.h), and an echo is
\* of the sample that was asked for at every divisor (modulated-delay-core.h).
THEOREM LatenessStaysKnown == EffectsSpec => []LatenessIsKnown
<1>1. EffectsInv => LatenessIsKnown
  <2> SUFFICES ASSUME EffectsInv PROVE LatenessIsKnown
    OBVIOUS
  <2>1. DryWetOffsetIsKnown /\ TapeAligned /\ DelayIsHonoured /\ RateChangeKeepsEcho
    BY DEF EffectsInv, SaturationInv, TapeInv, DelayInv
  <2>2. HeldIsFresh
    BY EffectsConstants, DelayShows DEF EffectsInv
  <2> QED
    BY <2>1, <2>2 DEF LatenessIsKnown
<1> QED
  BY <1>1, EffectsInductive, PTL

\* FR-021 of the compressor, in the run of all the effects.
THEOREM LatencyStaysDelay == EffectsSpec => []LatencyIsDelay
<1>1. EffectsInv => LatencyIsDelay
  BY DEF EffectsInv, CompressorInv
<1> QED
  BY <1>1, EffectsInductive, PTL

\* No memory that stood still, and none of another setting, is heard in any of
\* the effects: after a reset, a switch of the tape's core, a change of voicing,
\* of the link or of the wow depth, and when the level detector is switched.
THEOREM NothingGoesStale == EffectsSpec => []NothingStale
<1>1. EffectsInv => NothingStale
  <2> SUFFICES ASSUME EffectsInv PROVE NothingStale
    OBVIOUS
  <2>1. OneAntiderivative /\ LinkedDetectorHears /\ TapeHearsCurrent /\ EnvelopeWasHeard
        /\ StoppedIsStatic
    BY DEF EffectsInv, SaturationInv, CompressorInv, DelayInv, FollowerInv, FollowerLevels,
           PdsInvariant
  <2>2. ResetIsSilent
    BY EffectsConstants, SaturationShows DEF EffectsInv
  <2>3. SwitchStartsClean
    BY EffectsConstants, TapeShows DEF EffectsInv
  <2> QED
    BY <2>1, <2>2, <2>3 DEF NothingStale
<1> QED
  BY <1>1, EffectsInductive, PTL

\* A parameter reaches everything that must act with it, in every effect: each of
\* the tape's cores, the delay's filter through a restart, the hold of the
\* follower, the curve of the gain computer, and each saturator that is modulated.
THEOREM ParametersReachAll == EffectsSpec => []ParametersReach
<1>1. EffectsInv => ParametersReach
  <2> SUFFICES ASSUME EffectsInv PROVE ParametersReach
    OBVIOUS
  <2>1. CoresAgree /\ FilterKeepsValue /\ ModulationIsBasePlusOffset
    BY DEF EffectsInv, TapeInv, DelayInv, PdsInvariant
  <2>2. PeakIsHeld
    BY HoldShows DEF EffectsInv, FollowerInv
  <2>3. CurveIsAsDefined
    BY EffectsConstants, CurveShows DEF EffectsInv
  <2> QED
    BY <2>1, <2>2, <2>3 DEF ParametersReach
<1> QED
  BY <1>1, EffectsInductive, PTL
=============================================================================
