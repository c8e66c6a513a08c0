---------------------------- MODULE Rings_proofs ----------------------------
(***************************************************************************)
(* Theorems of the two ring buffers, and of a stream through two of them.  *)
(*                                                                         *)
(* What AudioRing guarantees holds for every capacity, every startup fill, *)
(* every frame set and requests of every bounded length.  TypeOK is        *)
(* inductive as it stands; the watermark and promotion invariants are      *)
(* inductive relative to it and to each other.                             *)
(*                                                                         *)
(* What CaptureProbe guarantees holds for every capacity, every set of     *)
(* block and window lengths, every number of attempts and however the two  *)
(* threads interleave.  Its invariant has five parts: the producer's       *)
(* position, the contents of the slots behind it, the reader's place, the  *)
(* accounts, and what a window under construction may hold.  Only the last *)
(* one needs the copies in program order.                                  *)
(*                                                                         *)
(* What the host hears of a stream is what it sent, for every capacity of  *)
(* the rings, every size of block, packet and FIFO, every startup fill,    *)
(* payloads torn anywhere in a frame and any number of bytes accepted by   *)
(* the IN FIFO.  The four parts of StreamIsFaithful are not inductive:     *)
(* they speak of frames, and a step moves bytes.  StreamInv adds that the  *)
(* bytes of both FIFOs stand in whole frames from their first byte on,     *)
(* where the one torn frame may stand, and that what the rings hold and    *)
(* what was heard is one rising sequence with the frames on their way.     *)
(***************************************************************************)
EXTENDS MCRings, SequenceTheorems, TLAPS

-----------------------------------------------------------------------------
(* Slot arithmetic                                                         *)

\* advance() returns a slot as long as it is handed less than two laps, which
\* is all any caller hands it: a slot plus at most one capacity.
LEMMA AdvanceInSlot ==
  ASSUME NEW index \in Slot, NEW delta \in 0..Capacity
  PROVE  Advance(index, delta) \in Slot
BY CapacityAssumption DEF Slot, Advance

\* Advancing in two legs is advancing once: what lets a write that first
\* evicts and then appends be read as one queue operation.
LEMMA AdvanceAdd ==
  ASSUME NEW index \in Slot, NEW m \in 0..Capacity, NEW n \in 0..Capacity,
         m + n <= Capacity
  PROVE  Advance(Advance(index, m), n) = Advance(index, m + n)
BY CapacityAssumption DEF Slot, Advance

\* Distance inverts advance() on the slots.
LEMMA DistanceAdvance ==
  ASSUME NEW index \in Slot, NEW delta \in 0..Capacity-1
  PROVE  /\ Distance(index, Advance(index, delta)) = delta
         /\ Advance(index, delta) \in Slot
BY CapacityAssumption DEF Slot, Advance, Distance

\* A walk from a slot counts its steps from 0 and meets no slot twice.
LEMMA DistanceRange ==
  ASSUME NEW i \in Slot, NEW j \in Slot
  PROVE  Distance(i, j) \in 0..Capacity-1
BY CapacityAssumption DEF Slot, Distance

\* The sizes a write computes: what it evicts is held, what it accepts fits.
LEMMA WriteSizes ==
  ASSUME NEW incoming \in Nat, count \in 0..Capacity
  PROVE  /\ SrcOffset(incoming) \in 0..incoming
         /\ DropFromRing(incoming) \in 0..count
         /\ count - DropFromRing(incoming) + Lesser(incoming, Capacity) \in 0..Capacity
         /\ Lesser(incoming, Capacity) \in 0..Capacity
         /\ SrcOffset(incoming) + Lesser(incoming, Capacity) = incoming
         /\ Positive(count + incoming - Capacity) =
              SrcOffset(incoming) + DropFromRing(incoming)
BY CapacityAssumption DEF SrcOffset, DropFromRing, Positive, Lesser

LEMMA BatchType ==
  ASSUME NEW src \in Batch
  PROVE  /\ Len(src) \in 0..MaxRequest
         /\ src \in Seq(Frame)
         /\ \A i \in 1..Len(src) : src[i] \in Frame
<1>1. PICK n \in 0..MaxRequest : src \in [1..n -> Frame]
  BY DEF Batch
<1>2. n \in Nat
  BY CapacityAssumption
<1>3. src \in Seq(Frame) /\ Len(src) = n
  BY <1>1, <1>2
<1> QED
  BY <1>1, <1>3

-----------------------------------------------------------------------------
(* Type correctness                                                        *)

LEMMA WriteTypeOK ==
  ASSUME TypeOK, NEW src \in Batch, Write(src)
  PROVE  TypeOK'
<1> DEFINE incoming == Len(src)
           evicted  == DropFromRing(incoming)
           oldest   == Advance(tail, evicted)
           first    == Advance(oldest, count - evicted)
<1>1. incoming \in Nat /\ \A i \in 1..incoming : src[i] \in Frame
  BY BatchType, CapacityAssumption
<1>2. count \in 0..Capacity /\ tail \in Slot
  BY DEF TypeOK
<1>3. /\ evicted \in 0..count
      /\ count' \in 0..Capacity
      /\ SrcOffset(incoming) \in 0..incoming
      /\ Lesser(incoming, Capacity) \in 0..Capacity
      /\ SrcOffset(incoming) + Lesser(incoming, Capacity) = incoming
  BY <1>1, <1>2, WriteSizes DEF Write
<1>4. oldest \in Slot /\ first \in Slot
  BY <1>2, <1>3, AdvanceInSlot, CapacityAssumption
<1>5. storage' \in [Slot -> Content]
  <2>1. ASSUME NEW s \in Slot
        PROVE  (IF Distance(first, s) < Lesser(incoming, Capacity)
                  THEN src[SrcOffset(incoming) + Distance(first, s) + 1]
                  ELSE storage[s]) \in Content
    <3>1. CASE Distance(first, s) < Lesser(incoming, Capacity)
      <4> HIDE DEF incoming, evicted, oldest, first
      <4>1. Distance(first, s) \in 0..Capacity-1
        BY <1>4, DistanceRange
      <4>2. SrcOffset(incoming) + Distance(first, s) + 1 \in 1..incoming
        BY <3>1, <4>1, <1>1, <1>3, CapacityAssumption
      <4> QED
        BY <3>1, <4>2, <1>1 DEF Content
    <3>2. CASE ~(Distance(first, s) < Lesser(incoming, Capacity))
      BY <3>2 DEF TypeOK
    <3> QED
      BY <3>1, <3>2
  <2> QED
    BY <2>1 DEF Write
<1>6. tail' \in Slot
  BY <1>4 DEF Write
<1>7. state' \in RingState /\ startupFill' \in 0..Capacity
  BY DEF TypeOK, Write, Promoted, RingState
<1>8. /\ occupancyMin' \in 0..Capacity
      /\ occupancyMax' \in 0..Capacity
      /\ watermarksObserved' \in BOOLEAN
      /\ seen' \subseteq 0..Capacity
  BY <1>3 DEF TypeOK, Write, ObserveOccupancy, Lesser, Greater
<1> QED
  BY <1>3, <1>5, <1>6, <1>7, <1>8 DEF TypeOK

LEMMA ReadTypeOK ==
  ASSUME TypeOK, NEW frames \in -1..MaxRequest, Read(frames)
  PROVE  TypeOK'
<1>1. Lesser(count, Positive(frames)) \in 0..count /\ count \in 0..Capacity
  BY CapacityAssumption DEF TypeOK, Lesser, Positive
<1>2. tail' \in Slot /\ count' \in 0..Capacity
  BY <1>1, AdvanceInSlot, CapacityAssumption DEF Read, TypeOK
<1>3. /\ occupancyMin' \in 0..Capacity
      /\ occupancyMax' \in 0..Capacity
      /\ watermarksObserved' \in BOOLEAN
      /\ seen' \subseteq 0..Capacity
  BY <1>2 DEF TypeOK, Read, ObserveOccupancy, Lesser, Greater
<1> QED
  BY <1>2, <1>3 DEF TypeOK, Read

LEMMA ClearTypeOK ==
  ASSUME TypeOK, NEW next \in RingState, Clear(next)
  PROVE  TypeOK'
<1>1. storage' \in [Slot -> Content]
  BY DEF Clear, Content
<1>2. 0 \in Slot /\ 0 \in 0..Capacity
  BY CapacityAssumption DEF Slot
<1> QED
  BY <1>1, <1>2 DEF TypeOK, Clear

LEMMA TypesBegin == Init => TypeOK
<1>1. ASSUME Init PROVE storage \in [Slot -> Content]
  BY <1>1 DEF Init, Content
<1>2. 0 \in Slot /\ 0 \in 0..Capacity
  BY CapacityAssumption DEF Slot
<1> QED
  BY <1>1, <1>2 DEF Init, TypeOK, RingState

LEMMA TypesKept == TypeOK /\ [Next]_vars => TypeOK'
<1> SUFFICES ASSUME TypeOK, [Next]_vars
             PROVE  TypeOK'
  OBVIOUS
<1>1. ASSUME NEW src \in Batch, Write(src) PROVE TypeOK'
  BY <1>1, WriteTypeOK
<1>2. ASSUME NEW frames \in -1..MaxRequest, Read(frames) PROVE TypeOK'
  BY <1>2, ReadTypeOK
<1>3. CASE Reset
  BY <1>3, ClearTypeOK DEF Reset, RingState
<1>4. CASE Stop
  BY <1>4, ClearTypeOK DEF Stop, RingState
<1>5. CASE UNCHANGED vars
  BY <1>5 DEF TypeOK, vars, marks
<1> QED
  BY <1>1, <1>2, <1>3, <1>4, <1>5 DEF Next

\* Every field of the ring stays in its range, for every capacity.
THEOREM TypeCorrect == Spec => []TypeOK
BY TypesBegin, TypesKept, PTL DEF Spec

-----------------------------------------------------------------------------
(* Watermarks and promotion                                                *)

\* A ring nobody touched since it was emptied is empty, and its marks read 0.
UntouchedIsEmpty == ~watermarksObserved => count = 0 /\ occupancyMax = 0

\* The inductive invariant: promotion speaks about the high watermark, whose
\* meaning WatermarksExact fixes, and a read of an untouched ring needs
\* UntouchedIsEmpty to know that it observes 0.
RingInv == TypeOK /\ WatermarksExact /\ PromotionExact /\ UntouchedIsEmpty

LEMMA ObserveExact ==
  ASSUME TypeOK, WatermarksExact, TypeOK', ObserveOccupancy(count')
  PROVE  WatermarksExact' /\ UntouchedIsEmpty'
<1>1. count' \in seen' /\ seen' # {} /\ watermarksObserved'
  BY DEF ObserveOccupancy
<1>2. CASE watermarksObserved
  <2>1. /\ occupancyMin \in seen /\ occupancyMax \in seen
        /\ \A n \in seen : occupancyMin <= n /\ n <= occupancyMax
    BY <1>2 DEF WatermarksExact
  <2>2. occupancyMin' \in seen' /\ occupancyMax' \in seen'
    BY <1>2, <2>1 DEF ObserveOccupancy, Lesser, Greater
  <2>3. \A n \in seen' : occupancyMin' <= n /\ n <= occupancyMax'
    BY <1>2, <2>1 DEF ObserveOccupancy, Lesser, Greater, TypeOK
  <2> QED
    BY <1>1, <2>2, <2>3 DEF WatermarksExact, UntouchedIsEmpty
<1>3. CASE ~watermarksObserved
  <2>1. seen' = {count'} /\ occupancyMin' = count' /\ occupancyMax' = count'
    BY <1>3 DEF WatermarksExact, ObserveOccupancy
  <2> QED
    BY <1>1, <2>1 DEF WatermarksExact, UntouchedIsEmpty, TypeOK
<1> QED
  BY <1>2, <1>3 DEF TypeOK

LEMMA WritePromotion ==
  ASSUME RingInv, NEW src \in Batch, Write(src), TypeOK'
  PROVE  PromotionExact'
<1>1. /\ occupancyMax' \in Int /\ occupancyMax \in Int /\ startupFill \in Int
      /\ count' \in Int /\ startupFill' = startupFill /\ count' >= 0
  BY CapacityAssumption DEF RingInv, TypeOK, Write
<1>2. watermarksObserved' /\ occupancyMax' >= count'
  BY <1>1 DEF Write, ObserveOccupancy, Greater
<1>3. watermarksObserved => occupancyMax' >= occupancyMax
  BY <1>1 DEF Write, ObserveOccupancy, Greater
<1>4. occupancyMax' = count' \/ (watermarksObserved /\ occupancyMax' = occupancyMax)
  BY <1>1 DEF Write, ObserveOccupancy, Greater
<1>5. state' = Promoted(state, count', startupFill)
  BY DEF Write
<1>6. state' = "Running" => watermarksObserved' /\ occupancyMax' >= startupFill'
  BY <1>1, <1>2, <1>3, <1>5 DEF Promoted, RingInv, PromotionExact
<1>7. state' = "Priming" /\ startupFill' > 0 => occupancyMax' < startupFill'
  BY <1>1, <1>4, <1>5 DEF Promoted, RingInv, PromotionExact
<1> QED
  BY <1>6, <1>7 DEF PromotionExact

LEMMA ReadPromotion ==
  ASSUME RingInv, NEW frames \in -1..MaxRequest, Read(frames), TypeOK'
  PROVE  PromotionExact'
<1>1. /\ occupancyMax \in Int /\ startupFill \in Int /\ count \in Int
      /\ count' \in Int /\ startupFill' = startupFill /\ state' = state
      /\ count' <= count
  BY CapacityAssumption DEF RingInv, TypeOK, Read, Lesser, Positive
<1>2. watermarksObserved => count <= occupancyMax
  BY DEF RingInv, WatermarksExact
<1>3. watermarksObserved => occupancyMax' = occupancyMax
  BY <1>1, <1>2 DEF Read, ObserveOccupancy, Greater
<1>4. ~watermarksObserved => occupancyMax' = 0 /\ occupancyMax = 0
  BY <1>1, CapacityAssumption DEF RingInv, UntouchedIsEmpty, Read, ObserveOccupancy, TypeOK
<1>5. watermarksObserved'
  BY DEF Read, ObserveOccupancy
<1> QED
  BY <1>1, <1>3, <1>4, <1>5 DEF RingInv, TypeOK, PromotionExact

LEMMA ClearInv ==
  ASSUME NEW next \in {"Priming", "Stopped"}, Clear(next), TypeOK'
  PROVE  RingInv'
BY DEF Clear, RingInv, WatermarksExact, PromotionExact, UntouchedIsEmpty, TypeOK

LEMMA RingInvariant == Spec => []RingInv
<1>1. Init => RingInv
  <2> SUFFICES ASSUME Init PROVE RingInv
    OBVIOUS
  <2>1. TypeOK
    <3>1. storage \in [Slot -> Content]
      BY DEF Init, Content
    <3>2. 0 \in Slot /\ 0 \in 0..Capacity
      BY CapacityAssumption DEF Slot
    <3> QED
      BY <3>1, <3>2 DEF Init, TypeOK, RingState
  <2>2. WatermarksExact /\ PromotionExact /\ UntouchedIsEmpty
    BY DEF Init, WatermarksExact, PromotionExact, UntouchedIsEmpty
  <2> QED
    BY <2>1, <2>2 DEF RingInv
<1>2. RingInv /\ TypeOK' /\ [Next]_vars => RingInv'
  <2> SUFFICES ASSUME RingInv, TypeOK', [Next]_vars
               PROVE  RingInv'
    OBVIOUS
  <2>1. ASSUME NEW src \in Batch, Write(src) PROVE RingInv'
    <3>1. ObserveOccupancy(count')
      BY <2>1 DEF Write
    <3> QED
      BY <2>1, <3>1, ObserveExact, WritePromotion DEF RingInv
  <2>2. ASSUME NEW frames \in -1..MaxRequest, Read(frames) PROVE RingInv'
    <3>1. ObserveOccupancy(count')
      BY <2>2 DEF Read
    <3> QED
      BY <2>2, <3>1, ObserveExact, ReadPromotion DEF RingInv
  <2>3. CASE Reset
    BY <2>3, ClearInv DEF Reset
  <2>4. CASE Stop
    BY <2>4, ClearInv DEF Stop
  <2>5. CASE UNCHANGED vars
    BY <2>5 DEF RingInv, TypeOK, WatermarksExact, PromotionExact,
                UntouchedIsEmpty, vars, marks
  <2> QED
    BY <2>1, <2>2, <2>3, <2>4, <2>5 DEF Next
<1> QED
  BY <1>1, <1>2, TypeCorrect, PTL DEF Spec

\* The watermarks are the true extremes since the ring was emptied.
THEOREM WatermarksAreExact == Spec => []WatermarksExact
<1>1. RingInv => WatermarksExact
  BY DEF RingInv
<1> QED
  BY <1>1, RingInvariant, PTL

\* Running and Priming tell whether the startup fill was ever reached.
THEOREM PromotionIsExact == Spec => []PromotionExact
<1>1. RingInv => PromotionExact
  BY DEF RingInv
<1> QED
  BY <1>1, RingInvariant, PTL

\* All that a ring reports of its past is what happened.
THEOREM ReportsAreExact == Spec => []RingIsExact
<1>1. RingInv => RingIsExact
  BY DEF RingInv, RingIsExact
<1> QED
  BY <1>1, RingInvariant, PTL

\* A Running ring stays Running, dry or not, until it is emptied.
THEOREM RunningUntilEmptied == Spec => OnlyEmptyingLeavesRunning
<1>1. [Next]_vars =>
        [state = "Running" /\ state' # "Running" => count' = 0 /\ seen' = {}]_vars
  BY DEF Next, Write, Read, Reset, Stop, Clear, Promoted, vars, marks
<1> QED
  BY <1>1, PTL DEF Spec, OnlyEmptyingLeavesRunning

-----------------------------------------------------------------------------
(* The ring implements the contract                                        *)

LEMMA SeqExtensional ==
  ASSUME NEW S, NEW s \in Seq(S), NEW t \in Seq(S), Len(s) = Len(t),
         \A i \in 1..Len(s) : s[i] = t[i]
  PROVE  s = t
OBVIOUS

LEMMA SeqAsFunction ==
  ASSUME NEW S, NEW s \in Seq(S)
  PROVE  s = [i \in 1..Len(s) |-> s[i]]
OBVIOUS

\* A slot d frames into the held ones lies behind every slot a write fills.
LEMMA DistanceBehind ==
  ASSUME NEW index \in Slot, NEW kept \in 0..Capacity, NEW d \in 0..kept-1
  PROVE  Distance(Advance(index, kept), Advance(index, d)) = Capacity - kept + d
BY CapacityAssumption DEF Slot, Advance, Distance

LEMMA HeldIsSeq ==
  ASSUME TypeOK
  PROVE  /\ Held \in Seq(Content)
         /\ Len(Held) = count
         /\ \A i \in 1..count : Held[i] = storage[Advance(tail, i - 1)]
<1>1. count \in Nat /\ count <= Capacity /\ tail \in Slot /\ storage \in [Slot -> Content]
  BY CapacityAssumption DEF TypeOK
<1>2. ASSUME NEW i \in 1..count PROVE storage[Advance(tail, i - 1)] \in Content
  <2>1. i - 1 \in 0..Capacity
    BY <1>1, CapacityAssumption
  <2>2. Advance(tail, i - 1) \in Slot
    BY <1>1, <2>1, AdvanceInSlot
  <2> QED
    BY <1>1, <2>2
<1>3. Held \in [1..count -> Content]
  BY <1>2 DEF Held
<1> QED
  BY <1>1, <1>3 DEF Held

\* A write leaves the newest Capacity of the frames held and written.
LEMMA WriteHeld ==
  ASSUME TypeOK, TypeOK', NEW src \in Batch, Write(src)
  PROVE  /\ Held' = Contract!Newest(Held \o src)
         /\ Len(Held') = count'
<1> DEFINE incoming == Len(src)
           accepted == Lesser(incoming, Capacity)
           evicted  == DropFromRing(incoming)
           offset   == SrcOffset(incoming)
           kept     == count - evicted
           oldest   == Advance(tail, evicted)
           first    == Advance(oldest, kept)
           all      == Held \o src
<1>1. /\ incoming \in Nat /\ src \in Seq(Frame)
      /\ count \in Nat /\ count <= Capacity /\ tail \in Slot
      /\ Capacity \in Nat /\ Capacity > 0
  BY BatchType, CapacityAssumption DEF TypeOK
<1>2. /\ offset \in Nat /\ evicted \in Nat /\ evicted <= count /\ accepted \in Nat
      /\ kept + accepted <= Capacity
      /\ offset + accepted = incoming
      /\ Positive(count + incoming - Capacity) = offset + evicted
      /\ kept \in Nat /\ kept <= Capacity
      /\ kept > 0 => offset = 0
  <2> HIDE DEF incoming
  <2>1. count \in 0..Capacity
    BY <1>1
  <2>2. /\ offset \in Nat /\ evicted \in Nat /\ evicted <= count
        /\ accepted \in Nat /\ kept + accepted <= Capacity
        /\ offset + accepted = incoming
        /\ Positive(count + incoming - Capacity) = offset + evicted
    <3>1. /\ SrcOffset(incoming) \in 0..incoming
          /\ DropFromRing(incoming) \in 0..count
          /\ count - DropFromRing(incoming) + Lesser(incoming, Capacity) \in 0..Capacity
          /\ Lesser(incoming, Capacity) \in 0..Capacity
          /\ SrcOffset(incoming) + Lesser(incoming, Capacity) = incoming
          /\ Positive(count + incoming - Capacity) =
               SrcOffset(incoming) + DropFromRing(incoming)
      BY <1>1, <2>1, WriteSizes
    <3> QED
      BY <1>1, <3>1
  <2>3. kept > 0 => offset = 0
    BY <1>1 DEF Lesser, DropFromRing, SrcOffset, Positive
  <2> QED
    BY <1>1, <2>2, <2>3
<1>3. count' = kept + accepted /\ tail' = oldest /\ oldest \in Slot
  <2>1. evicted \in 0..Capacity
    BY <1>1, <1>2
  <2> QED
    BY <1>1, <2>1, AdvanceInSlot DEF Write
<1>4. /\ Held \in Seq(Content) /\ Len(Held) = count
      /\ \A i \in 1..count : Held[i] = storage[Advance(tail, i - 1)]
  BY HeldIsSeq
<1>5. /\ Len(Held') = count' /\ Held' \in Seq(Content)
      /\ \A i \in 1..count' : Held'[i] = storage'[Advance(oldest, i - 1)]
  <2>1. (TypeOK => /\ Held \in Seq(Content) /\ Len(Held) = count
                   /\ \A i \in 1..count : Held[i] = storage[Advance(tail, i - 1)])'
    BY HeldIsSeq, PTL
  <2>2. \A i \in 1..count' : Advance(tail', i - 1) = Advance(oldest, i - 1)
    BY <1>3
  <2> QED
    BY <2>1, <2>2
<1>6. /\ all \in Seq(Content) /\ Len(all) = count + incoming
      /\ \A i \in 1..count + incoming :
           all[i] = IF i <= count THEN Held[i] ELSE src[i - count]
  BY <1>1, <1>4 DEF Content
<1>7. storage' = [s \in Slot |->
                    IF Distance(first, s) < accepted
                      THEN src[offset + Distance(first, s) + 1]
                      ELSE storage[s]]
  BY DEF Write
<1> HIDE DEF incoming, accepted, evicted, offset, kept, oldest, first, all
<1>8. ASSUME NEW i \in 1..kept + accepted
      PROVE  Held'[i] = all[i + offset + evicted]
  <2>1. i \in Nat /\ i - 1 \in 0..Capacity
    BY <1>1, <1>2
  <2>2. Advance(oldest, i - 1) \in Slot
    BY <1>3, <2>1, AdvanceInSlot
  <2>3. Held'[i] = storage'[Advance(oldest, i - 1)]
    BY <1>3, <1>5
  <2>4. CASE i <= kept
    <3>1. Distance(first, Advance(oldest, i - 1)) = Capacity - kept + (i - 1)
      <4>1. kept \in 0..Capacity /\ i - 1 \in 0..kept-1
        BY <1>1, <1>2, <2>1, <2>4
      <4> QED
        BY <1>3, <4>1, DistanceBehind DEF first
    <3>2. storage'[Advance(oldest, i - 1)] = storage[Advance(oldest, i - 1)]
      <4>1. ~(Distance(first, Advance(oldest, i - 1)) < accepted)
        BY <1>1, <1>2, <2>1, <3>1
      <4> QED
        BY <1>7, <2>2, <4>1, Zenon
    <3>3. Advance(oldest, i - 1) = Advance(tail, evicted + (i - 1))
      <4>1. /\ evicted \in 0..Capacity /\ i - 1 \in 0..Capacity
            /\ evicted + (i - 1) <= Capacity
        BY <1>1, <1>2, <2>1, <2>4 DEF kept
      <4> QED
        BY <1>1, <4>1, AdvanceAdd DEF oldest
    <3>4. offset = 0 /\ i + evicted \in 1..count /\ (i + evicted) - 1 = evicted + (i - 1)
      BY <1>1, <1>2, <2>1, <2>4 DEF kept
    <3>5. Held[i + evicted] = storage[Advance(tail, evicted + (i - 1))]
      BY <1>4, <3>4
    <3>6. i + offset + evicted = i + evicted
      BY <1>1, <1>2, <2>1, <3>4
    <3>7. all[i + evicted] = Held[i + evicted]
      BY <1>1, <1>6, <3>4
    <3> QED
      BY <2>3, <3>2, <3>3, <3>5, <3>6, <3>7, Zenon
  <2>5. CASE i > kept
    <3> DEFINE d == i - 1 - kept
    <3>1. d \in 0..Capacity-1 /\ d < accepted /\ kept + d = i - 1
      BY <1>1, <1>2, <2>1, <2>5
    <3>2. first \in Slot /\ Advance(oldest, i - 1) = Advance(first, d)
      <4>1. kept \in 0..Capacity /\ d \in 0..Capacity /\ kept + d <= Capacity
        BY <1>1, <1>2, <3>1
      <4> QED
        BY <1>3, <3>1, <4>1, AdvanceInSlot, AdvanceAdd DEF first
    <3>3. Distance(first, Advance(first, d)) = d
      BY <3>1, <3>2, DistanceAdvance
    <3>4. storage'[Advance(oldest, i - 1)] = src[offset + d + 1]
      BY <1>7, <2>2, <3>1, <3>2, <3>3
    <3>5. /\ i + offset + evicted \in 1..count + incoming
          /\ ~(i + offset + evicted <= count)
          /\ i + offset + evicted - count = offset + d + 1
      BY <1>1, <1>2, <2>1, <2>5 DEF kept
    <3> HIDE DEF d
    <3>6. all[i + offset + evicted] = src[offset + d + 1]
      <4>1. all[i + offset + evicted] = src[(i + offset + evicted) - count]
        BY <1>6, <3>5
      <4> QED
        BY <1>1, <1>2, <2>1, <3>1, <3>5, <4>1
    <3> QED
      BY <2>3, <3>4, <3>6
  <2> QED
    BY <1>2, <2>1, <2>4, <2>5
<1>9. /\ Contract!Newest(all) \in Seq(Content)
      /\ Len(Contract!Newest(all)) = kept + accepted
      /\ \A i \in 1..kept + accepted :
           Contract!Newest(all)[i] = all[i + offset + evicted]
  <2>1. Contract!Positive(Len(all) - Capacity) = offset + evicted
    BY <1>1, <1>2, <1>6 DEF Contract!Positive, Positive
  <2>2. Contract!Newest(all) = SubSeq(all, offset + evicted + 1, count + incoming)
    BY <1>6, <2>1 DEF Contract!Newest
  <2>3. /\ offset + evicted + 1 \in Int /\ count + incoming \in Int
        /\ count + incoming - (offset + evicted) = kept + accepted
        /\ offset + evicted + 1 >= 1
    BY <1>1, <1>2 DEF kept
  <2> QED
    BY <1>1, <1>2, <1>6, <2>2, <2>3
<1>10. Len(Held') = kept + accepted
  BY <1>3, <1>5
<1>11. Held' = Contract!Newest(all)
  BY <1>5, <1>8, <1>9, <1>10, SeqExtensional
<1> QED
  BY <1>5, <1>11 DEF all

\* A read hands out the oldest frames, pads them with silence, and leaves the
\* rest in order.
LEMMA ReadHeld ==
  ASSUME TypeOK, TypeOK', NEW frames \in -1..MaxRequest, Read(frames)
  PROVE  /\ Held' = Contract!Rest(Held, frames)
         /\ reply'.frames = Contract!Oldest(Held, frames)
                              \o Contract!Quiet(Contract!Substituted(Held, frames))
         /\ reply'.made = Contract!Substituted(Held, frames)
         /\ reply' = Reply(0, reply'.made, reply'.frames)
<1> DEFINE requested == Positive(frames)
           available == Lesser(count, requested)
           made      == requested - available
<1>1. /\ count \in Nat /\ count <= Capacity /\ tail \in Slot
      /\ Capacity \in Nat /\ Capacity > 0 /\ frames \in Int
  BY CapacityAssumption DEF TypeOK
<1>2. /\ requested \in Nat /\ available \in Nat /\ made \in Nat
      /\ available <= count /\ available <= requested
      /\ available + made = requested
  BY <1>1 DEF Positive, Lesser
<1>3. tail' = Advance(tail, available) /\ count' = count - available
  BY DEF Read
<1>4. /\ Held \in Seq(Content) /\ Len(Held) = count
      /\ \A i \in 1..count : Held[i] = storage[Advance(tail, i - 1)]
  BY HeldIsSeq
<1>5. /\ Held' \in Seq(Content) /\ Len(Held') = count'
      /\ \A i \in 1..count' : Held'[i] = storage'[Advance(tail', i - 1)]
  <2>1. (TypeOK => /\ Held \in Seq(Content) /\ Len(Held) = count
                   /\ \A i \in 1..count : Held[i] = storage[Advance(tail, i - 1)])'
    BY HeldIsSeq, PTL
  <2> QED
    BY <2>1
<1>6. /\ Contract!Lesser(Contract!Positive(frames), Len(Held)) = available
      /\ Contract!Positive(frames) = requested
      /\ Contract!Substituted(Held, frames) = made
  BY <1>1, <1>4 DEF Contract!Lesser, Contract!Positive, Contract!Substituted,
                    Lesser, Positive
<1>7. reply' = Reply(0, made, [i \in 1..requested |->
                                  IF i <= available
                                    THEN storage[Advance(tail, i - 1)] ELSE Silence])
  BY DEF Read
<1>8. storage' = storage
  BY DEF Read
<1> HIDE DEF requested, available, made
<1>9. Held' = Contract!Rest(Held, frames)
  <2>1. Contract!Rest(Held, frames) = SubSeq(Held, available + 1, count)
    BY <1>4, <1>6 DEF Contract!Rest
  <2>2. /\ SubSeq(Held, available + 1, count) \in Seq(Content)
        /\ Len(SubSeq(Held, available + 1, count)) = count - available
        /\ \A i \in 1..count - available :
             SubSeq(Held, available + 1, count)[i] = Held[i + available]
    BY <1>1, <1>2, <1>4
  <2>3. ASSUME NEW i \in 1..count - available
        PROVE  Held'[i] = Held[i + available]
    <3>1. /\ available \in 0..Capacity /\ i - 1 \in 0..Capacity
          /\ available + (i - 1) <= Capacity
          /\ i + available \in 1..count /\ (i + available) - 1 = available + (i - 1)
      BY <1>1, <1>2
    <3>2. Advance(tail', i - 1) = Advance(tail, available + (i - 1))
      BY <1>1, <1>3, <3>1, AdvanceAdd
    <3>3. Held[i + available] = storage[Advance(tail, available + (i - 1))]
      BY <1>4, <3>1
    <3> QED
      BY <1>3, <1>5, <1>8, <3>2, <3>3
  <2>4. Len(Held') = count - available
    BY <1>3, <1>5
  <2> QED
    BY <1>5, <2>1, <2>2, <2>3, <2>4, SeqExtensional
<1>10. reply'.frames = Contract!Oldest(Held, frames) \o Contract!Quiet(made)
  <2> DEFINE front == Contract!Oldest(Held, frames)
             back  == Contract!Quiet(made)
             given == reply'.frames
  <2>1. front = SubSeq(Held, 1, available)
    BY <1>6 DEF Contract!Oldest
  <2>2. /\ front \in Seq(Content) /\ Len(front) = available
        /\ \A i \in 1..available : front[i] = Held[i]
    BY <1>1, <1>2, <1>4, <2>1
  <2>3. /\ back \in Seq(Content) /\ Len(back) = made
        /\ \A i \in 1..made : back[i] = Silence
    BY <1>2 DEF Contract!Quiet, Content
  <2>4. given = [i \in 1..requested |->
                 IF i <= available THEN storage[Advance(tail, i - 1)] ELSE Silence]
    BY <1>7 DEF Reply
  <2> HIDE DEF front, back, given
  <2>5. /\ front \o back \in Seq(Content)
        /\ Len(front \o back) = requested
        /\ \A i \in 1..requested :
             (front \o back)[i] = IF i <= available THEN front[i] ELSE back[i - available]
    <3>1. available \in Nat /\ made \in Nat /\ available + made = requested
      BY <1>2, <2>2, <2>3
    <3>2. /\ front \o back \in Seq(Content) /\ Len(front \o back) = available + made
          /\ \A i \in 1..available + made :
               (front \o back)[i] = IF i <= available THEN front[i] ELSE back[i - available]
      BY <2>2, <2>3, <3>1, ConcatProperties
    <3> QED
      BY <3>1, <3>2, Zenon
  <2>6. ASSUME NEW i \in 1..requested PROVE given[i] = (front \o back)[i]
    <3>1. CASE i <= available
      <4>1. i \in 1..available /\ i \in 1..count
        BY <1>1, <1>2, <3>1
      <4> QED
        BY <1>4, <2>2, <2>4, <2>5, <3>1, <4>1
    <3>2. CASE ~(i <= available)
      <4>1. i - available \in 1..made
        BY <1>2, <3>2
      <4> QED
        BY <2>3, <2>4, <2>5, <3>2, <4>1
    <3> QED
      BY <3>1, <3>2
  <2>7. given = [i \in 1..requested |-> (front \o back)[i]]
    BY <2>4, <2>6
  <2>8. front \o back = [i \in 1..requested |-> (front \o back)[i]]
    BY <2>5, SeqAsFunction
  <2> QED
    BY <2>7, <2>8 DEF front, back, given
<1>11. reply'.made = made /\ reply' = Reply(0, reply'.made, reply'.frames)
  BY <1>7 DEF Reply
<1> QED
  BY <1>6, <1>7, <1>9, <1>10, <1>11

LEMMA EmptyHeld ==
  ASSUME count = 0 PROVE Held = <<>>
BY DEF Held

LEMMA WriteImplements ==
  ASSUME TypeOK, TypeOK', NEW src \in Batch, Write(src)
  PROVE  Contract!Write(src)
<1>1. /\ Held' = Contract!Newest(Held \o src) /\ Len(Held') = count'
      /\ Len(Held) = count
  BY WriteHeld, HeldIsSeq
<1>2. /\ state' = Contract!Promoted(state, Len(Held'), startupFill)
      /\ startupFill' = startupFill
  BY <1>1 DEF Write, Promoted, Contract!Promoted
<1>3. reply' = Contract!Reply(Contract!Dropped(Held, src), 0, <<>>)
  BY <1>1 DEF Write, Reply, Contract!Reply, Contract!Dropped,
              Positive, Contract!Positive
<1> QED
  BY <1>1, <1>2, <1>3 DEF Contract!Write

LEMMA ReadImplements ==
  ASSUME TypeOK, TypeOK', NEW frames \in -1..MaxRequest, Read(frames)
  PROVE  Contract!Read(frames)
<1>1. state' = state /\ startupFill' = startupFill
  BY DEF Read
<1>2. /\ Held' = Contract!Rest(Held, frames)
      /\ reply'.made = Contract!Substituted(Held, frames)
      /\ reply'.frames = Contract!Oldest(Held, frames)
                           \o Contract!Quiet(Contract!Substituted(Held, frames))
      /\ reply' = Reply(0, reply'.made, reply'.frames)
  BY ReadHeld
<1>3. reply' = Contract!Reply(0, reply'.made, reply'.frames)
  BY <1>2 DEF Reply, Contract!Reply
<1> QED
  BY <1>1, <1>2, <1>3 DEF Contract!Read

LEMMA ClearImplements ==
  ASSUME TypeOK', NEW next \in RingState, Clear(next)
  PROVE  Contract!Empty(next)
<1>1. (count = 0 => Held = <<>>)'
  BY EmptyHeld, PTL
<1> QED
  BY <1>1 DEF Clear, Contract!Empty, NoReply, Contract!NoReply, Reply, Contract!Reply

\* Slots, indices and watermarks hidden, every behaviour of the ring is a
\* behaviour of the bounded drop-oldest queue.
THEOREM RefinesContract == Spec => ImplementsContract
<1>1. Init => Contract!Init
  <2> SUFFICES ASSUME Init PROVE Contract!Init
    OBVIOUS
  <2>1. Held = <<>>
    BY EmptyHeld DEF Init
  <2> QED
    BY <2>1 DEF Init, Contract!Init, NoReply, Contract!NoReply, Reply, Contract!Reply
<1>2. TypeOK /\ TypeOK' /\ [Next]_vars => [Contract!Next]_(Contract!contractVars)
  <2> SUFFICES ASSUME TypeOK, TypeOK', [Next]_vars
               PROVE  Contract!Next \/ UNCHANGED Contract!contractVars
    OBVIOUS
  <2>1. ASSUME NEW src \in Batch, Write(src) PROVE Contract!Next
    <3>1. src \in Contract!Batch
      BY DEF Batch, Contract!Batch
    <3> QED
      BY <2>1, <3>1, WriteImplements DEF Contract!Next
  <2>2. ASSUME NEW frames \in -1..MaxRequest, Read(frames) PROVE Contract!Next
    BY <2>2, ReadImplements DEF Contract!Next
  <2>3. CASE Reset
    BY <2>3, ClearImplements DEF Reset, RingState, Contract!Next, Contract!Reset
  <2>4. CASE Stop
    BY <2>4, ClearImplements DEF Stop, RingState, Contract!Next, Contract!Stop
  <2>5. CASE UNCHANGED vars
    BY <2>5 DEF vars, marks, Contract!contractVars, Held
  <2> QED
    BY <2>1, <2>2, <2>3, <2>4, <2>5 DEF Next
<1> QED
  BY <1>1, <1>2, TypeCorrect, PTL DEF Spec, ImplementsContract, Contract!Spec


-----------------------------------------------------------------------------
(* The inductive invariant                                                 *)

\* The index the next sample is stored at, published or not.
Position == IF pushing THEN at ELSE writeIndex

ProducerInv ==
  /\ SampleAt(writeIndex) <= MaxSamples
  /\ overrunCount <= Position
  /\ pushing => /\ writeIndex <= at
                /\ seenRead <= readIndex
                /\ SampleAt(at + left) <= MaxSamples
                /\ \E n \in PushSizes : at + left = writeIndex + n

\* The last lap is in its slots, and no slot that was stored to is unwritten.
ContentInv ==
  \A i \in 0..Position-1 :
    /\ buffer[i % ProbeCapacity] # Never
    /\ i >= Position - ProbeCapacity => buffer[i % ProbeCapacity] = SampleAt(i)

\* A window in the making starts no earlier than the reader and, from the
\* second attempt on, at least one sample further than the attempt before.
ReaderInv ==
  /\ readIndex <= writeIndex
  /\ step # "idle" => ready <= Available
  /\ step = "snapshot" =>
       /\ attempt <= MaxAttempts
       /\ attempt > 1 => /\ writeIndex - readIndex > ProbeCapacity
                         /\ writeIndex >= ProbeCapacity + attempt - 1
  /\ step \in {"copy", "commit"} =>
       /\ readIndex <= from /\ from + take <= writeIndex
       /\ take >= Smaller(asked, ready)
       /\ attempt <= MaxAttempts /\ attempt <= from + 1
  /\ step = "copy" /\ verdict # "none" =>
       /\ checkedAt <= writeIndex
       /\ verdict = "coherent" <=> checkedAt - from <= ProbeCapacity
  /\ step = "commit" => take = 0 /\ out = <<>>
  /\ step \in {"resync", "drop"} => writeIndex >= ProbeCapacity + MaxAttempts
  /\ step = "resync" => writeIndex - readIndex > ProbeCapacity
  /\ step = "drop" => readIndex <= from /\ from <= writeIndex

\* What was skipped was counted before it could be skipped: the count keeps up
\* with the oldest sample the producer has not overwritten yet.
AccountInv ==
  /\ returned <= readIndex
  /\ readIndex <= returned + overrunCount
  /\ Position - ProbeCapacity <= returned + overrunCount
  /\ step \in {"copy", "commit", "drop"} => from <= returned + overrunCount

WindowInv ==
  /\ out \in Seq(Sample \cup {Never}) /\ \A i \in DOMAIN out : out[i] # Never
  /\ window \in Seq(Sample \cup {Never}) /\ \A i \in DOMAIN window : window[i] # Never

\* Entry i of the window is the sample it should be, or the one a lap later.
Lapped(i, limit) == /\ out[i] = SampleAt(from + i - 1 + ProbeCapacity)
                    /\ from + i - 1 + ProbeCapacity < limit
Right(i) == out[i] = SampleAt(from + i - 1)

\* An entry that is wrong in any other way is so far behind the producer that
\* the check will see it.
CopyInv ==
  step = "copy" =>
    /\ verdict # "none" => Len(out) = take
    /\ verdict = "none" =>
         \A i \in DOMAIN out :
           \/ Right(i) \/ Lapped(i, Position)
           \/ from + i - 1 + ProbeCapacity + ProbeCapacity < Position
    /\ verdict = "coherent" =>
         \A i \in DOMAIN out :
           \/ Right(i)
           \/ /\ checkedAt <= from + i - 1 + ProbeCapacity
              /\ \E n \in PushSizes : Lapped(i, checkedAt + n)

ProbeInv == ProbeTypeOK /\ ProducerInv /\ ContentInv /\ ReaderInv /\ AccountInv /\ WindowInv

-----------------------------------------------------------------------------
(* Slots: what `index % Capacity` keeps apart                              *)

LEMMA Division ==
  ASSUME NEW C \in Nat \ {0}, NEW i \in Nat
  PROVE  i % C \in 0..C-1 /\ i \div C \in Int /\ i = C * (i \div C) + (i % C)
BY Z3

LEMMA NoSmallMultiple ==
  ASSUME NEW C \in Nat \ {0}, NEW k \in Int, -C < C * k, C * k < C
  PROVE  k = 0
<1>1. CASE k >= 1
  <2>1. C * k >= C
    BY <1>1, Z3
  <2> QED
    BY <2>1
<1>2. CASE k <= -1
  <2>1. C * k <= -C
    BY <1>2, Z3
  <2> QED
    BY <2>1
<1> QED
  BY <1>1, <1>2

\* One lap later is the same slot.
LEMMA SameSlot ==
  ASSUME NEW C \in Nat \ {0}, NEW i \in Nat
  PROVE  (i + C) % C = i % C
<1> DEFINE q == (i + C) \div C
           p == i \div C
<1>1. i + C \in Nat
  OBVIOUS
<1>2. q \in Int /\ (i + C) % C \in 0..C-1 /\ i + C = C * q + ((i + C) % C)
  BY <1>1, Division
<1>3. p \in Int /\ i % C \in 0..C-1 /\ i = C * p + (i % C)
  BY Division
<1> HIDE DEF p, q
<1>4. C * (q - (p + 1)) = (i % C) - ((i + C) % C)
  BY <1>2, <1>3, Z3
<1>5. q - (p + 1) = 0
  BY <1>2, <1>3, <1>4, NoSmallMultiple
<1> QED
  BY <1>2, <1>3, <1>4, <1>5

\* Less than one lap apart are two slots.
LEMMA OtherSlot ==
  ASSUME NEW C \in Nat \ {0}, NEW i \in Nat, NEW j \in Nat, i < j, j - i < C
  PROVE  i % C # j % C
<1> SUFFICES ASSUME i % C = j % C PROVE FALSE
  OBVIOUS
<1> DEFINE q == j \div C
           p == i \div C
<1>1. q \in Int /\ j % C \in 0..C-1 /\ j = C * q + (j % C)
  BY Division
<1>2. p \in Int /\ i % C \in 0..C-1 /\ i = C * p + (i % C)
  BY Division
<1> HIDE DEF p, q
<1>3. C * (q - p) = j - i
  BY <1>1, <1>2, Z3
<1>4. q - p = 0
  BY <1>1, <1>2, <1>3, NoSmallMultiple
<1> QED
  BY <1>3, <1>4

LEMMA PushBeginKeeps ==
  ASSUME ProbeInv, NEW n \in PushSizes, PushBegin(n)
  PROVE  ProbeInv'
<1>1. ProbeTypeOK'
  BY ProbeAssumption DEF ProbeInv, ProbeTypeOK, shared, consumer, ghosts, PushBegin
<1>2. ProducerInv'
  BY ProbeAssumption DEF ProbeInv, ProbeTypeOK, ProducerInv, Position, SampleAt, shared,
     ghosts, PushBegin
<1>3. ContentInv'
  BY DEF ProbeInv, Position, SampleAt, shared, ghosts, PushBegin, ContentInv
<1>4. ReaderInv'
  BY DEF ProbeInv, ReaderInv, shared, consumer, Available, PushBegin
<1>5. AccountInv'
  BY DEF ProbeInv, AccountInv, Position, shared, consumer, ghosts, PushBegin
<1>6. WindowInv'
  BY DEF ProbeInv, consumer, ghosts, PushBegin, WindowInv
<1> QED
  BY <1>1, <1>2, <1>3, <1>4, <1>5, <1>6 DEF ProbeInv

LEMMA DrainBeginKeeps ==
  ASSUME ProbeInv, NEW want \in DrainSizes, DrainBegin(want)
  PROVE  ProbeInv'
<1>1. ProbeTypeOK'
  BY ProbeAssumption DEF ProbeInv, ProbeTypeOK, ReaderInv, shared, producer, ghosts,
     Available, Smaller, DrainBegin
<1>2. ProducerInv'
  BY DEF ProbeInv, ProducerInv, Position, SampleAt, shared, producer, ghosts, DrainBegin
<1>3. ContentInv'
  BY DEF ProbeInv, Position, SampleAt, shared, producer, ghosts, DrainBegin, ContentInv
<1>4. ReaderInv'
  BY ProbeAssumption DEF ProbeInv, ReaderInv, shared, Available, Smaller, DrainBegin
<1>5. AccountInv'
  BY DEF ProbeInv, AccountInv, Position, shared, producer, ghosts, DrainBegin
<1>6. WindowInv'
  BY DEF ProbeInv, ghosts, DrainBegin, WindowInv
<1> QED
  BY <1>1, <1>2, <1>3, <1>4, <1>5, <1>6 DEF ProbeInv

LEMMA PushSlotKeeps ==
  ASSUME ProbeInv, PushSlot
  PROVE  ProbeInv'
<1>1. ProbeTypeOK'
  BY ProbeAssumption DEF ProbeInv, ProbeTypeOK, ProducerInv, Position, SampleAt, Sample,
     ProbeSlot, consumer, ghosts, PushSlot
<1>2. ProducerInv'
  BY ProbeAssumption DEF ProbeInv, ProbeTypeOK, ProducerInv, Position, SampleAt, ghosts,
     PushSlot
<1>3. ContentInv'
  <2>1. at \in Nat /\ base \in Nat /\ buffer \in [ProbeSlot -> Sample \cup {Never}]
    BY DEF ProbeInv, ProbeTypeOK
  <2>2. Position = at /\ Position' = at + 1 /\ base' = base
    BY DEF Position, PushSlot, ghosts
  <2>3. at % ProbeCapacity \in ProbeSlot
    BY <2>1, ProbeAssumption DEF ProbeSlot
  <2>4. ASSUME NEW i \in 0..at
        PROVE  /\ buffer'[i % ProbeCapacity] # Never
               /\ i >= at + 1 - ProbeCapacity => buffer'[i % ProbeCapacity] = SampleAt(i)
    <3>1. i \in Nat /\ i % ProbeCapacity \in ProbeSlot
      BY ProbeAssumption DEF ProbeSlot
    <3>2. buffer'[i % ProbeCapacity] =
            IF i % ProbeCapacity = at % ProbeCapacity THEN SampleAt(at) ELSE buffer[i % ProbeCapacity]
      BY <2>1, <3>1 DEF PushSlot
    <3>3. CASE i = at
      BY <2>1, <3>2, <3>3 DEF SampleAt, Never
    <3>4. CASE i < at
      <4>1. i \in 0..Position-1
        BY <2>1, <2>2, <3>4
      <4>2. /\ buffer[i % ProbeCapacity] # Never
            /\ i >= at - ProbeCapacity => buffer[i % ProbeCapacity] = SampleAt(i)
        BY <2>2, <4>1 DEF ProbeInv, ContentInv
      <4>3. at - i < ProbeCapacity => i % ProbeCapacity # at % ProbeCapacity
        BY <2>1, <3>1, <3>4, OtherSlot, ProbeAssumption
      <4> QED
        BY <2>1, <3>2, <4>2, <4>3, ProbeAssumption DEF SampleAt, Never
    <3> QED
      BY <2>1, <3>3, <3>4
  <2> QED
    BY <2>1, <2>2, <2>4, ProbeAssumption DEF ContentInv, SampleAt
<1>4. ReaderInv'
  BY DEF ProbeInv, ReaderInv, consumer, Available, PushSlot
<1>5. AccountInv'
  BY ProbeAssumption DEF ProbeInv, ProbeTypeOK, ProducerInv, AccountInv, Position,
     consumer, ghosts, PushSlot
<1>6. WindowInv'
  BY DEF ProbeInv, consumer, ghosts, PushSlot, WindowInv
<1> QED
  BY <1>1, <1>2, <1>3, <1>4, <1>5, <1>6 DEF ProbeInv

LEMMA PushPublishKeeps ==
  ASSUME ProbeInv, PushPublish
  PROVE  ProbeInv'
<1>1. ProbeTypeOK'
  BY DEF ProbeInv, ProbeTypeOK, consumer, ghosts, PushPublish
<1>2. ProducerInv'
  BY DEF ProbeInv, ProbeTypeOK, ProducerInv, Position, SampleAt, ghosts, PushPublish
<1>3. ContentInv'
  BY DEF ProbeInv, Position, SampleAt, ghosts, PushPublish, ContentInv
<1>4. ReaderInv'
  BY ProbeAssumption DEF ProbeInv, ProbeTypeOK, ProducerInv, ReaderInv, consumer,
     Available, Smaller, PushPublish
<1>5. AccountInv'
  BY ProbeAssumption DEF ProbeInv, ProbeTypeOK, ProducerInv, Position, SampleAt, Sample,
     ProbeSlot
<1>6. WindowInv'
  BY DEF ProbeInv, consumer, ghosts, PushPublish, WindowInv
<1> QED
  BY <1>1, <1>2, <1>3, <1>4, <1>5, <1>6 DEF ProbeInv

LEMMA SnapshotKeeps ==
  ASSUME ProbeInv, Snapshot
  PROVE  ProbeInv'
<1>1. ProbeTypeOK'
  BY ProbeAssumption DEF ProbeInv, ProbeTypeOK, ReaderInv, shared, producer, ghosts,
     OldestUnread, Taken, Smaller, Snapshot
<1>2. ProducerInv'
  BY DEF ProbeInv, ProducerInv, Position, SampleAt, shared, producer, ghosts, Snapshot
<1>3. ContentInv'
  BY DEF ProbeInv, Position, SampleAt, shared, producer, ghosts, Snapshot, ContentInv
<1>4. ReaderInv'
  BY ProbeAssumption DEF ProbeInv, ProbeTypeOK, ReaderInv, shared, Available, OldestUnread,
     Taken, Smaller, Snapshot
<1>5. AccountInv'
  BY ProbeAssumption DEF ProbeInv, ProbeTypeOK, ProducerInv, AccountInv, Position, shared,
     producer, ghosts, OldestUnread, Snapshot
<1>6. WindowInv'
  BY DEF ProbeInv, ghosts, Snapshot, WindowInv
<1> QED
  BY <1>1, <1>2, <1>3, <1>4, <1>5, <1>6 DEF ProbeInv

LEMMA CopySlotKeeps ==
  ASSUME ProbeInv, CopySlot
  PROVE  ProbeInv'
<1>1. ProbeTypeOK'
  BY ProbeAssumption DEF ProbeInv, ProbeTypeOK, shared, producer, ghosts, CopySlot
<1>2. ProducerInv'
  BY ProbeAssumption DEF ProbeInv, ProbeTypeOK, ProducerInv, Sample, ProbeSlot, shared,
     producer, ghosts, CopySlot
<1>3. ContentInv'
  BY DEF ProbeInv, Position, SampleAt, shared, producer, ghosts, CopySlot, ContentInv
<1>4. ReaderInv'
  BY DEF ProbeInv, ReaderInv, shared, Available, CopySlot
<1>5. AccountInv'
  BY DEF ProbeInv, AccountInv, Position, shared, producer, ghosts, CopySlot
<1>6. WindowInv'
  <2> DEFINE p == from + Len(out)
  <2>1. out \in Seq(Sample \cup {Never}) /\ Len(out) \in Nat
    BY DEF ProbeInv, WindowInv
  <2>2. p \in Nat /\ p < Position /\ Position \in Nat
    <3>1. writeIndex \in Nat /\ Position \in Nat /\ writeIndex <= Position
      BY DEF ProbeInv, ProbeTypeOK, ProducerInv, Position
    <3>2. from \in Nat /\ take \in Nat /\ from + take <= writeIndex
      BY DEF ProbeInv, ProbeTypeOK, ReaderInv, CopySlot
    <3> QED
      BY <3>1, <3>2 DEF CopySlot
  <2> HIDE DEF p
  <2>3. p % ProbeCapacity \in ProbeSlot
    BY <2>2, ProbeAssumption DEF ProbeSlot
  <2>4. /\ buffer[p % ProbeCapacity] \in Sample \cup {Never}
        /\ buffer[p % ProbeCapacity] # Never
    BY <2>2, <2>3 DEF ProbeInv, ProbeTypeOK, ContentInv
  <2>5. out' = Append(out, buffer[p % ProbeCapacity]) /\ window' = window
    BY DEF CopySlot, ghosts, p
  <2> QED
    BY <2>4, <2>5 DEF ProbeInv, WindowInv
<1> QED
  BY <1>1, <1>2, <1>3, <1>4, <1>5, <1>6 DEF ProbeInv

LEMMA CheckWindowKeeps ==
  ASSUME ProbeInv, CheckWindow
  PROVE  ProbeInv'
<1>1. ProbeTypeOK'
  BY DEF ProbeInv, ProbeTypeOK, shared, producer, ghosts, CheckWindow
<1>2. ProducerInv'
  BY DEF ProbeInv, ProducerInv, Position, SampleAt, shared, producer, ghosts, CheckWindow
<1>3. ContentInv'
  BY DEF ProbeInv, Position, SampleAt, shared, producer, ghosts, CheckWindow, ContentInv
<1>4. ReaderInv'
  BY ProbeAssumption DEF ProbeInv, ProbeTypeOK, ReaderInv, AccountInv, Position, Sample,
     ProbeSlot, CheckWindow
<1>5. AccountInv'
  BY DEF ProbeInv, AccountInv, Position, shared, producer, ghosts, CheckWindow
<1>6. WindowInv'
  BY DEF ProbeInv, ghosts, CheckWindow, WindowInv
<1> QED
  BY <1>1, <1>2, <1>3, <1>4, <1>5, <1>6 DEF ProbeInv

LEMMA RetryKeeps ==
  ASSUME ProbeInv, Retry
  PROVE  ProbeInv'
<1>1. ProbeTypeOK'
  BY ProbeAssumption DEF ProbeInv, ProbeTypeOK, ReaderInv, shared, producer, ghosts, Retry
<1>2. ProducerInv'
  BY DEF ProbeInv, ProducerInv, Position, SampleAt, shared, producer, ghosts, Retry
<1>3. ContentInv'
  BY DEF ProbeInv, Position, SampleAt, shared, producer, ghosts, Retry, ContentInv
<1>4. ReaderInv'
  BY ProbeAssumption DEF ProbeInv, ProbeTypeOK, ReaderInv, shared, Available, Retry
<1>5. AccountInv'
  BY DEF ProbeInv, AccountInv, Position, shared, producer, ghosts, Retry
<1>6. WindowInv'
  BY DEF ProbeInv, ghosts, Retry, WindowInv
<1> QED
  BY <1>1, <1>2, <1>3, <1>4, <1>5, <1>6 DEF ProbeInv

LEMMA CommitKeeps ==
  ASSUME ProbeInv, Commit
  PROVE  ProbeInv'
<1>1. ProbeTypeOK'
  BY ProbeAssumption DEF ProbeInv, ProbeTypeOK, ReaderInv, AccountInv, producer, Commit
<1>2. ProducerInv'
  BY ProbeAssumption DEF ProbeInv, ProbeTypeOK, ProducerInv, ReaderInv, AccountInv,
     Position, SampleAt, Sample, ProbeSlot, Smaller, Never, Commit
<1>3. ContentInv'
  BY DEF ProbeInv, Position, SampleAt, producer, Commit, ContentInv
<1>4. ReaderInv'
  BY DEF ProbeInv, ReaderInv, Commit
<1>5. AccountInv'
  BY ProbeAssumption DEF ProbeInv, ProbeTypeOK, ProducerInv, Position, SampleAt, Sample,
     ProbeSlot
<1>6. WindowInv'
  BY DEF ProbeInv, Commit, WindowInv
<1> QED
  BY <1>1, <1>2, <1>3, <1>4, <1>5, <1>6 DEF ProbeInv

LEMMA ResyncKeeps ==
  ASSUME ProbeInv, Resync
  PROVE  ProbeInv'
<1>1. ProbeTypeOK'
  BY ProbeAssumption DEF ProbeInv, ProbeTypeOK, shared, producer, ghosts, Resync
<1>2. ProducerInv'
  BY DEF ProbeInv, ProducerInv, Position, SampleAt, shared, producer, ghosts, Resync
<1>3. ContentInv'
  BY DEF ProbeInv, Position, SampleAt, shared, producer, ghosts, Resync, ContentInv
<1>4. ReaderInv'
  BY ProbeAssumption DEF ProbeInv, ProbeTypeOK, ReaderInv, shared, Available, Resync
<1>5. AccountInv'
  BY ProbeAssumption DEF ProbeInv, ProbeTypeOK, ProducerInv, AccountInv, Position, shared,
     producer, ghosts, Resync
<1>6. WindowInv'
  BY DEF ProbeInv, ghosts, Resync, WindowInv
<1> QED
  BY <1>1, <1>2, <1>3, <1>4, <1>5, <1>6 DEF ProbeInv

LEMMA DropKeeps ==
  ASSUME ProbeInv, Drop
  PROVE  ProbeInv'
<1>1. ProbeTypeOK'
  BY DEF ProbeInv, ProbeTypeOK, producer, Drop
<1>2. ProducerInv'
  BY DEF ProbeInv, ProbeTypeOK, ProducerInv, ReaderInv, Position, SampleAt, producer, Drop
<1>3. ContentInv'
  BY DEF ProbeInv, Position, SampleAt, producer, Drop, ContentInv
<1>4. ReaderInv'
  BY DEF ProbeInv, ReaderInv, Drop
<1>5. AccountInv'
  BY DEF ProbeInv, ProbeTypeOK, ReaderInv, AccountInv, Position, producer, Drop
<1>6. WindowInv'
  BY DEF ProbeInv, Drop, WindowInv
<1> QED
  BY <1>1, <1>2, <1>3, <1>4, <1>5, <1>6 DEF ProbeInv

LEMMA ProbeResetKeeps ==
  ASSUME ProbeInv, ProbeReset
  PROVE  ProbeInv'
<1>1. ProbeTypeOK'
  BY ProbeAssumption DEF ProbeInv, ProbeTypeOK, ProducerInv, SampleAt, producer, consumer,
     ProbeReset
<1>2. ProducerInv'
  BY ProbeAssumption DEF ProbeInv, ProbeTypeOK, ReaderInv, AccountInv, Position, Sample,
     ProbeSlot, ProbeReset
<1>3. ContentInv'
  BY DEF Position, producer, ProbeReset, ContentInv
<1>4. ReaderInv'
  BY DEF ReaderInv, consumer, ProbeReset
<1>5. AccountInv'
  BY ProbeAssumption DEF AccountInv, Position, producer, consumer, ProbeReset
<1>6. WindowInv'
  BY DEF ProbeInv, consumer, ProbeReset, WindowInv
<1> QED
  BY <1>1, <1>2, <1>3, <1>4, <1>5, <1>6 DEF ProbeInv

\* One step of either thread, whichever memory order, keeps the invariant.
LEMMA StepKeeps ==
  ASSUME ProbeInv, [ProbeNext]_probeVars
  PROVE  ProbeInv'
<1>1. CASE Push
  BY <1>1, PushBeginKeeps, PushSlotKeeps, PushPublishKeeps DEF Push
<1>2. CASE \E want \in DrainSizes : DrainBegin(want)
  BY <1>2, DrainBeginKeeps
<1>3. CASE Drain
  BY <1>3, SnapshotKeeps, CopySlotKeeps, CheckWindowKeeps, RetryKeeps, CommitKeeps,
     ResyncKeeps, DropKeeps DEF Drain
<1>4. CASE ProbeReset
  BY <1>4, ProbeResetKeeps
<1>5. CASE UNCHANGED probeVars
  BY <1>5 DEF ProbeInv, ProbeTypeOK, ProducerInv, ReaderInv, AccountInv, WindowInv,
     Position, SampleAt, shared, producer, consumer, ghosts, ContentInv, probeVars,
     Available
<1> QED
  BY <1>1, <1>2, <1>3, <1>4, <1>5 DEF ProbeNext

LEMMA InitiallyProbeInv ==
  ASSUME ProbeInit
  PROVE  ProbeInv
<1>1. ProbeTypeOK
  <2>1. buffer \in [ProbeSlot -> Sample \cup {Never}]
    BY DEF ProbeInit
  <2>2. out = <<>> /\ Len(out) = 0 /\ take = 0
    BY DEF ProbeInit
  <2>3. /\ 0 \in 0..MaxSamples /\ 0 \in 0..ProbeCapacity /\ 0 \in Nat
        /\ 1 \in 1..MaxAttempts + 1 /\ 0 \in DrainSizes \cup {0}
    BY ProbeAssumption
  <2>4. /\ writeIndex = 0 /\ readIndex = 0 /\ overrunCount = 0 /\ droppedFrameCount = 0
        /\ at = 0 /\ seenRead = 0 /\ left = 0 /\ pushing \in BOOLEAN
        /\ step = "idle" /\ attempt = 1 /\ from = 0 /\ verdict = "none" /\ checkedAt = 0
        /\ asked = 0 /\ ready = 0 /\ base = 0 /\ returned = 0
    BY DEF ProbeInit
  <2> QED
    BY <2>1, <2>2, <2>3, <2>4 DEF ProbeTypeOK
<1>2. ProducerInv /\ ContentInv
  BY ProbeAssumption DEF ProbeInit, ProducerInv, ContentInv, Position, SampleAt
<1>3. ReaderInv /\ AccountInv /\ WindowInv
  BY ProbeAssumption DEF ProbeInit, ReaderInv, AccountInv, WindowInv, Position
<1> QED
  BY <1>1, <1>2, <1>3 DEF ProbeInv

LEMMA ProbeInvariant == ProbeSpec => []ProbeInv
BY InitiallyProbeInv, StepKeeps, PTL DEF ProbeSpec

-----------------------------------------------------------------------------
(* What the invariant gives in either memory order                         *)

\* No field leaves its range, no slot index the buffer, and no drain the budget
\* of attempts.
THEOREM ProbeTypeCorrect == ProbeSpec => []ProbeTypeOK
<1>1. ProbeInv => ProbeTypeOK
  BY DEF ProbeInv
<1> QED
  BY <1>1, ProbeInvariant, PTL

\* Every sample the analysis thread never gets was counted by the audio thread,
\* and a window is dropped only after as many overtakings as there are attempts
\* (capture-probe.h:97-99, 167-175).
THEOREM LossIsCounted == ProbeSpec => []LossIsAccounted
<1>1. ProbeInv => LossIsAccounted
  BY ProbeAssumption DEF ProbeInv, ProbeTypeOK, AccountInv, ReaderInv, LossIsAccounted, NoSilentLoss, DropsAreEarned
<1> QED
  BY <1>1, ProbeInvariant, PTL

\* The reader never passes the writer, hands out nothing that was not pushed, and
\* gives at least what available() promised or drops the frame.
THEOREM WindowsArePublished == ProbeSpec => [](ReaderBehindWriter /\ FullWindowOrDropped)
<1>1. ProbeInv => ReaderBehindWriter /\ FullWindowOrDropped
  BY DEF ProbeInv, ReaderInv, WindowInv, ReaderBehindWriter, FullWindowOrDropped
<1> QED
  BY <1>1, ProbeInvariant, PTL

-----------------------------------------------------------------------------
(* What a window holds when the copies keep their program order            *)

\* What a slot holds that the window should have sample `p` from, while the
\* producer stands at Position: the sample, the one a lap later, or, if the
\* producer is two laps ahead, anything.
LEMMA SlotHolds ==
  ASSUME ProbeInv, NEW p \in Nat, p < Position
  PROVE  \/ buffer[p % ProbeCapacity] = SampleAt(p)
         \/ /\ buffer[p % ProbeCapacity] = SampleAt(p + ProbeCapacity)
            /\ p + ProbeCapacity < Position
         \/ p + ProbeCapacity + ProbeCapacity < Position
<1>1. Position \in Nat /\ ProbeCapacity \in Nat \ {0}
  BY ProbeAssumption DEF ProbeInv, ProbeTypeOK, Position
<1>2. CASE p >= Position - ProbeCapacity
  BY <1>1, <1>2 DEF ProbeInv, ContentInv
<1>3. CASE p < Position - ProbeCapacity /\ p + ProbeCapacity >= Position - ProbeCapacity
  <2> DEFINE q == p + ProbeCapacity
  <2>1. q \in 0..Position-1 /\ q >= Position - ProbeCapacity
    BY <1>1, <1>3
  <2>2. buffer[q % ProbeCapacity] = SampleAt(q)
    BY <2>1 DEF ProbeInv, ContentInv
  <2>3. q % ProbeCapacity = p % ProbeCapacity
    BY <1>1, SameSlot
  <2> QED
    BY <2>1, <2>2, <2>3, <1>1
<1>4. CASE p + ProbeCapacity < Position - ProbeCapacity
  BY <1>1, <1>4
<1> QED
  BY <1>1, <1>2, <1>3, <1>4

\* The producer only adds laps to what a window in the making may hold.
LEMMA ProducerKeepsCopy ==
  ASSUME ProbeInv, CopyInv, UNCHANGED <<consumer, ghosts>>, Position' \in Nat, Position <= Position'
  PROVE  CopyInv'
<1>1. /\ from \in Nat /\ ProbeCapacity \in Nat /\ Position \in Nat /\ Len(out) \in Nat
      /\ DOMAIN out = 1..Len(out)
  BY ProbeAssumption DEF ProbeInv, ProbeTypeOK, WindowInv, Position
<1> QED
  BY <1>1 DEF CopyInv, Right, Lapped, SampleAt, consumer, ghosts

LEMMA CopySlotKeepsCopy ==
  ASSUME ProbeInv, CopyInv, CopySlot
  PROVE  CopyInv'
<1> DEFINE p == from + Len(out)
<1>1. /\ out \in Seq(Sample \cup {Never}) /\ Len(out) \in Nat /\ from \in Nat
      /\ Position \in Nat /\ ProbeCapacity \in Nat
  BY ProbeAssumption DEF ProbeInv, ProbeTypeOK, WindowInv, Position
<1>2. verdict = "none" /\ step = "copy"
  BY <1>1 DEF CopySlot, CopyInv, ProbeInv, ProbeTypeOK
<1>3. p \in Nat /\ p < Position
  <2>1. writeIndex \in Nat /\ writeIndex <= Position
    BY ProbeAssumption DEF ProbeInv, ProbeTypeOK, ProducerInv, Position
  <2>2. take \in Nat /\ from + take <= writeIndex
    BY ProbeAssumption DEF ProbeInv, ProbeTypeOK, ReaderInv, CopySlot
  <2> QED
    BY <1>1, <2>1, <2>2 DEF CopySlot
<1>4. UNCHANGED <<step, from, verdict, base>> /\ Position' = Position
  BY DEF CopySlot, shared, producer, ghosts, Position
<1>5. /\ out' = Append(out, buffer[p % ProbeCapacity])
      /\ Len(out') = Len(out) + 1 /\ DOMAIN out' = 1..Len(out)+1
      /\ \A i \in 1..Len(out) : out'[i] = out[i]
      /\ out'[Len(out) + 1] = buffer[p % ProbeCapacity]
  BY <1>1 DEF CopySlot
<1>6. ASSUME NEW i \in 1..Len(out)
      PROVE  \/ Right(i)' \/ Lapped(i, Position)'
             \/ from + i - 1 + ProbeCapacity + ProbeCapacity < Position
  BY <1>1, <1>2, <1>4, <1>5 DEF CopyInv, Right, Lapped, SampleAt
<1>7. ASSUME NEW k, k = Len(out) + 1
      PROVE  \/ Right(k)' \/ Lapped(k, Position)'
             \/ from + k - 1 + ProbeCapacity + ProbeCapacity < Position
  <2>0. from + k - 1 = p
    BY <1>1, <1>7
  <2> HIDE DEF p
  <2>1. \/ buffer[p % ProbeCapacity] = SampleAt(p)
        \/ /\ buffer[p % ProbeCapacity] = SampleAt(p + ProbeCapacity)
           /\ p + ProbeCapacity < Position
        \/ p + ProbeCapacity + ProbeCapacity < Position
    BY <1>3, SlotHolds
  <2> QED
    BY <1>4, <1>5, <1>7, <2>0, <2>1 DEF Right, Lapped, SampleAt
<1>8. verdict' = "none" /\ from' = from
  BY <1>2, <1>4
<1>9. ASSUME NEW k \in DOMAIN out'
      PROVE  \/ Right(k)' \/ Lapped(k, Position)'
             \/ from' + k - 1 + ProbeCapacity + ProbeCapacity < Position'
  BY <1>1, <1>4, <1>5, <1>6, <1>7, <1>8
<1> QED
  BY <1>8, <1>9 DEF CopyInv

LEMMA CheckKeepsCopy ==
  ASSUME ProbeInv, CopyInv, CheckWindow, ~Reordered
  PROVE  CopyInv'
<1>1. /\ from \in Nat /\ ProbeCapacity \in Nat /\ writeIndex \in Nat /\ Len(out) \in Nat
      /\ DOMAIN out = 1..Len(out) /\ PushSizes \subseteq 1..ProbeCapacity
  BY ProbeAssumption DEF ProbeInv, ProbeTypeOK, WindowInv
<1>2. \/ Position = writeIndex
      \/ \E n \in PushSizes : Position <= writeIndex + n
  BY ProbeAssumption DEF ProbeInv, ProbeTypeOK, ProducerInv, Position
<1>3. Position \in Nat
  BY ProbeAssumption DEF ProbeInv, ProbeTypeOK, Position
<1>4. /\ step = "copy" /\ verdict = "none" /\ Len(out) = take
      /\ checkedAt' = writeIndex /\ UNCHANGED <<step, from, take, out, base>>
      /\ verdict' = "coherent" => writeIndex - from <= ProbeCapacity
      /\ verdict' # "none"
  BY DEF CheckWindow, Coherent, ghosts
<1>5. ASSUME NEW i \in 1..Len(out), verdict' = "coherent", ~Right(i)
      PROVE  /\ writeIndex <= from + i - 1 + ProbeCapacity
             /\ \E n \in PushSizes : Lapped(i, writeIndex + n)
  <2>1. writeIndex <= from + i - 1 + ProbeCapacity
    BY <1>1, <1>4, <1>5
  <2>2. Position <= from + i - 1 + ProbeCapacity + ProbeCapacity
    BY <1>1, <1>2, <1>3, <2>1
  <2>3. Lapped(i, Position)
    BY <1>1, <1>3, <1>4, <1>5, <2>2 DEF CopyInv
  <2> QED
    BY <1>1, <1>2, <1>3, <2>1, <2>3 DEF Lapped
<1> QED
  BY <1>1, <1>4, <1>5 DEF CopyInv, Right, Lapped, SampleAt

LEMMA StepKeepsCopy ==
  ASSUME ProbeInv, CopyInv, [ProbeNext]_probeVars, ~Reordered
  PROVE  CopyInv'
<1>1. ProbeInv'
  BY StepKeeps
<1>2. Position \in Nat /\ Position' \in Nat
  BY <1>1, ProbeAssumption DEF ProbeInv, ProbeTypeOK, Position
<1>3. CASE Push
  <2>1. UNCHANGED <<consumer, ghosts>>
    BY <1>3 DEF Push, PushBegin, PushSlot, PushPublish
  <2>2. Position <= Position'
    BY <1>2, <1>3 DEF Push, PushBegin, PushSlot, PushPublish, Position, shared, ProbeInv, ProbeTypeOK
  <2> QED
    BY <1>2, <2>1, <2>2, ProducerKeepsCopy
<1>4. CASE CopySlot
  BY <1>4, CopySlotKeepsCopy
<1>5. CASE CheckWindow
  BY <1>5, CheckKeepsCopy
<1>6. CASE Snapshot
  BY <1>6 DEF Snapshot, CopyInv
<1>7. CASE \/ \E want \in DrainSizes : DrainBegin(want)
           \/ Retry \/ Commit \/ Resync \/ Drop \/ ProbeReset
  BY <1>7 DEF DrainBegin, Retry, Commit, Resync, Drop, ProbeReset, CopyInv, consumer
<1>8. CASE UNCHANGED probeVars
  BY <1>8 DEF probeVars, shared, producer, consumer, ghosts, CopyInv, Right, Lapped, SampleAt, Position
<1> QED
  BY <1>3, <1>4, <1>5, <1>6, <1>7, <1>8 DEF ProbeNext, Drain

\* A window drain() returns is the run of samples it should be, but for entries a
\* push in flight had already overwritten: one lap too new each, and of the block
\* being pushed (capture-probe.h:110-163).
THEOREM WindowsAreCoherent ==
  ASSUME ~Reordered
  PROVE  ProbeSpec => []DrainIsCoherent
<1>1. ProbeInit => CopyInv
  BY DEF ProbeInit, CopyInv
<1>2. ProbeInv /\ CopyInv /\ [ProbeNext]_probeVars => CopyInv'
  BY StepKeepsCopy
<1>3. ProbeInv /\ CopyInv => DrainIsCoherent
  <2> SUFFICES ASSUME ProbeInv, CopyInv PROVE DrainIsCoherent
    OBVIOUS
  <2>1. ReaderBehindWriter /\ FullWindowOrDropped
    BY DEF ProbeInv, ReaderInv, WindowInv, ReaderBehindWriter, FullWindowOrDropped
  <2>2. TornOnlyInFlight
    BY DEF CopyInv, Right, Lapped, TornOnlyInFlight, Committing, Wrong
  <2> QED
    BY <2>1, <2>2 DEF DrainIsCoherent
<1> QED
  BY <1>1, <1>2, <1>3, ProbeInvariant, PTL DEF ProbeSpec

\* The header banner's claim holds in program order: a push that was published
\* before the check and reached the window makes the check fail.
THEOREM LapsAreRejected ==
  ASSUME ~Reordered
  PROVE  ProbeSpec => LapsRejected
<1>1. ProbeInv /\ ProbeInv' /\ CopyInv /\ CopyInv' /\ [ProbeNext]_probeVars
        => [Committing' /\ UNCHANGED producer
              => \A i \in Wrong' : writeIndex <= from + i - 1 + ProbeCapacity]_probeVars
  <2> SUFFICES ASSUME ProbeInv, ProbeInv', CopyInv, CopyInv', ProbeNext, Committing', UNCHANGED producer,
                      NEW i \in Wrong'
               PROVE  writeIndex <= from + i - 1 + ProbeCapacity
    BY DEF probeVars
  <2>1. CheckWindow
    <3>1. ~Push
      BY DEF Push, PushBegin, PushSlot, PushPublish, producer, ProbeInv, ProbeTypeOK
    <3>2. ~CopySlot
      <4>1. Len(out) \in Nat
        BY DEF ProbeInv, WindowInv
      <4> QED
        BY <4>1 DEF CopySlot, CopyInv, Committing
    <3> QED
      BY <3>1, <3>2 DEF ProbeNext, Drain, DrainBegin, Snapshot, Retry, Commit, Resync, Drop,
                        ProbeReset, Committing, consumer
  <2> QED
    BY <2>1 DEF CheckWindow, CopyInv, Committing, Wrong, Right
<1>2. ProbeInit => CopyInv
  BY DEF ProbeInit, CopyInv
<1>3. ProbeInv /\ CopyInv /\ [ProbeNext]_probeVars => CopyInv'
  BY StepKeepsCopy
<1> QED
  BY <1>1, <1>2, <1>3, ProbeInvariant, PTL DEF ProbeSpec, LapsRejected

-----------------------------------------------------------------------------
(* What the constants give                                                 *)

\* The host's frames are numbers, and silence is a frame of its own.
Numbered == Nat \cup {Silence}
Byte == [frame : Numbered, k : Nat, of : Nat]

LEMMA Sizes ==
  /\ Bytes \in {2, 3} /\ BytesPerFrame(StreamFormat) = Bytes
  /\ Capacity \in Nat \ {0} /\ Block \in Nat \ {0} /\ MaxPacket \in Nat \ {0}
  /\ FifoDepth \in Nat \ {0} /\ CountLimit \in Nat \ {0} /\ StartupFill \in Nat
BY TransportAssumption, CapacityAssumption
   DEF LoopConstants, TransportConstants, Bytes, BytesPerFrame

LEMMA Apart ==
  Silence \notin Nat /\ Garbled \notin Nat /\ Silence # Garbled /\ Tears \subseteq 0..Bytes-1
BY TransportAssumption DEF TransportConstants, Bytes

-----------------------------------------------------------------------------
(* Sequences                                                               *)

\* What a request takes and what it leaves are the sequence.
LEMMA TakenAndLeft ==
  ASSUME NEW S, NEW s \in Seq(S), NEW n \in Int
  PROVE  \E m \in 0..Len(s) :
           /\ m = Lesser(Positive(n), Len(s))
           /\ Oldest(s, n) = SubSeq(s, 1, m) /\ Rest(s, n) = SubSeq(s, m + 1, Len(s))
<1> DEFINE m == Lesser(Positive(n), Len(s))
<1>1. Len(s) \in Nat
  OBVIOUS
<1>2. m \in 0..Len(s)
  BY <1>1 DEF Lesser, Positive
<1> QED
  BY <1>2 DEF Oldest, Rest

LEMMA Halves ==
  ASSUME NEW S, NEW s \in Seq(S), NEW m \in 0..Len(s)
  PROVE  /\ SubSeq(s, 1, m) \in Seq(S) /\ Len(SubSeq(s, 1, m)) = m
         /\ \A i \in 1..m : SubSeq(s, 1, m)[i] = s[i]
         /\ SubSeq(s, m + 1, Len(s)) \in Seq(S) /\ Len(SubSeq(s, m + 1, Len(s))) = Len(s) - m
         /\ \A i \in 1..Len(s) - m : SubSeq(s, m + 1, Len(s))[i] = s[i + m]
         /\ SubSeq(s, 1, m) \o SubSeq(s, m + 1, Len(s)) = s
<1>1. /\ SubSeq(s, 1, m) \in Seq(S) /\ Len(SubSeq(s, 1, m)) = m
      /\ \A i \in 1..m : SubSeq(s, 1, m)[i] = s[i]
  OBVIOUS
<1>2. /\ SubSeq(s, m + 1, Len(s)) \in Seq(S) /\ Len(SubSeq(s, m + 1, Len(s))) = Len(s) - m
      /\ \A i \in 1..Len(s) - m : SubSeq(s, m + 1, Len(s))[i] = s[i + m]
  OBVIOUS
<1>3. SubSeq(s, 1, m) \o SubSeq(s, m + 1, Len(s)) = SubSeq(s, 1, Len(s))
  <2>1. 1 \in 1..Len(s) + 1 /\ m \in 1 - 1..Len(s) /\ Len(s) \in m..Len(s)
    OBVIOUS
  <2> QED
    BY <2>1, ConcatAdjacentSubSeq
<1>4. SubSeq(s, 1, Len(s)) = s
  OBVIOUS
<1> QED
  BY <1>1, <1>2, <1>3, <1>4

-----------------------------------------------------------------------------
(* Frames and their bytes                                                  *)

\* The bytes of whole frames in order, the last one perhaps cut short.
First(j) == j - ((j - 1) % Bytes)
Aligned(bytes) ==
  \A j \in 1..Len(bytes) :
    bytes[j] = WireByte(bytes[First(j)].frame, ((j - 1) % Bytes) + 1, Bytes)

\* Byte k of frame i.
LEMMA Places ==
  \A i \in Nat, k \in 1..Bytes :
    LET j == i * Bytes + k
    IN j \in Nat /\ j >= 1 /\ (j - 1) % Bytes = k - 1 /\ First(j) = i * Bytes + 1 /\ (j - 1) \div Bytes = i
<1>1. \A i \in Nat, k \in 1..2 : (i * 2 + k - 1) % 2 = k - 1 /\ (i * 2 + k - 1) \div 2 = i
  BY Z3
<1>2. \A i \in Nat, k \in 1..3 : (i * 3 + k - 1) % 3 = k - 1 /\ (i * 3 + k - 1) \div 3 = i
  BY Z3
<1> SUFFICES ASSUME NEW i \in Nat, NEW k \in 1..Bytes
             PROVE  LET j == i * Bytes + k
                    IN /\ j \in Nat /\ j >= 1 /\ (j - 1) % Bytes = k - 1
                       /\ First(j) = i * Bytes + 1 /\ (j - 1) \div Bytes = i
  OBVIOUS
<1>3. CASE Bytes = 2
  BY <1>1, <1>3 DEF First
<1>4. CASE Bytes = 3
  BY <1>2, <1>4 DEF First
<1> QED
  BY <1>3, <1>4, Sizes

LEMMA PlaceOf ==
  \A j \in Nat \ {0} : \E i \in Nat, k \in 1..Bytes :
    j = i * Bytes + k /\ i = (j - 1) \div Bytes /\ k = ((j - 1) % Bytes) + 1
<1>1. \A j \in Nat \ {0} : /\ (j - 1) \div 2 \in Nat /\ (j - 1) % 2 \in 0..1
                           /\ j = ((j - 1) \div 2) * 2 + ((j - 1) % 2) + 1
  BY Z3
<1>2. \A j \in Nat \ {0} : /\ (j - 1) \div 3 \in Nat /\ (j - 1) % 3 \in 0..2
                           /\ j = ((j - 1) \div 3) * 3 + ((j - 1) % 3) + 1
  BY Z3
<1> SUFFICES ASSUME NEW j \in Nat \ {0}
             PROVE  \E i \in Nat, k \in 1..Bytes :
                      j = i * Bytes + k /\ i = (j - 1) \div Bytes /\ k = ((j - 1) % Bytes) + 1
  OBVIOUS
<1>3. CASE Bytes = 2
  BY <1>1, <1>3
<1>4. CASE Bytes = 3
  BY <1>2, <1>4
<1> QED
  BY <1>3, <1>4, Sizes

\* How many whole frames a number of bytes makes.
LEMMA WholeFrames ==
  /\ \A m \in Nat : m \div Bytes \in Nat /\ m % Bytes \in 0..Bytes-1
                    /\ m = (m \div Bytes) * Bytes + (m % Bytes)
  /\ \A m \in Nat, r \in 0..Bytes-1 : (m * Bytes + r) \div Bytes = m /\ (m * Bytes + r) % Bytes = r
<1>1. \A m \in Nat : m \div 2 \in Nat /\ m % 2 \in 0..1 /\ m = (m \div 2) * 2 + (m % 2)
  BY Z3
<1>2. \A m \in Nat : m \div 3 \in Nat /\ m % 3 \in 0..2 /\ m = (m \div 3) * 3 + (m % 3)
  BY Z3
<1>3. \A m \in Nat, r \in 0..1 : (m * 2 + r) \div 2 = m /\ (m * 2 + r) % 2 = r
  BY Z3
<1>4. \A m \in Nat, r \in 0..2 : (m * 3 + r) \div 3 = m /\ (m * 3 + r) % 3 = r
  BY Z3
<1>5. CASE Bytes = 2
  BY <1>1, <1>3, <1>5
<1>6. CASE Bytes = 3
  BY <1>2, <1>4, <1>6
<1> QED
  BY <1>5, <1>6, Sizes

LEMMA AlignedPlaces ==
  ASSUME NEW b \in Seq(Byte)
  PROVE  Aligned(b) <=> \A i \in Nat, k \in 1..Bytes :
           i * Bytes + k <= Len(b) => b[i * Bytes + k] = WireByte(b[i * Bytes + 1].frame, k, Bytes)
<1>1. ASSUME Aligned(b), NEW i \in Nat, NEW k \in 1..Bytes, i * Bytes + k <= Len(b)
      PROVE  b[i * Bytes + k] = WireByte(b[i * Bytes + 1].frame, k, Bytes)
  <2> DEFINE j == i * Bytes + k
  <2>1. j \in Nat /\ j >= 1 /\ (j - 1) % Bytes = k - 1 /\ First(j) = i * Bytes + 1
    BY Places
  <2>2. j \in 1..Len(b) /\ j = i * Bytes + k
    BY <1>1, <2>1
  <2> HIDE DEF j
  <2>3. b[j] = WireByte(b[First(j)].frame, ((j - 1) % Bytes) + 1, Bytes)
    BY <1>1, <2>2 DEF Aligned
  <2>4. k - 1 + 1 = k
    BY Sizes
  <2> QED
    BY <2>1, <2>2, <2>3, <2>4
<1>2. ASSUME NEW j \in 1..Len(b),
             \A i \in Nat, k \in 1..Bytes :
               i * Bytes + k <= Len(b) => b[i * Bytes + k] = WireByte(b[i * Bytes + 1].frame, k, Bytes)
      PROVE  b[j] = WireByte(b[First(j)].frame, ((j - 1) % Bytes) + 1, Bytes)
  <2>0. j \in Nat \ {0}
    OBVIOUS
  <2>1. PICK i \in Nat, k \in 1..Bytes : j = i * Bytes + k
    BY <2>0, PlaceOf
  <2>2. First(j) = i * Bytes + 1 /\ (j - 1) % Bytes = k - 1
    BY <2>1, Places
  <2> QED
    BY <1>2, <2>1, <2>2, Sizes
<1> QED
  BY <1>1, <1>2 DEF Aligned

\* A frame's bytes are read as the frame.
LEMMA FrameIsRead ==
  ASSUME NEW b, NEW f, Len(b) = Bytes, DOMAIN b = 1..Bytes, \A k \in 1..Bytes : b[k] = WireByte(f, k, Bytes)
  PROVE  FrameOf(b) = f
<1>1. b[1].frame = f
  BY Sizes DEF WireByte
<1> QED
  BY <1>1 DEF FrameOf

LEMMA Middle ==
  ASSUME NEW S, NEW s \in Seq(S), NEW h \in Nat, NEW m \in Nat, h <= m, m <= Len(s)
  PROVE  /\ SubSeq(s, h + 1, m) \in Seq(S) /\ Len(SubSeq(s, h + 1, m)) = m - h
         /\ \A k \in 1..m - h : SubSeq(s, h + 1, m)[k] = s[h + k]
OBVIOUS

LEMMA DecodeAligned ==
  ASSUME NEW b \in Seq(Byte), Aligned(b)
  PROVE  /\ Decode(b, StreamFormat) \in Seq(Numbered) /\ Len(Decode(b, StreamFormat)) = Len(b) \div Bytes
         /\ \A i \in 1..Len(b) \div Bytes : /\ (i - 1) * Bytes + 1 \in 1..Len(b)
                                            /\ Decode(b, StreamFormat)[i] = b[(i - 1) * Bytes + 1].frame
<1> DEFINE n == Len(b) \div Bytes
<1>1. n \in Nat /\ n * Bytes <= Len(b) /\ Len(b) \in Nat
  <2>1. Len(b) \in Nat
    OBVIOUS
  <2>2. n \in Nat /\ Len(b) % Bytes \in 0..Bytes-1 /\ Len(b) = n * Bytes + (Len(b) % Bytes)
    BY <2>1, WholeFrames
  <2>3. n * Bytes \in Nat
    BY <2>2, Sizes
  <2> HIDE DEF n
  <2> QED
    BY <2>1, <2>2, <2>3, Sizes
<1> HIDE DEF n
<1>2. Decode(b, StreamFormat) = [i \in 1..n |-> FrameOf(SubSeq(b, (i - 1) * Bytes + 1, i * Bytes))]
  BY Sizes DEF Decode, n
<1>3. ASSUME NEW i \in 1..n
      PROVE  /\ (i - 1) * Bytes + 1 \in 1..Len(b) /\ b[(i - 1) * Bytes + 1].frame \in Numbered
             /\ FrameOf(SubSeq(b, (i - 1) * Bytes + 1, i * Bytes)) = b[(i - 1) * Bytes + 1].frame
  <2> DEFINE h == (i - 1) * Bytes
             sub == SubSeq(b, h + 1, h + Bytes)
  <2>1. h \in Nat /\ h + Bytes <= Len(b) /\ i * Bytes = h + Bytes /\ i - 1 \in Nat /\ Bytes \in Nat
    <3>1. CASE Bytes = 2
      BY <1>1, <3>1
    <3>2. CASE Bytes = 3
      BY <1>1, <3>2
    <3> QED
      BY <3>1, <3>2, Sizes
  <2>2. \A k \in 1..Bytes : h + k <= Len(b) => b[h + k] = WireByte(b[h + 1].frame, k, Bytes)
    BY <2>1, AlignedPlaces
  <2> HIDE DEF h
  <2>3. DOMAIN sub = 1..Bytes /\ Len(sub) = Bytes /\ \A k \in 1..Bytes : sub[k] = b[h + k]
    <3> DEFINE m == h + Bytes
    <3>1. m \in Nat /\ m = h + Bytes /\ h <= m /\ m <= Len(b) /\ h + 1 \in 1..Len(b) + 1 /\ b \in Seq(Byte)
          /\ h \in Nat /\ Bytes \in Nat
      BY <2>1, Sizes
    <3>2. sub = SubSeq(b, h + 1, m)
      OBVIOUS
    <3> HIDE DEF sub, m
    <3> h \in Nat /\ m \in Nat /\ h <= m /\ m <= Len(b)
      BY <3>1
    <3>3. /\ SubSeq(b, h + 1, m) \in Seq(Byte) /\ Len(SubSeq(b, h + 1, m)) = m - h
          /\ \A k \in 1..m - h : SubSeq(b, h + 1, m)[k] = b[h + k]
      BY Middle, Zenon
    <3>4. m - h = Bytes
      BY <3>1
    <3>5. sub \in Seq(Byte) /\ Len(sub) = Bytes /\ \A k \in 1..Bytes : sub[k] = b[h + k]
      BY <3>2, <3>3, <3>4, Zenon
    <3> QED
      BY <3>5
  <2>4. ASSUME NEW k \in 1..Bytes PROVE sub[k] = WireByte(b[h + 1].frame, k, Bytes)
    <3>1. h + k <= Len(b)
      BY <2>1, Sizes
    <3>2. b[h + k] = WireByte(b[h + 1].frame, k, Bytes)
      BY <2>2, <3>1
    <3>3. sub[k] = b[h + k]
      BY <2>3
    <3> QED
      BY <3>2, <3>3
  <2> HIDE DEF sub
  <2>5. FrameOf(sub) = b[h + 1].frame
    BY <2>3, <2>4, FrameIsRead
  <2>6. h + 1 \in 1..Len(b) /\ b[h + 1] \in Byte
    BY <1>1, <2>1, Sizes
  <2> QED
    BY <2>1, <2>5, <2>6 DEF h, sub, Byte
<1> QED
  BY <1>1, <1>2, <1>3 DEF n

LEMMA Before ==
  \A i, m \in Nat, k \in 1..Bytes :
    /\ i * Bytes \in Nat /\ m * Bytes \in Nat
    /\ i < m => i * Bytes + k <= m * Bytes /\ i * Bytes + 1 <= m * Bytes
    /\ i >= m => i - m \in Nat /\ i * Bytes = m * Bytes + (i - m) * Bytes /\ (i - m) * Bytes \in Nat
    /\ m * Bytes + i * Bytes = (m + i) * Bytes
<1>1. CASE Bytes = 2
  BY <1>1
<1>2. CASE Bytes = 3
  BY <1>2
<1> QED
  BY <1>1, <1>2, Sizes

\* Bytes behind whole frames are read behind them.
LEMMA AlignedJoin ==
  ASSUME NEW a \in Seq(Byte), NEW b \in Seq(Byte), Aligned(a), Aligned(b),
         NEW m \in Nat, Len(a) = m * Bytes
  PROVE  /\ a \o b \in Seq(Byte) /\ Aligned(a \o b)
         /\ Decode(a \o b, StreamFormat) = Decode(a, StreamFormat) \o Decode(b, StreamFormat)
<1> DEFINE c == a \o b
<1>1. c \in Seq(Byte) /\ Len(c) = Len(a) + Len(b) /\ Len(a) \in Nat /\ Len(b) \in Nat
      /\ (\A j \in 1..Len(a) : c[j] = a[j]) /\ (\A j \in 1..Len(b) : c[Len(a) + j] = b[j])
  OBVIOUS
<1> HIDE DEF c
<1>2. Aligned(c)
  <2> SUFFICES ASSUME NEW i \in Nat, NEW k \in 1..Bytes, i * Bytes + k <= Len(c)
               PROVE  c[i * Bytes + k] = WireByte(c[i * Bytes + 1].frame, k, Bytes)
    BY <1>1, AlignedPlaces
  <2>1. CASE i < m
    <3>1. i * Bytes \in Nat /\ i * Bytes + k <= Len(a) /\ i * Bytes + 1 <= Len(a) /\ k \in Nat /\ k >= 1
      BY <2>1, Before, Sizes
    <3>2. a[i * Bytes + k] = WireByte(a[i * Bytes + 1].frame, k, Bytes)
      BY <3>1, AlignedPlaces
    <3> QED
      BY <1>1, <3>1, <3>2
  <2>2. CASE i >= m
    <3> DEFINE h == (i - m) * Bytes
    <3>1. i - m \in Nat /\ i * Bytes = Len(a) + h /\ h \in Nat /\ k \in Nat /\ k >= 1
      BY <2>2, Before, Sizes
    <3>2. h + k <= Len(b) => b[h + k] = WireByte(b[h + 1].frame, k, Bytes)
      BY <3>1, AlignedPlaces
    <3> HIDE DEF h
    <3>3. h + k \in 1..Len(b) /\ h + 1 \in 1..Len(b)
      BY <1>1, <3>1
    <3>4. c[Len(a) + (h + k)] = b[h + k] /\ c[Len(a) + (h + 1)] = b[h + 1]
      BY <1>1, <3>3
    <3>5. Len(a) + (h + k) = i * Bytes + k /\ Len(a) + (h + 1) = i * Bytes + 1
      BY <1>1, <3>1
    <3> QED
      BY <3>2, <3>3, <3>4, <3>5
  <2> QED
    BY <2>1, <2>2
<1>3. Decode(c, StreamFormat) = Decode(a, StreamFormat) \o Decode(b, StreamFormat)
  <2> DEFINE da == Decode(a, StreamFormat)
             db == Decode(b, StreamFormat)
             dc == Decode(c, StreamFormat)
             n == Len(b) \div Bytes
  <2>1. n \in Nat /\ Len(a) \div Bytes = m /\ Len(c) \div Bytes = m + n
    <3>1. n \in Nat /\ Len(b) % Bytes \in 0..Bytes-1 /\ Len(b) = n * Bytes + (Len(b) % Bytes)
      BY <1>1, WholeFrames
    <3>2. 0 \in 0..Bytes-1 /\ m * Bytes = m * Bytes + 0
      BY Before, Sizes
    <3>3. Len(a) \div Bytes = m
      BY <3>2, WholeFrames
    <3>4. Len(c) = (m + n) * Bytes + (Len(b) % Bytes)
      BY <1>1, <3>1, Before, Sizes
    <3> QED
      BY <3>1, <3>3, <3>4, WholeFrames
  <2>2. da \in Seq(Numbered) /\ Len(da) = m /\ db \in Seq(Numbered) /\ Len(db) = n
        /\ dc \in Seq(Numbered) /\ Len(dc) = m + n
    BY <1>1, <1>2, <2>1, DecodeAligned
  <2>3. \A i \in 1..m : (i - 1) * Bytes + 1 \in 1..Len(a) /\ da[i] = a[(i - 1) * Bytes + 1].frame
    BY <2>1, DecodeAligned
  <2>4. \A i \in 1..n : (i - 1) * Bytes + 1 \in 1..Len(b) /\ db[i] = b[(i - 1) * Bytes + 1].frame
    BY DecodeAligned
  <2>5. \A i \in 1..m + n : dc[i] = c[(i - 1) * Bytes + 1].frame
    BY <1>1, <1>2, <2>1, DecodeAligned
  <2> HIDE DEF da, db, dc, n
  <2>6. ASSUME NEW i \in 1..m PROVE dc[i] = da[i]
    <3> DEFINE h == (i - 1) * Bytes + 1
    <3>1. h \in 1..Len(a) /\ da[i] = a[h].frame
      BY <2>3
    <3>2. i \in 1..m + n
      BY <2>1
    <3>3. dc[i] = c[h].frame
      BY <2>5, <3>2
    <3> HIDE DEF h
    <3> QED
      BY <1>1, <3>1, <3>3
  <2>7. ASSUME NEW i \in 1..n PROVE dc[m + i] = db[i]
    <3>1. (m + i) - 1 \in Nat /\ (m + i) - 1 >= m /\ ((m + i) - 1) - m = i - 1 /\ m + i \in 1..m + n
      BY <2>1
    <3>2. ((m + i) - 1) * Bytes = Len(a) + (i - 1) * Bytes
      BY <3>1, Before, Sizes
    <3>3. (i - 1) * Bytes + 1 \in 1..Len(b)
      BY <2>4
    <3> DEFINE h == (i - 1) * Bytes + 1
    <3>4. c[Len(a) + h] = b[h]
      BY <1>1, <3>3
    <3>5. h \in Int /\ ((m + i) - 1) * Bytes + 1 = Len(a) + h
      BY <1>1, <3>2, <3>3, Sizes
    <3> QED
      BY <2>4, <2>5, <3>1, <3>4, <3>5
  <2>8. da \o db \in Seq(Numbered) /\ Len(da \o db) = m + n /\ \A i \in 1..m + n : (da \o db)[i] = dc[i]
    <3>1. (da \o db) \in Seq(Numbered) /\ Len(da \o db) = m + n
          /\ \A i \in 1..m + n : (da \o db)[i] = IF i <= m THEN da[i] ELSE db[i - m]
      BY <2>2, ConcatProperties
    <3>2. ASSUME NEW i \in 1..m + n, i > m PROVE db[i - m] = dc[i]
      <4>1. i - m \in 1..n /\ m + (i - m) = i
        BY <2>1, <3>2
      <4> QED
        BY <2>7, <4>1
    <3>3. ASSUME NEW i \in 1..m + n PROVE (da \o db)[i] = dc[i]
      <4>1. CASE i <= m
        <5>1. i \in 1..m
          BY <2>1, <4>1
        <5> QED
          BY <2>6, <3>1, <4>1, <5>1
      <4>2. CASE i > m
        <5>1. ~(i <= m)
          BY <2>1, <4>2
        <5> QED
          BY <3>1, <3>2, <4>2, <5>1
      <4>3. i <= m \/ i > m
        BY <2>1
      <4> QED
        BY <4>1, <4>2, <4>3, Zenon
    <3> QED
      BY <3>1, <3>3
  <2> QED
    BY <2>2, <2>8, SeqEqual DEF da, db, dc
<1> QED
  BY <1>1, <1>2, <1>3 DEF c

\* Whole frames taken from the front leave the others aligned.
LEMMA AlignedCut ==
  ASSUME NEW b \in Seq(Byte), Aligned(b), NEW m \in Nat, m * Bytes <= Len(b)
  PROVE  LET pre == SubSeq(b, 1, m * Bytes)
             post == SubSeq(b, m * Bytes + 1, Len(b))
         IN /\ pre \in Seq(Byte) /\ Aligned(pre) /\ Len(pre) = m * Bytes
            /\ post \in Seq(Byte) /\ Aligned(post) /\ Len(post) = Len(b) - m * Bytes
            /\ \A j \in 1..Len(post) : post[j] = b[m * Bytes + j]
            /\ Len(Decode(pre, StreamFormat)) = m
            /\ Decode(b, StreamFormat) = Decode(pre, StreamFormat) \o Decode(post, StreamFormat)
<1> DEFINE p == m * Bytes
           pre == SubSeq(b, 1, p)
           post == SubSeq(b, p + 1, Len(b))
<1>1. p \in 0..Len(b)
  BY Before, Sizes
<1>2. /\ pre \in Seq(Byte) /\ Len(pre) = p /\ (\A i \in 1..p : pre[i] = b[i])
      /\ post \in Seq(Byte) /\ Len(post) = Len(b) - p /\ (\A i \in 1..Len(b) - p : post[i] = b[i + p])
      /\ pre \o post = b
  BY <1>1, Halves
<1> HIDE DEF pre, post
<1>3. Aligned(pre)
  <2> SUFFICES ASSUME NEW i \in Nat, NEW k \in 1..Bytes, i * Bytes + k <= Len(pre)
               PROVE  pre[i * Bytes + k] = WireByte(pre[i * Bytes + 1].frame, k, Bytes)
    BY <1>2, AlignedPlaces
  <2>1. i * Bytes \in Nat /\ k \in Nat /\ k >= 1
    BY Before, Sizes
  <2>2. i * Bytes + k <= Len(b) => b[i * Bytes + k] = WireByte(b[i * Bytes + 1].frame, k, Bytes)
    BY AlignedPlaces
  <2> HIDE DEF p
  <2> QED
    BY <1>1, <1>2, <2>1, <2>2
<1>4. Aligned(post)
  <2> SUFFICES ASSUME NEW i \in Nat, NEW k \in 1..Bytes, i * Bytes + k <= Len(post)
               PROVE  post[i * Bytes + k] = WireByte(post[i * Bytes + 1].frame, k, Bytes)
    BY <1>2, AlignedPlaces
  <2>1. i * Bytes \in Nat /\ k \in Nat /\ k >= 1 /\ (m + i) * Bytes = p + i * Bytes /\ m + i \in Nat
    BY Before, Sizes
  <2>2. (m + i) * Bytes + k <= Len(b)
          => b[(m + i) * Bytes + k] = WireByte(b[(m + i) * Bytes + 1].frame, k, Bytes)
    BY <2>1, AlignedPlaces
  <2> DEFINE h == i * Bytes
             g == (m + i) * Bytes
  <2> HIDE DEF p, h, g
  <2>3. g = p + h /\ h \in Nat /\ k \in Nat /\ k >= 1 /\ h + k <= Len(post)
        /\ (g + k <= Len(b) => b[g + k] = WireByte(b[g + 1].frame, k, Bytes))
    BY <2>1, <2>2 DEF g, h
  <2>4. h + k \in 1..Len(b) - p /\ h + 1 \in 1..Len(b) - p /\ g + k <= Len(b)
        /\ (h + k) + p = g + k /\ (h + 1) + p = g + 1
    BY <1>1, <1>2, <2>3
  <2>5. post[h + k] = b[g + k] /\ post[h + 1] = b[g + 1]
    BY <1>2, <2>4
  <2> QED
    BY <2>3, <2>4, <2>5 DEF h
<1>5. Decode(b, StreamFormat) = Decode(pre, StreamFormat) \o Decode(post, StreamFormat)
  <2>1. Len(pre) = m * Bytes
    BY <1>2
  <2> QED
    BY <1>2, <1>3, <1>4, <2>1, AlignedJoin
<1>6. Len(Decode(pre, StreamFormat)) = m
  <2>1. Len(pre) = m * Bytes + 0 /\ 0 \in 0..Bytes-1
    BY <1>1, <1>2, Sizes
  <2> QED
    BY <1>2, <1>3, <2>1, DecodeAligned, WholeFrames
<1>7. \A j \in 1..Len(post) : post[j] = b[p + j]
  <2> HIDE DEF p
  <2> QED
    BY <1>1, <1>2
<1> QED
  BY <1>2, <1>3, <1>4, <1>5, <1>6, <1>7 DEF pre, post

\* The converters are inverses, and a part of a frame is none.
LEMMA Encoded ==
  ASSUME NEW fs \in Seq(Numbered)
  PROVE  LET b == Encode(fs, StreamFormat)
         IN /\ b \in Seq(Byte) /\ Aligned(b) /\ Len(b) = Len(fs) * Bytes
            /\ \A i \in 1..Len(fs) : b[(i - 1) * Bytes + 1].frame = fs[i]
            /\ Decode(b, StreamFormat) = fs
<1> DEFINE b == Encode(fs, StreamFormat)
<1>1. b = [j \in 1..Len(fs) * Bytes |->
             WireByte(fs[((j - 1) \div Bytes) + 1], ((j - 1) % Bytes) + 1, Bytes)]
  BY Sizes DEF Encode
<1>2. Len(fs) \in Nat /\ Len(fs) * Bytes \in Nat
  BY Before, Sizes
<1> HIDE DEF b
<1>3. ASSUME NEW i \in Nat, NEW k \in 1..Bytes, i < Len(fs)
      PROVE  i * Bytes + k \in 1..Len(fs) * Bytes /\ b[i * Bytes + k] = WireByte(fs[i + 1], k, Bytes)
  <2>1. i * Bytes + k \in 1..Len(fs) * Bytes
    BY <1>2, <1>3, Before, Sizes
  <2> DEFINE j == i * Bytes + k
  <2>2. (j - 1) % Bytes = k - 1 /\ (j - 1) \div Bytes = i
    BY Places
  <2>3. (k - 1) + 1 = k
    BY Sizes
  <2>4. j \in 1..Len(fs) * Bytes
    BY <2>1
  <2> HIDE DEF j
  <2>5. b[j] = WireByte(fs[i + 1], k, Bytes)
    BY <1>1, <2>2, <2>3, <2>4
  <2> QED
    BY <2>1, <2>5 DEF j
<1>4. ASSUME NEW j \in 1..Len(fs) * Bytes
      PROVE  \E i \in Nat, k \in 1..Bytes : j = i * Bytes + k /\ i < Len(fs)
  <2>1. PICK i \in Nat, k \in 1..Bytes : j = i * Bytes + k
    BY <1>2, PlaceOf
  <2>2. i < Len(fs)
    <3> SUFFICES ASSUME i >= Len(fs) PROVE FALSE
      BY <1>2
    <3>1. i * Bytes = Len(fs) * Bytes + (i - Len(fs)) * Bytes /\ (i - Len(fs)) * Bytes \in Nat
      BY <1>2, Before
    <3> QED
      BY <1>2, <2>1, <3>1, Sizes
  <2> QED
    BY <2>1, <2>2
<1>5. b \in Seq(Byte) /\ Len(b) = Len(fs) * Bytes
  <2>1. ASSUME NEW j \in 1..Len(fs) * Bytes PROVE b[j] \in Byte
    <3>1. PICK i \in Nat, k \in 1..Bytes : j = i * Bytes + k /\ i < Len(fs)
      BY <1>4
    <3>2. b[j] = WireByte(fs[i + 1], k, Bytes) /\ fs[i + 1] \in Numbered /\ k \in Nat /\ Bytes \in Nat
      BY <1>2, <1>3, <3>1, Sizes
    <3> QED
      BY <3>2 DEF WireByte, Byte
  <2>2. DOMAIN b = 1..Len(fs) * Bytes /\ b = [j \in DOMAIN b |-> b[j]]
    BY <1>1
  <2> QED
    BY <1>2, <2>1, <2>2
<1>6. Aligned(b)
  <2> SUFFICES ASSUME NEW i \in Nat, NEW k \in 1..Bytes, i * Bytes + k <= Len(b)
               PROVE  b[i * Bytes + k] = WireByte(b[i * Bytes + 1].frame, k, Bytes)
    BY <1>5, AlignedPlaces
  <2>1. i < Len(fs)
    <3> SUFFICES ASSUME i >= Len(fs) PROVE FALSE
      BY <1>2
    <3>1. i * Bytes = Len(fs) * Bytes + (i - Len(fs)) * Bytes /\ (i - Len(fs)) * Bytes \in Nat
      BY <1>2, Before
    <3> QED
      BY <1>2, <1>5, <3>1, Sizes
  <2>2. b[i * Bytes + k] = WireByte(fs[i + 1], k, Bytes) /\ b[i * Bytes + 1] = WireByte(fs[i + 1], 1, Bytes)
    BY <1>3, <2>1, Sizes
  <2> QED
    BY <2>2 DEF WireByte
<1>7. \A i \in 1..Len(fs) : b[(i - 1) * Bytes + 1].frame = fs[i]
  <2> SUFFICES ASSUME NEW i \in 1..Len(fs) PROVE b[(i - 1) * Bytes + 1].frame = fs[i]
    OBVIOUS
  <2>1. i - 1 \in Nat /\ i - 1 < Len(fs) /\ (i - 1) + 1 = i /\ 1 \in 1..Bytes
    BY <1>2, Sizes
  <2>2. b[(i - 1) * Bytes + 1] = WireByte(fs[(i - 1) + 1], 1, Bytes)
    BY <1>3, <2>1
  <2> QED
    BY <2>1, <2>2 DEF WireByte
<1>8. Decode(b, StreamFormat) = fs
  <2>1. Len(b) \div Bytes = Len(fs)
    <3>1. Len(b) = Len(fs) * Bytes + 0 /\ 0 \in 0..Bytes-1
      BY <1>2, <1>5, Sizes
    <3> QED
      BY <1>2, <3>1, WholeFrames
  <2>2. Decode(b, StreamFormat) \in Seq(Numbered) /\ Len(Decode(b, StreamFormat)) = Len(fs)
        /\ \A i \in 1..Len(fs) : Decode(b, StreamFormat)[i] = b[(i - 1) * Bytes + 1].frame
    BY <1>5, <1>6, <2>1, DecodeAligned
  <2>3. \A i \in 1..Len(fs) : Decode(b, StreamFormat)[i] = fs[i]
    BY <1>7, <2>2
  <2> QED
    BY <2>2, <2>3, SeqEqual
<1> QED
  BY <1>5, <1>6, <1>7, <1>8 DEF b

LEMMA Fragment ==
  ASSUME NEW f \in Nat, NEW tear \in 0..Bytes-1
  PROVE  LET b == Oldest(Encode(<<f>>, StreamFormat), tear)
         IN /\ b \in Seq(Byte) /\ Aligned(b) /\ Len(b) = tear /\ Decode(b, StreamFormat) = <<>>
            /\ \A j \in 1..tear : b[j].frame = f
<1> DEFINE e == Encode(<<f>>, StreamFormat)
           b == Oldest(e, tear)
<1>1. <<f>> \in Seq(Numbered) /\ Len(<<f>>) = 1 /\ <<f>>[1] = f
  BY DEF Numbered
<1>2. e \in Seq(Byte) /\ Aligned(e) /\ Len(e) = Len(<<f>>) * Bytes
      /\ \A i \in 1..Len(<<f>>) : e[(i - 1) * Bytes + 1].frame = <<f>>[i]
  BY <1>1, Encoded
<1>3. Len(e) = Bytes /\ e[1].frame = f /\ tear \in 0..Len(e)
  <2>1. 1 \in 1..Len(<<f>>) /\ (1 - 1) * Bytes + 1 = 1 /\ 1 * Bytes = Bytes
    BY <1>1, Sizes
  <2>2. e[(1 - 1) * Bytes + 1].frame = <<f>>[1]
    BY <1>2, <2>1
  <2> HIDE DEF e
  <2> QED
    BY <1>1, <1>2, <2>1, <2>2, Sizes
<1> HIDE DEF e
<1>4. b = SubSeq(e, 1, tear)
  <2>1. tear \in Int /\ Lesser(Positive(tear), Len(e)) = tear
    BY <1>3, Sizes DEF Lesser, Positive
  <2> QED
    BY <2>1 DEF Oldest
<1>5. b \in Seq(Byte) /\ Len(b) = tear /\ \A j \in 1..tear : b[j] = e[j]
  BY <1>2, <1>3, <1>4, Halves
<1> HIDE DEF b
<1>6. \A j \in 1..Bytes : e[j] = WireByte(f, j, Bytes)
  <2> SUFFICES ASSUME NEW j \in 1..Bytes PROVE e[j] = WireByte(f, j, Bytes)
    OBVIOUS
  <2>1. 0 * Bytes + j = j /\ 0 * Bytes + 1 = 1 /\ 0 \in Nat /\ j <= Len(e)
    BY <1>3, Sizes
  <2>2. 0 * Bytes + j <= Len(e) => e[0 * Bytes + j] = WireByte(e[0 * Bytes + 1].frame, j, Bytes)
    BY <1>2, <2>1, AlignedPlaces
  <2> QED
    BY <1>3, <2>1, <2>2
<1>7. \A j \in 1..tear : b[j] = WireByte(f, j, Bytes) /\ j \in 1..Bytes /\ b[j].frame = f
  <2> SUFFICES ASSUME NEW j \in 1..tear
               PROVE  b[j] = WireByte(f, j, Bytes) /\ j \in 1..Bytes /\ b[j].frame = f
    OBVIOUS
  <2>1. j \in 1..Bytes
    BY Sizes
  <2>2. b[j] = WireByte(f, j, Bytes)
    BY <1>5, <1>6, <2>1
  <2> QED
    BY <2>1, <2>2 DEF WireByte
<1>8. Aligned(b)
  <2> SUFFICES ASSUME NEW i \in Nat, NEW k \in 1..Bytes, i * Bytes + k <= tear
               PROVE  b[i * Bytes + k] = WireByte(b[i * Bytes + 1].frame, k, Bytes)
    BY <1>5, AlignedPlaces
  <2>1. i = 0
    <3>1. i >= 1 => i * Bytes = 1 * Bytes + (i - 1) * Bytes /\ (i - 1) * Bytes \in Nat
      BY Before, Sizes
    <3> QED
      BY <3>1, Sizes
  <2>2. i * Bytes + k = k /\ i * Bytes + 1 = 1 /\ k \in 1..tear /\ 1 \in 1..tear
    BY <2>1, Sizes
  <2> QED
    BY <1>7, <2>2
<1>9. Decode(b, StreamFormat) = <<>>
  <2>1. Len(b) \div Bytes = 0
    <3>1. Len(b) = 0 * Bytes + tear /\ 0 \in Nat
      BY <1>5, Sizes
    <3> QED
      BY <3>1, WholeFrames
  <2>2. Decode(b, StreamFormat) \in Seq(Numbered) /\ Len(Decode(b, StreamFormat)) = 0
    BY <1>5, <1>8, <2>1, DecodeAligned
  <2> QED
    BY <2>2
<1> QED
  BY <1>5, <1>7, <1>8, <1>9 DEF b, e

-----------------------------------------------------------------------------
(* The order of frames                                                     *)

Below(s, t) == \A x \in Numbers(s), y \in Numbers(t) : x < y

LEMMA NumbersAre ==
  ASSUME NEW s \in Seq(Numbered)
  PROVE  /\ \A x : x \in Numbers(s) <=> x \in Nat /\ \E i \in 1..Len(s) : s[i] = x
         /\ Rising(s) <=> \A i, j \in 1..Len(s) :
                            i < j /\ s[i] \in Nat /\ s[j] \in Nat => s[i] < s[j]
         /\ Silence \in ToSet(s) <=> \E i \in 1..Len(s) : s[i] = Silence
         /\ Garbled \notin ToSet(s)
<1>1. DOMAIN s = 1..Len(s) /\ \A i \in 1..Len(s) : s[i] \in Numbered
  OBVIOUS
<1>2. \A x \in Numbered : x \in Nat <=> x \notin {Silence, Garbled}
  BY Apart DEF Numbered
<1>3. \A x : x \in ToSet(s) <=> \E i \in 1..Len(s) : s[i] = x
  BY <1>1 DEF ToSet
<1>4. \A x : x \in Numbers(s) <=> x \in Nat /\ \E i \in 1..Len(s) : s[i] = x
  BY <1>1, <1>2, <1>3, Apart DEF Numbers
<1>5. \A x, y \in Numbered : {x, y} \cap {Silence, Garbled} = {} <=> x \in Nat /\ y \in Nat
  BY <1>2
<1>6. Rising(s) <=> \A i, j \in 1..Len(s) :
                      i < j /\ s[i] \in Nat /\ s[j] \in Nat => s[i] < s[j]
  BY <1>1, <1>5 DEF Rising
<1>7. Garbled \notin ToSet(s)
  BY <1>1, <1>3, Apart DEF Numbered
<1> QED
  BY <1>3, <1>4, <1>6, <1>7

LEMMA Joined ==
  ASSUME NEW s \in Seq(Numbered), NEW t \in Seq(Numbered)
  PROVE  /\ Numbers(s \o t) = Numbers(s) \cup Numbers(t)
         /\ Rising(s \o t) <=> Rising(s) /\ Rising(t) /\ Below(s, t)
         /\ Silence \in ToSet(s \o t) <=> Silence \in ToSet(s) \/ Silence \in ToSet(t)
<1> DEFINE c == s \o t
<1>1. /\ c \in Seq(Numbered) /\ Len(c) = Len(s) + Len(t) /\ Len(s) \in Nat /\ Len(t) \in Nat
      /\ \A i \in 1..Len(s) : c[i] = s[i]
      /\ \A i \in 1..Len(t) : c[Len(s) + i] = t[i]
  OBVIOUS
<1> HIDE DEF c
<1>2. \A i \in 1..Len(c) : i \in 1..Len(s) \/ (i - Len(s) \in 1..Len(t) /\ i = Len(s) + (i - Len(s)))
  BY <1>1
<1>3. \A i \in 1..Len(s) : i \in 1..Len(c)
  BY <1>1
<1>4. \A i \in 1..Len(t) : Len(s) + i \in 1..Len(c)
  BY <1>1
<1>5. \A x : (\E i \in 1..Len(c) : c[i] = x)
               <=> (\E i \in 1..Len(s) : s[i] = x) \/ (\E i \in 1..Len(t) : t[i] = x)
  <2>1. ASSUME NEW i \in 1..Len(c)
        PROVE  (\E j \in 1..Len(s) : s[j] = c[i]) \/ (\E j \in 1..Len(t) : t[j] = c[i])
    <3>1. CASE i \in 1..Len(s)
      BY <1>1, <3>1
    <3>2. CASE i - Len(s) \in 1..Len(t) /\ i = Len(s) + (i - Len(s))
      <4>1. c[Len(s) + (i - Len(s))] = t[i - Len(s)]
        BY <1>1, <3>2
      <4> QED
        BY <3>2, <4>1
    <3> QED
      BY <1>2, <3>1, <3>2
  <2>2. ASSUME NEW j \in 1..Len(s) PROVE \E i \in 1..Len(c) : c[i] = s[j]
    BY <1>1, <1>3
  <2>3. ASSUME NEW j \in 1..Len(t) PROVE \E i \in 1..Len(c) : c[i] = t[j]
    BY <1>1, <1>4
  <2>4. ASSUME NEW x, NEW i \in 1..Len(c), c[i] = x
        PROVE  (\E j \in 1..Len(s) : s[j] = x) \/ (\E j \in 1..Len(t) : t[j] = x)
    BY <2>1, <2>4
  <2>5. ASSUME NEW x, NEW j \in 1..Len(s), s[j] = x PROVE \E i \in 1..Len(c) : c[i] = x
    BY <2>2, <2>5
  <2>6. ASSUME NEW x, NEW j \in 1..Len(t), t[j] = x PROVE \E i \in 1..Len(c) : c[i] = x
    BY <2>3, <2>6
  <2> QED
    BY <2>4, <2>5, <2>6
<1>6. Numbers(c) = Numbers(s) \cup Numbers(t)
  <2>1. \A x : x \in Numbers(c) <=> x \in Numbers(s) \/ x \in Numbers(t)
    BY <1>1, <1>5, NumbersAre
  <2> QED
    BY <2>1
<1>7. Silence \in ToSet(c) <=> Silence \in ToSet(s) \/ Silence \in ToSet(t)
  BY <1>1, <1>5, NumbersAre
<1>8. ASSUME Rising(c) PROVE Rising(s) /\ Rising(t) /\ Below(s, t)
  <2>1. \A i, j \in 1..Len(c) : i < j /\ c[i] \in Nat /\ c[j] \in Nat => c[i] < c[j]
    BY <1>1, <1>8, NumbersAre
  <2>2. Rising(s)
    <3>1. \A i, j \in 1..Len(s) : i < j /\ s[i] \in Nat /\ s[j] \in Nat => s[i] < s[j]
      BY <1>1, <1>3, <2>1
    <3> QED
      BY <3>1, NumbersAre
  <2>3. Rising(t)
    <3>1. ASSUME NEW i \in 1..Len(t), NEW j \in 1..Len(t), i < j, t[i] \in Nat, t[j] \in Nat
          PROVE  t[i] < t[j]
      <4>1. c[Len(s) + i] = t[i] /\ c[Len(s) + j] = t[j] /\ Len(s) + i < Len(s) + j
            /\ Len(s) + i \in 1..Len(c) /\ Len(s) + j \in 1..Len(c)
        BY <1>1, <1>4, <3>1
      <4> QED
        BY <2>1, <3>1, <4>1
    <3> QED
      BY <3>1, NumbersAre
  <2>4. ASSUME NEW x \in Numbers(s), NEW y \in Numbers(t) PROVE x < y
    <3>1. x \in Nat /\ y \in Nat /\ (\E i \in 1..Len(s) : s[i] = x) /\ (\E j \in 1..Len(t) : t[j] = y)
      BY NumbersAre
    <3>2. PICK i \in 1..Len(s) : s[i] = x
      BY <3>1
    <3>3. PICK j \in 1..Len(t) : t[j] = y
      BY <3>1
    <3>4. c[i] = x /\ c[Len(s) + j] = y /\ i < Len(s) + j /\ i \in 1..Len(c) /\ Len(s) + j \in 1..Len(c)
      BY <1>1, <1>3, <1>4, <3>2, <3>3
    <3> QED
      BY <2>1, <3>1, <3>4
  <2> QED
    BY <2>2, <2>3, <2>4 DEF Below
<1>9. ASSUME Rising(s), Rising(t), Below(s, t) PROVE Rising(c)
  <2> SUFFICES ASSUME NEW i \in 1..Len(c), NEW j \in 1..Len(c), i < j, c[i] \in Nat, c[j] \in Nat
               PROVE  c[i] < c[j]
    BY <1>1, NumbersAre
  <2>1. CASE j \in 1..Len(s)
    <3>1. i \in 1..Len(s) /\ c[i] = s[i] /\ c[j] = s[j]
      BY <1>1, <2>1
    <3>2. \A m, n \in 1..Len(s) : m < n /\ s[m] \in Nat /\ s[n] \in Nat => s[m] < s[n]
      BY <1>9, NumbersAre
    <3> QED
      BY <2>1, <3>1, <3>2
  <2>2. CASE i \notin 1..Len(s)
    <3> DEFINE m == i - Len(s)
               n == j - Len(s)
    <3>1. m \in 1..Len(t) /\ n \in 1..Len(t) /\ m < n /\ i = Len(s) + m /\ j = Len(s) + n
      BY <1>1, <2>2
    <3> HIDE DEF m, n
    <3>2. c[i] = t[m] /\ c[j] = t[n]
      BY <1>1, <3>1
    <3>3. \A a, b \in 1..Len(t) : a < b /\ t[a] \in Nat /\ t[b] \in Nat => t[a] < t[b]
      BY <1>9, NumbersAre
    <3> QED
      BY <3>1, <3>2, <3>3
  <2>3. CASE i \in 1..Len(s) /\ j \notin 1..Len(s)
    <3> DEFINE n == j - Len(s)
    <3>1. n \in 1..Len(t) /\ j = Len(s) + n
      BY <1>1, <2>3
    <3> HIDE DEF n
    <3>2. c[i] = s[i] /\ c[j] = t[n]
      BY <1>1, <2>3, <3>1
    <3>3. c[i] \in Numbers(s) /\ c[j] \in Numbers(t)
      BY <2>3, <3>1, <3>2, NumbersAre
    <3> QED
      BY <1>9, <3>3 DEF Below
  <2> QED
    BY <2>1, <2>2, <2>3
<1> QED
  BY <1>6, <1>7, <1>8, <1>9 DEF c

\* Frames that drop out of a stream in order were in it once, and the rest stays
\* in order.
LEMMA Thinned ==
  ASSUME NEW a \in Seq(Numbered), NEW d \in Seq(Numbered), NEW b \in Seq(Numbered), Rising((a \o d) \o b)
  PROVE  /\ Rising(a \o b)
         /\ Numbers((a \o d) \o b) = Numbers(a \o b) \cup Numbers(d)
         /\ Numbers(d) \cap Numbers(a \o b) = {}
<1>1. a \o d \in Seq(Numbered)
  OBVIOUS
<1>2. Rising(a \o d) /\ Rising(b) /\ Below(a \o d, b)
  BY <1>1, Joined
<1>3. Rising(a) /\ Below(a, d)
  BY <1>2, Joined
<1>4. /\ Numbers(a \o d) = Numbers(a) \cup Numbers(d)
      /\ Numbers((a \o d) \o b) = Numbers(a \o d) \cup Numbers(b)
      /\ Numbers(a \o b) = Numbers(a) \cup Numbers(b)
  BY <1>1, Joined
<1>5. Below(a, b) /\ Below(d, b)
  BY <1>2, <1>4 DEF Below
<1>6. Rising(a \o b)
  BY <1>2, <1>3, <1>5, Joined
<1>7. ASSUME NEW x \in Numbers(d), x \in Numbers(a) \cup Numbers(b) PROVE FALSE
  <2>1. x \in Nat
    BY NumbersAre
  <2>2. x < x
    BY <1>3, <1>5, <1>7 DEF Below
  <2> QED
    BY <2>1, <2>2
<1> QED
  BY <1>4, <1>6, <1>7

\* Silence between frames changes neither them nor their order.
LEMMA QuietBetween ==
  ASSUME NEW a \in Seq(Numbered), NEW b \in Seq(Numbered), NEW z \in Seq({Silence}), Rising(a \o b)
  PROVE  /\ z \in Seq(Numbered) /\ Rising((a \o z) \o b) /\ Numbers((a \o z) \o b) = Numbers(a \o b)
         /\ Silence \in ToSet(z) <=> z # <<>>
<1>1. z \in Seq(Numbered) /\ \A i \in 1..Len(z) : z[i] = Silence
  BY DEF Numbered
<1>2. \A x : x \notin Numbers(z)
  BY <1>1, NumbersAre, Apart
<1>3. Rising(z)
  BY <1>1, NumbersAre, Apart
<1>4. Silence \in ToSet(z) <=> z # <<>>
  BY <1>1, NumbersAre
<1>5. Rising(a) /\ Rising(b) /\ Below(a, b) /\ Below(a, z) /\ Below(z, b)
  BY <1>2, Joined DEF Below
<1>6. Rising(a \o z) /\ Numbers(a \o z) = Numbers(a) \cup Numbers(z) /\ a \o z \in Seq(Numbered)
  BY <1>1, <1>3, <1>5, Joined
<1>7. Numbers(a \o z) = Numbers(a)
  BY <1>2, <1>6
<1>8. Below(a \o z, b)
  BY <1>5, <1>7 DEF Below
<1>9. Rising((a \o z) \o b) /\ Numbers((a \o z) \o b) = Numbers(a \o z) \cup Numbers(b)
      /\ Numbers(a \o b) = Numbers(a) \cup Numbers(b)
  BY <1>5, <1>6, <1>8, Joined
<1> QED
  BY <1>1, <1>4, <1>7, <1>9

-----------------------------------------------------------------------------
(* The invariant                                                           *)

OnWire   == Decode(inFifo \o pending, StreamFormat)
InFlight == Decode(outFifo, StreamFormat)

IsRing(ring) == ring = [held |-> ring.held, state |-> ring.state] /\ ring.held \in Seq(Nat)

StreamTypes ==
  /\ outFifo \in Seq(Byte) /\ inFifo \in Seq(Byte) /\ pending \in Seq(Byte)
  /\ IsRing(inputRing) /\ IsRing(outputRing)
  /\ heard \in Seq(Numbered) /\ sent \in Nat /\ stats \in [Counters -> Nat]

\* The FIFO and the carryover behind it are whole frames on their way to the wire;
\* the bytes from the host may end within one.
Framed ==
  /\ Aligned(outFifo) /\ InFlight \in Seq(Nat)
  /\ Aligned(inFifo \o pending)
  /\ \E m \in Nat : Len(inFifo \o pending) = m * Bytes

\* What is on its way rises, up to the frame the host sent last.
OrderHolds ==
  /\ Rising(InOrderOfArrival) /\ Numbers(InOrderOfArrival) \subseteq 1..sent
  /\ TornWaits => Last(outFifo).frame = sent /\ sent \in 1..sent \ Numbers(InOrderOfArrival)

\* Silence is where an underrun was counted, and only behind the output ring.
SilenceHolds ==
  /\ Silence \in ToSet(heard) \/ Silence \in ToSet(OnWire) <=> stats["outputUnderruns"] > 0
  /\ stats["inputUnderruns"] = 0

StreamInv == StreamTypes /\ Framed /\ OrderHolds /\ LossCounted /\ SilenceHolds

LEMMA Widened == \A s \in Seq(Nat) : s \in Seq(Numbered) /\ Silence \notin ToSet(s)
<1> SUFFICES ASSUME NEW s \in Seq(Nat) PROVE s \in Seq(Numbered) /\ Silence \notin ToSet(s)
  OBVIOUS
<1>1. s \in Seq(Numbered) /\ \A i \in 1..Len(s) : s[i] \in Nat
  BY DEF Numbered
<1>2. Silence \notin ToSet(s)
  BY <1>1, NumbersAre, Apart
<1> QED
  BY <1>1, <1>2

\* What is on its way is a sequence of frames.
LEMMA Segments ==
  ASSUME StreamTypes, Framed
  PROVE  /\ heard \in Seq(Numbered) /\ OnWire \in Seq(Numbered) /\ outputRing.held \in Seq(Numbered)
         /\ inputRing.held \in Seq(Numbered) /\ InFlight \in Seq(Nat) /\ InFlight \in Seq(Numbered)
         /\ outFifo \in Seq(Byte)
<1>1. outFifo \in Seq(Byte) /\ inFifo \o pending \in Seq(Byte)
  <2>1. inFifo \in Seq(Byte) /\ pending \in Seq(Byte) /\ outFifo \in Seq(Byte)
    BY DEF StreamTypes
  <2> QED
    BY <2>1
<1>2. OnWire \in Seq(Numbered)
  BY <1>1, DecodeAligned DEF Framed, OnWire
<1>3. InFlight \in Seq(Nat)
  BY DEF Framed
<1> QED
  BY <1>1, <1>2, <1>3, Widened DEF StreamTypes, IsRing

\* It does not matter in which order the pieces of the way are put together.
LEMMA Together ==
  ASSUME NEW a \in Seq(Numbered), NEW b \in Seq(Numbered), NEW c \in Seq(Numbered)
  PROVE  a \o b \in Seq(Numbered) /\ (a \o b) \o c = a \o (b \o c)
BY ConcatAssociative, ConcatProperties

\* Equality by another name: the provers take one apart and match the other.
Same(s, t) == s = t

LEMMA Associates ==
  ASSUME NEW a \in Seq(Numbered), NEW b \in Seq(Numbered), NEW c \in Seq(Numbered)
  PROVE  Same((a \o b) \o c, a \o (b \o c))
BY Together DEF Same

LEMMA Regrouped ==
  ASSUME NEW x \in Seq(Numbered), NEW a \in Seq(Numbered), NEW f \in Seq(Numbered), NEW q \in Seq(Numbered)
  PROVE  Same((x \o a) \o (f \o q), (x \o (a \o f)) \o q)
<1> DEFINE fq == f \o q
           xa == x \o a
           af == a \o f
<1>1. fq \in Seq(Numbered) /\ af \in Seq(Numbered) /\ xa \in Seq(Numbered)
  BY Together
<1>2. xa \o f = x \o af
  BY Together
<1>3. (xa \o f) \o q = xa \o fq
  BY <1>1, Together
<1> QED
  BY <1>2, <1>3 DEF Same

LEMMA Shifted ==
  ASSUME NEW x \in Seq(Numbered), NEW q \in Seq(Numbered), NEW a \in Seq(Numbered), NEW f \in Seq(Numbered),
         NEW d \in Seq(Numbered), NEW k \in Seq(Numbered), Same(a \o f, d \o k)
  PROVE  Same((x \o a) \o (f \o q), (x \o d) \o (k \o q))
<1>1. Same((x \o a) \o (f \o q), (x \o (a \o f)) \o q)
  BY Regrouped
<1>2. Same((x \o d) \o (k \o q), (x \o (d \o k)) \o q)
  BY Regrouped
<1> QED
  BY <1>1, <1>2 DEF Same

LEMMA SilencesAre ==
  ASSUME StreamTypes, Framed
  PROVE  Silence \in ToSet(InOrderOfArrival) <=> Silence \in ToSet(heard) \/ Silence \in ToSet(OnWire)
<1> DEFINE a == heard \o OnWire
           b == a \o outputRing.held
           c == b \o inputRing.held
<1>1. /\ heard \in Seq(Numbered) /\ OnWire \in Seq(Numbered) /\ outputRing.held \in Seq(Numbered)
      /\ inputRing.held \in Seq(Numbered) /\ InFlight \in Seq(Numbered)
  BY Segments
<1>2. a \in Seq(Numbered) /\ b \in Seq(Numbered) /\ c \in Seq(Numbered)
  BY <1>1, Together
<1>3. InOrderOfArrival = c \o InFlight
  BY DEF InOrderOfArrival, OnWire, InFlight
<1>4. Silence \notin ToSet(outputRing.held) /\ Silence \notin ToSet(inputRing.held)
      /\ Silence \notin ToSet(InFlight)
  BY Segments, Widened DEF StreamTypes, IsRing
<1> HIDE DEF a, b, c
<1>5. Silence \in ToSet(c \o InFlight) <=> Silence \in ToSet(c)
  BY <1>1, <1>2, <1>4, Joined
<1>6. Silence \in ToSet(c) <=> Silence \in ToSet(b)
  BY <1>1, <1>2, <1>4, Joined DEF c
<1>7. Silence \in ToSet(b) <=> Silence \in ToSet(a)
  BY <1>1, <1>2, <1>4, Joined DEF b
<1>8. Silence \in ToSet(a) <=> Silence \in ToSet(heard) \/ Silence \in ToSet(OnWire)
  BY <1>1, <1>2, Joined DEF a
<1> QED
  BY <1>3, <1>5, <1>6, <1>7, <1>8

\* The invariant is what the run checks.
LEMMA InvIsFaithful == StreamInv => StreamIsFaithful
<1> SUFFICES ASSUME StreamInv PROVE StreamIsFaithful
  OBVIOUS
<1>1. InOrder /\ LossCounted
  BY DEF StreamInv, OrderHolds, InOrder
<1>2. SilenceCounted
  <2>1. Silence \notin ToSet(outputRing.held)
    BY Widened DEF StreamInv, StreamTypes, IsRing
  <2> QED
    BY <2>1, SilencesAre DEF StreamInv, SilenceHolds, SilenceCounted
<1>3. TearContained
  <2>1. InOrderOfArrival \in Seq(Numbered)
    <3>1. /\ heard \in Seq(Numbered) /\ OnWire \in Seq(Numbered) /\ outputRing.held \in Seq(Numbered)
          /\ inputRing.held \in Seq(Numbered) /\ InFlight \in Seq(Numbered)
      BY Segments DEF StreamInv
    <3> QED
      BY <3>1, Together DEF InOrderOfArrival, OnWire, InFlight
  <2> QED
    BY <2>1, NumbersAre DEF TearContained
<1> QED
  BY <1>1, <1>2, <1>3 DEF StreamIsFaithful

-----------------------------------------------------------------------------
(* What the steps share                                                    *)

LEMMA Counting ==
  ASSUME stats \in [Counters -> Nat], NEW happened
  PROVE  /\ Counted(happened) \in [Counters -> Nat]
         /\ \A c \in Counters : /\ c \in happened => Counted(happened)[c] >= 1
                                /\ c \notin happened => Counted(happened)[c] = stats[c]
BY Sizes DEF Counted, Lesser

Losses == stats["inputOverruns"] + stats["outputOverruns"] + stats["malformedPayloads"]

\* A step after which frames are missing must have counted, one that misses none
\* must not.
LEMMA LossStep ==
  ASSUME LossCounted, Numbers(InOrderOfArrival) \subseteq 1..sent, Torn \subseteq 1..sent, sent' = sent,
         NEW gone, gone \cap (Numbers(InOrderOfArrival)' \cup Torn') = {},
         Numbers(InOrderOfArrival) \cup Torn = Numbers(InOrderOfArrival)' \cup Torn' \cup gone,
         IF gone = {} THEN Losses' = Losses ELSE Losses' > 0
  PROVE  LossCounted'
<1>1. CASE gone = {}
  <2>1. Lost' = Lost
    BY <1>1 DEF Lost
  <2> QED
    BY <1>1, <2>1 DEF LossCounted, Losses
<1>2. CASE gone # {}
  <2>1. PICK x \in gone : TRUE
    BY <1>2
  <2>2. x \in 1..sent /\ x \notin Numbers(InOrderOfArrival)' \cup Torn'
    BY <2>1
  <2>3. Lost' # {}
    BY <2>2 DEF Lost
  <2> QED
    BY <1>2, <2>3 DEF LossCounted, Losses
<1> QED
  BY <1>1, <1>2

\* A ring keeps the newest frames; what it drops is at the front.
LEMMA RingWrite ==
  ASSUME NEW ring, IsRing(ring), NEW src \in Seq(Nat)
  PROVE  /\ IsRing(Written(ring, src))
         /\ \E d \in Seq(Nat) : /\ ring.held \o src = d \o Written(ring, src).held
                                /\ Dropped(ring.held, src) > 0 <=> Numbers(d) # {}
<1> DEFINE all == ring.held \o src
           n == Positive(Len(all) - Capacity)
           d == SubSeq(all, 1, n)
           k == SubSeq(all, n + 1, Len(all))
<1>1. all \in Seq(Nat) /\ Len(all) = Len(ring.held) + Len(src) /\ Len(all) \in Nat
      /\ Len(ring.held) \in Nat /\ Len(src) \in Nat
  BY DEF IsRing
<1> HIDE DEF all
<1>2. n \in 0..Len(all)
  BY <1>1, Sizes DEF Positive
<1>3. Dropped(ring.held, src) = n
  BY <1>1, Sizes DEF Dropped
<1>4. Written(ring, src).held = k
      /\ Written(ring, src) = [held |-> k, state |-> Written(ring, src).state]
  BY DEF Written, Newest, all
<1> HIDE DEF n
<1>5. d \in Seq(Nat) /\ k \in Seq(Nat) /\ d \o k = all /\ Len(d) = n
      /\ \A i \in 1..n : d[i] = all[i]
  BY <1>1, <1>2, Halves
<1>6. n > 0 <=> Numbers(d) # {}
  <2> HIDE DEF d
  <2>0. d \in Seq(Numbered)
    BY <1>5, Widened
  <2>1. \A x : x \in Numbers(d) <=> x \in Nat /\ \E i \in 1..Len(d) : d[i] = x
    BY <2>0, NumbersAre
  <2>2. n > 0 => 1 \in 1..Len(d) /\ d[1] \in Nat
    BY <1>2, <1>5
  <2>3. n > 0 => d[1] \in Numbers(d)
    BY <2>1, <2>2
  <2>4. ~(n > 0) => Numbers(d) = {}
    <3>1. ~(n > 0) => ~\E i \in 1..Len(d) : TRUE
      BY <1>2, <1>5
    <3> QED
      BY <2>1, <3>1
  <2> QED
    BY <2>3, <2>4
<1> QED
  BY <1>3, <1>4, <1>5, <1>6 DEF IsRing, all

\* Frames f join a behind x; d drops out at the front of a, and k is kept of it.
LEMMA Passed ==
  ASSUME NEW x \in Seq(Numbered), NEW q \in Seq(Numbered), NEW a \in Seq(Numbered), NEW f \in Seq(Numbered),
         NEW d \in Seq(Numbered), NEW k \in Seq(Numbered),
         Same(a \o f, d \o k)
  PROVE  Rising((x \o a) \o (f \o q)) =>
           /\ Rising((x \o k) \o q)
           /\ Numbers((x \o a) \o (f \o q)) = Numbers((x \o k) \o q) \cup Numbers(d)
           /\ Numbers(d) \cap Numbers((x \o k) \o q) = {}
<1>1. Same((x \o a) \o (f \o q), (x \o d) \o (k \o q))
  BY Shifted
<1>2. Same((x \o k) \o q, x \o (k \o q))
  BY Associates
<1>3. k \o q \in Seq(Numbered)
  OBVIOUS
<1> SUFFICES ASSUME Rising((x \o a) \o (f \o q))
             PROVE  /\ Rising((x \o k) \o q)
                    /\ Numbers((x \o a) \o (f \o q)) = Numbers((x \o k) \o q) \cup Numbers(d)
                    /\ Numbers(d) \cap Numbers((x \o k) \o q) = {}
  OBVIOUS
<1> DEFINE kq == k \o q
           old == (x \o a) \o (f \o q)
           new == (x \o k) \o q
<1> HIDE DEF kq, old, new
<1>4. kq \in Seq(Numbered) /\ new = x \o kq
  BY <1>2, <1>3 DEF Same, kq, new
<1>5. Rising((x \o d) \o kq) /\ old = (x \o d) \o kq
  BY <1>1 DEF Same, old, kq
<1>6. /\ Rising(x \o kq)
      /\ Numbers((x \o d) \o kq) = Numbers(x \o kq) \cup Numbers(d)
      /\ Numbers(d) \cap Numbers(x \o kq) = {}
  BY <1>4, <1>5, Thinned
<1> QED
  BY <1>4, <1>5, <1>6 DEF old, new

LEMMA Parts ==
  ASSUME NEW s \in Seq(Numbered), NEW t \in Seq(Numbered), s \o t \in Seq(Nat)
  PROVE  s \in Seq(Nat) /\ t \in Seq(Nat)
<1> DEFINE c == s \o t
<1>1. /\ Len(c) = Len(s) + Len(t) /\ Len(s) \in Nat /\ Len(t) \in Nat
      /\ \A i \in 1..Len(s) : c[i] = s[i]
      /\ \A i \in 1..Len(t) : c[Len(s) + i] = t[i]
  OBVIOUS
<1>2. \A i \in 1..Len(c) : c[i] \in Nat
  OBVIOUS
<1> HIDE DEF c
<1>3. \A i \in 1..Len(s) : s[i] \in Nat
  BY <1>1, <1>2
<1>4. ASSUME NEW i \in 1..Len(t) PROVE t[i] \in Nat
  <2>1. Len(s) + i \in 1..Len(c)
    BY <1>1
  <2> QED
    BY <1>1, <1>2, <2>1
<1> QED
  BY <1>3, <1>4

LEMMA NothingRead ==
  Decode(<<>>, StreamFormat) = <<>> /\ Aligned(<<>>) /\ <<>> \in Seq(Byte) /\ Len(<<>>) % Bytes = 0
<1>1. 0 \div Bytes = 0 /\ 0 % Bytes = 0
  <2>1. 0 * Bytes + 0 = 0 /\ 0 \in 0..Bytes-1
    BY Sizes
  <2>2. (0 * Bytes + 0) \div Bytes = 0 /\ (0 * Bytes + 0) % Bytes = 0
    BY <2>1, WholeFrames
  <2> QED
    BY <2>1, <2>2
<1>2. <<>> \in Seq(Byte) /\ Len(<<>>) = 0
  OBVIOUS
<1>3. Aligned(<<>>)
  BY <1>2 DEF Aligned
<1>4. Decode(<<>>, StreamFormat) \in Seq(Numbered) /\ Len(Decode(<<>>, StreamFormat)) = 0
  BY <1>1, <1>2, <1>3, DecodeAligned
<1> QED
  BY <1>1, <1>2, <1>3, <1>4

\* The one bounded read of a pass: whole frames, or everything with the tear.
LEMMA BoundedRead ==
  ASSUME NEW b \in Seq(Byte), Aligned(b), Decode(b, StreamFormat) \in Seq(Nat)
  PROVE  LET p == Oldest(b, MaxPayload(StreamFormat))
             r == Rest(b, MaxPayload(StreamFormat))
         IN /\ r \in Seq(Byte) /\ Aligned(r)
            /\ Decode(p, StreamFormat) \in Seq(Nat) /\ Decode(r, StreamFormat) \in Seq(Nat)
            /\ Decode(b, StreamFormat) = Decode(p, StreamFormat) \o Decode(r, StreamFormat)
            /\ IF Len(p) % Bytes # 0
                 THEN Len(b) % Bytes # 0 /\ Len(r) % Bytes = 0
                 ELSE /\ Len(b) % Bytes # 0 <=> Len(r) % Bytes # 0
                      /\ Len(b) % Bytes # 0 => Last(r) = Last(b)
<1> DEFINE n == MaxPayload(StreamFormat)
           p == Oldest(b, n)
           r == Rest(b, n)
<1>1. n = MaxPacket * Bytes /\ n \in Nat /\ MaxPacket \in Nat /\ Len(b) \in Nat
  BY Before, Sizes DEF MaxPayload
<1>2. p = SubSeq(b, 1, Lesser(n, Len(b))) /\ r = SubSeq(b, Lesser(n, Len(b)) + 1, Len(b))
  <2>1. Positive(n) = n
    BY <1>1 DEF Positive
  <2> HIDE DEF n
  <2> QED
    BY <2>1 DEF Oldest, Rest
<1> HIDE DEF n, p, r
<1>3. CASE n <= Len(b)
  <2>1. Lesser(n, Len(b)) = n
    BY <1>1, <1>3 DEF Lesser
  <2>2. p = SubSeq(b, 1, MaxPacket * Bytes) /\ r = SubSeq(b, MaxPacket * Bytes + 1, Len(b))
    BY <1>1, <1>2, <2>1
  <2>3. /\ p \in Seq(Byte) /\ Aligned(p) /\ Len(p) = MaxPacket * Bytes
        /\ r \in Seq(Byte) /\ Aligned(r) /\ Len(r) = Len(b) - MaxPacket * Bytes
        /\ \A j \in 1..Len(r) : r[j] = b[MaxPacket * Bytes + j]
        /\ Decode(b, StreamFormat) = Decode(p, StreamFormat) \o Decode(r, StreamFormat)
    BY <1>1, <1>3, <2>2, AlignedCut
  <2>4. Decode(p, StreamFormat) \in Seq(Numbered) /\ Decode(r, StreamFormat) \in Seq(Numbered)
    BY <2>3, DecodeAligned
  <2>5. Decode(p, StreamFormat) \in Seq(Nat) /\ Decode(r, StreamFormat) \in Seq(Nat)
    BY <2>3, <2>4, Parts
  <2>6. Len(p) % Bytes = 0
    <3>1. Len(p) = MaxPacket * Bytes + 0 /\ 0 \in 0..Bytes-1
      BY <1>1, <2>3, Sizes
    <3> QED
      BY <1>1, <3>1, WholeFrames
  <2>7. Len(b) % Bytes = Len(r) % Bytes
    <3> DEFINE m == Len(r) \div Bytes
               t == Len(r) % Bytes
    <3>1. Len(r) \in Nat
      BY <2>3
    <3>2. m \in Nat /\ t \in 0..Bytes-1 /\ Len(r) = m * Bytes + t
      BY <3>1, WholeFrames
    <3> HIDE DEF m, t
    <3>3. MaxPacket * Bytes + m * Bytes = (MaxPacket + m) * Bytes /\ MaxPacket + m \in Nat
          /\ MaxPacket * Bytes \in Nat /\ m * Bytes \in Nat
      BY <1>1, <3>2, Before, Sizes
    <3> DEFINE x == MaxPacket * Bytes
               y == m * Bytes
               z == (MaxPacket + m) * Bytes
    <3>4. Len(b) = (MaxPacket + m) * Bytes + t
      <4>1. x + y = z /\ x \in Nat /\ y \in Nat /\ Len(r) = Len(b) - x /\ Len(r) = y + t
        BY <2>3, <3>2, <3>3
      <4>2. t \in Int
        BY <3>2, Sizes
      <4> HIDE DEF x, y, z
      <4>3. Len(b) = z + t
        BY <1>1, <3>1, <4>1, <4>2
      <4> QED
        BY <4>3 DEF z
    <3>5. Len(b) % Bytes = t
      BY <3>2, <3>3, <3>4, WholeFrames
    <3> QED
      BY <3>5 DEF t
  <2>8. Len(r) % Bytes # 0 => Last(r) = Last(b)
    <3> SUFFICES ASSUME Len(r) % Bytes # 0 PROVE Last(r) = Last(b)
      OBVIOUS
    <3>1. Len(r) # 0
      BY NothingRead
    <3>2. Len(r) \in 1..Len(r) /\ n + Len(r) = Len(b)
      BY <1>1, <2>3, <3>1
    <3>3. r[Len(r)] = b[n + Len(r)]
      BY <1>1, <2>3, <3>2
    <3> QED
      BY <3>2, <3>3 DEF Last
  <2> QED
    BY <2>3, <2>5, <2>6, <2>7, <2>8 DEF p, r, n
<1>4. CASE ~(n <= Len(b))
  <2>1. p = b /\ r = <<>>
    <3>1. Lesser(n, Len(b)) = Len(b)
      BY <1>1, <1>4 DEF Lesser
    <3> QED
      BY <1>1, <1>2, <3>1
  <2>2. Decode(b, StreamFormat) \o <<>> = Decode(b, StreamFormat)
    OBVIOUS
  <2>3. /\ r \in Seq(Byte) /\ Aligned(r) /\ Len(r) % Bytes = 0
        /\ Decode(p, StreamFormat) \in Seq(Nat) /\ Decode(r, StreamFormat) = <<>>
    BY <2>1, NothingRead
  <2>4. Decode(b, StreamFormat) = Decode(p, StreamFormat) \o Decode(r, StreamFormat)
    BY <2>1, <2>2, NothingRead
  <2>5. Decode(r, StreamFormat) \in Seq(Nat)
    BY <2>3
  <2> QED
    BY <2>1, <2>3, <2>4, <2>5 DEF p, r, n
<1> QED
  BY <1>3, <1>4

-----------------------------------------------------------------------------
(* The steps                                                               *)

\* What lies before the input ring, on the way to the host's ear.
Ahead == (heard \o OnWire) \o outputRing.held

LEMMA WayWillBe == InOrderOfArrival' = (Ahead' \o inputRing'.held) \o InFlight'
BY DEF InOrderOfArrival, Ahead, OnWire, InFlight

LEMMA WayIs ==
  ASSUME StreamTypes, Framed
  PROVE  /\ InOrderOfArrival = (Ahead \o inputRing.held) \o InFlight
         /\ Ahead \in Seq(Numbered) /\ heard \o OnWire \in Seq(Numbered)
         /\ InOrderOfArrival \in Seq(Numbered)
<1>1. /\ heard \in Seq(Numbered) /\ OnWire \in Seq(Numbered) /\ outputRing.held \in Seq(Numbered)
      /\ inputRing.held \in Seq(Numbered) /\ InFlight \in Seq(Numbered)
  BY Segments
<1>2. heard \o OnWire \in Seq(Numbered)
  BY <1>1, Together
<1>3. Ahead \in Seq(Numbered)
  BY <1>1, <1>2, Together DEF Ahead
<1>4. Ahead \o inputRing.held \in Seq(Numbered)
  BY <1>1, <1>3, Together
<1>5. InOrderOfArrival = (Ahead \o inputRing.held) \o InFlight
  BY DEF InOrderOfArrival, OnWire, InFlight, Ahead
<1>6. InOrderOfArrival \in Seq(Numbered)
  BY <1>1, <1>4, <1>5, Together
<1> QED
  BY <1>2, <1>3, <1>5, <1>6

LEMMA TornIs ==
  ASSUME OrderHolds
  PROVE  Torn = (IF TornWaits THEN {sent} ELSE {}) /\ Torn \subseteq 1..sent
         /\ Torn \cap Numbers(InOrderOfArrival) = {}
BY DEF OrderHolds, Torn

\* Of the stream, a step that adds no frame to it drops `gone`, and has counted
\* it if it is something.
LEMMA StepHolds ==
  ASSUME OrderHolds, LossCounted, sent' = sent,
         Rising(InOrderOfArrival)', TornWaits' => TornWaits /\ Last(outFifo)' = Last(outFifo),
         NEW gone, gone \cap Numbers(InOrderOfArrival)' = {},
         Numbers(InOrderOfArrival) = Numbers(InOrderOfArrival)' \cup gone,
         IF gone = {} /\ (TornWaits => TornWaits') THEN Losses' = Losses ELSE Losses' > 0
  PROVE  OrderHolds' /\ LossCounted'
<1>1. Torn = (IF TornWaits THEN {sent} ELSE {}) /\ Torn \subseteq 1..sent
      /\ Torn \cap Numbers(InOrderOfArrival) = {}
  BY TornIs
<1>2. Numbers(InOrderOfArrival)' \subseteq 1..sent
  BY DEF OrderHolds
<1>3. TornWaits' => Last(outFifo)'.frame = sent /\ sent \in 1..sent \ Numbers(InOrderOfArrival)'
  BY DEF OrderHolds
<1>4. OrderHolds'
  BY <1>2, <1>3 DEF OrderHolds
<1>5. Torn' = IF TornWaits' THEN {sent} ELSE {}
  BY <1>3 DEF Torn
<1>6. LossCounted'
  <2> DEFINE all == gone \cup (Torn \ Torn')
  <2>1. all \cap (Numbers(InOrderOfArrival)' \cup Torn') = {}
    BY <1>1, <1>5
  <2>2. Numbers(InOrderOfArrival) \cup Torn = Numbers(InOrderOfArrival)' \cup Torn' \cup all
    BY <1>1, <1>5
  <2>3. all = {} <=> gone = {} /\ (TornWaits => TornWaits')
    <3>1. Torn \ Torn' = {} <=> (TornWaits => TornWaits')
      BY <1>1, <1>5
    <3> QED
      BY <3>1
  <2>4. IF all = {} THEN Losses' = Losses ELSE Losses' > 0
    BY <2>3
  <2>5. Numbers(InOrderOfArrival) \subseteq 1..sent
    BY DEF OrderHolds
  <2> HIDE DEF all
  <2> QED
    BY <1>1, <2>1, <2>2, <2>4, <2>5, LossStep
<1> QED
  BY <1>4, <1>6

LEMMA OutStep ==
  ASSUME StreamInv, ServiceOut(StreamFormat), UNCHANGED <<sent, heard>>
  PROVE  StreamInv'
<1> DEFINE p == Oldest(outFifo, MaxPayload(StreamFormat))
           f == Decode(p, StreamFormat)
           torn == Len(p) % Bytes # 0
           drop == Dropped(inputRing.held, f) > 0
           happened == Event(torn, "malformedPayloads") \cup Event(drop, "inputOverruns")
<1>1. /\ StreamTypes /\ Framed /\ OrderHolds /\ LossCounted /\ SilenceHolds
      /\ outFifo \in Seq(Byte) /\ Aligned(outFifo) /\ InFlight \in Seq(Nat)
  BY DEF StreamInv, StreamTypes, Framed
<1>2. /\ outFifo' = Rest(outFifo, MaxPayload(StreamFormat))
      /\ inputRing' = Written(inputRing, f)
      /\ stats' = Counted(happened)
      /\ UNCHANGED <<inFifo, outputRing, pending, sent, heard>>
  BY Sizes DEF ServiceOut
<1>3. /\ outFifo' \in Seq(Byte) /\ Aligned(outFifo') /\ f \in Seq(Nat) /\ InFlight' \in Seq(Nat)
      /\ InFlight = f \o InFlight'
      /\ torn => TornWaits /\ ~TornWaits'
      /\ ~torn => (TornWaits <=> TornWaits') /\ (TornWaits => Last(outFifo') = Last(outFifo))
  BY <1>1, <1>2, BoundedRead DEF InFlight, TornWaits
<1> HIDE DEF f
<1>4. PICK d \in Seq(Nat) : /\ inputRing.held \o f = d \o inputRing'.held
                            /\ drop <=> Numbers(d) # {}
  BY <1>1, <1>2, <1>3, RingWrite DEF StreamTypes
<1>5. IsRing(inputRing')
  BY <1>1, <1>2, <1>3, RingWrite DEF StreamTypes
<1>6. stats' \in [Counters -> Nat]
      /\ \A c \in Counters : /\ c \in happened => stats'[c] >= 1
                             /\ c \notin happened => stats'[c] = stats[c]
  BY <1>1, <1>2, Counting DEF StreamTypes
<1>7. StreamTypes'
  BY <1>1, <1>2, <1>3, <1>5, <1>6 DEF StreamTypes
<1>8. Framed'
  BY <1>1, <1>2, <1>3 DEF Framed
<1>9. OnWire' = OnWire /\ Ahead' = Ahead
  BY <1>2 DEF OnWire, Ahead
<1>10. SilenceHolds'
  <2>1. "outputUnderruns" \notin happened /\ "inputUnderruns" \notin happened
    BY DEF Event
  <2>2. stats'["outputUnderruns"] = stats["outputUnderruns"] /\ stats'["inputUnderruns"] = stats["inputUnderruns"]
    BY <1>6, <2>1 DEF Counters
  <2> QED
    BY <1>1, <1>2, <1>9, <2>2 DEF SilenceHolds
<1>11. /\ Rising(InOrderOfArrival)'
       /\ Numbers(InOrderOfArrival) = Numbers(InOrderOfArrival)' \cup Numbers(d)
       /\ Numbers(d) \cap Numbers(InOrderOfArrival)' = {}
  <2> DEFINE x == Ahead
             i == inputRing.held
             k == inputRing'.held
             q == InFlight'
  <2>1. x \in Seq(Numbered) /\ InOrderOfArrival = (x \o i) \o (f \o q) /\ Rising(InOrderOfArrival)
    BY <1>1, <1>3, WayIs DEF OrderHolds
  <2>2. InOrderOfArrival' = (x \o k) \o q
    BY <1>9, WayWillBe
  <2>3. i \in Seq(Numbered) /\ f \in Seq(Numbered) /\ d \in Seq(Numbered) /\ k \in Seq(Numbered) /\ q \in Seq(Numbered)
    BY <1>1, <1>3, <1>5, Widened DEF StreamTypes, IsRing
  <2>4. Same(i \o f, d \o k)
    BY <1>4 DEF Same
  <2> HIDE DEF x, i, k, q
  <2>5. /\ Rising((x \o k) \o q)
        /\ Numbers((x \o i) \o (f \o q)) = Numbers((x \o k) \o q) \cup Numbers(d)
        /\ Numbers(d) \cap Numbers((x \o k) \o q) = {}
    BY <2>1, <2>3, <2>4, Passed
  <2> QED
    BY <2>1, <2>2, <2>5
<1>12. IF Numbers(d) = {} /\ (TornWaits => TornWaits') THEN Losses' = Losses ELSE Losses' > 0
  <2>1. "malformedPayloads" \in happened <=> torn
    BY DEF Event
  <2>2. "inputOverruns" \in happened <=> drop
    BY DEF Event
  <2>3. "outputOverruns" \notin happened
    BY DEF Event
  <2>4. torn <=> ~(TornWaits => TornWaits')
    BY <1>3
  <2>5. {"malformedPayloads", "inputOverruns", "outputOverruns"} \subseteq Counters
    BY DEF Counters
  <2> HIDE DEF happened, torn, drop
  <2>6. CASE ~torn /\ ~drop
    BY <1>4, <1>6, <2>1, <2>2, <2>3, <2>4, <2>5, <2>6 DEF Losses
  <2>7. CASE torn \/ drop
    BY <1>4, <1>6, <2>1, <2>2, <2>3, <2>4, <2>5, <2>7 DEF Losses
  <2> QED
    BY <2>6, <2>7
<1>13. OrderHolds' /\ LossCounted'
  <2>1. TornWaits' => TornWaits /\ Last(outFifo)' = Last(outFifo)
    BY <1>3
  <2> QED
    BY <1>1, <1>2, <1>11, <1>12, <2>1, StepHolds
<1> QED
  BY <1>7, <1>8, <1>10, <1>13 DEF StreamInv

\* A step that moves nothing but bytes from the carryover into the FIFO.
LEMMA QuietStep ==
  ASSUME StreamInv, UNCHANGED <<outFifo, inputRing, outputRing, stats, sent, heard>>,
         inFifo' \in Seq(Byte), pending' \in Seq(Byte), inFifo' \o pending' = inFifo \o pending
  PROVE  StreamInv'
<1>1. OnWire' = OnWire /\ InFlight' = InFlight /\ InOrderOfArrival' = InOrderOfArrival
      /\ (TornWaits' <=> TornWaits) /\ Torn' = Torn
  BY DEF OnWire, InFlight, InOrderOfArrival, TornWaits, Torn
<1>2. StreamTypes' /\ Framed'
  BY <1>1 DEF StreamInv, StreamTypes, Framed
<1>3. OrderHolds' /\ SilenceHolds'
  BY <1>1 DEF StreamInv, OrderHolds, SilenceHolds
<1>4. LossCounted'
  BY <1>1 DEF StreamInv, LossCounted, Lost
<1> QED
  BY <1>2, <1>3, <1>4 DEF StreamInv

LEMMA Moved ==
  ASSUME NEW y \in Seq(Numbered), NEW b \in Seq(Numbered), NEW i \in Seq(Numbered), NEW q \in Seq(Numbered)
  PROVE  Same((y \o (b \o i)) \o q, y \o (b \o (i \o q)))
<1>1. b \o i \in Seq(Numbered) /\ i \o q \in Seq(Numbered)
  BY Together
<1>2. Same((b \o i) \o q, b \o (i \o q))
  BY Together DEF Same
<1> DEFINE bi == b \o i
           biq == b \o (i \o q)
<1> HIDE DEF bi, biq
<1>3. bi \in Seq(Numbered) /\ bi \o q = biq
  BY <1>1, <1>2 DEF Same, bi, biq
<1>4. Same((y \o bi) \o q, y \o (bi \o q))
  BY <1>3, Associates
<1> QED
  BY <1>3, <1>4 DEF Same, bi, biq

LEMMA DspStep ==
  ASSUME StreamInv, ServiceDsp, UNCHANGED <<sent, heard>>
  PROVE  StreamInv'
<1> SUFFICES ASSUME RunBlock PROVE StreamInv'
  <2>1. ASSUME SkipBlock PROVE StreamInv'
    BY <2>1, QuietStep DEF SkipBlock, loopVars, StreamInv, StreamTypes
  <2> QED
    BY <2>1 DEF ServiceDsp
<1> DEFINE b == Drawn(inputRing, Block)
           drop == Dropped(outputRing.held, b) > 0
           happened == Event(drop, "outputOverruns")
<1>1. /\ StreamTypes /\ Framed /\ OrderHolds /\ LossCounted /\ SilenceHolds
      /\ IsRing(inputRing) /\ IsRing(outputRing) /\ Block <= Len(inputRing.held)
      /\ Block \in Nat /\ Len(inputRing.held) \in Nat
  <2>1. IsRing(inputRing) /\ inputRing.held \in Seq(Nat)
    BY DEF StreamInv, StreamTypes, IsRing
  <2> QED
    BY <2>1, Sizes DEF StreamInv, StreamTypes, RunBlock, BlockReady
<1>2. Positive(Block) = Block /\ Lesser(Block, Len(inputRing.held)) = Block
      /\ Substituted(inputRing.held, Block) = 0
  <2>1. Positive(Block) = Block /\ Lesser(Block, Len(inputRing.held)) = Block
    BY <1>1 DEF Positive, Lesser
  <2> QED
    BY <1>1, <2>1 DEF Substituted
<1>3. b \in Seq(Nat) /\ inputRing'.held \in Seq(Nat) /\ inputRing.held = b \o inputRing'.held /\ IsRing(inputRing')
  <2> DEFINE i == inputRing.held
  <2>1. i \in Seq(Nat) /\ Block \in 0..Len(i)
    BY <1>1 DEF IsRing
  <2>2. inputRing' = [held |-> Rest(i, Block), state |-> inputRing.state]
    BY <1>1 DEF RunBlock, Drained, IsRing
  <2>3. Rest(i, Block) = SubSeq(i, Block + 1, Len(i)) /\ Oldest(i, Block) = SubSeq(i, 1, Block)
    BY <1>2 DEF Rest, Oldest
  <2>4. Quiet(0) = <<>>
    BY DEF Quiet
  <2> HIDE DEF i
  <2>5. /\ SubSeq(i, 1, Block) \in Seq(Nat) /\ SubSeq(i, Block + 1, Len(i)) \in Seq(Nat)
        /\ SubSeq(i, 1, Block) \o SubSeq(i, Block + 1, Len(i)) = i
    BY <2>1, Halves
  <2>6. b = SubSeq(i, 1, Block) \o <<>>
    BY <1>2, <2>3, <2>4 DEF Drawn, i
  <2>7. b = SubSeq(i, 1, Block)
    BY <2>5, <2>6
  <2> QED
    BY <2>2, <2>3, <2>5, <2>7 DEF IsRing, i
<1>4. /\ outputRing' = Written(outputRing, b)
      /\ stats' = Counted(happened)
      /\ UNCHANGED <<outFifo, inFifo, pending, sent, heard>>
  <2>1. Event(0 > 0, "inputUnderruns") = {}
    BY DEF Event
  <2>2. Event(Substituted(inputRing.held, Block) > 0, "inputUnderruns") = {}
    BY <1>2, <2>1
  <2> QED
    BY <2>2 DEF RunBlock
<1> HIDE DEF b
<1>5. PICK d \in Seq(Nat) : /\ outputRing.held \o b = d \o outputRing'.held
                            /\ drop <=> Numbers(d) # {}
  BY <1>1, <1>3, <1>4, RingWrite
<1>6. IsRing(outputRing')
  BY <1>1, <1>3, <1>4, RingWrite
<1>7. stats' \in [Counters -> Nat]
      /\ \A c \in Counters : /\ c \in happened => stats'[c] >= 1
                             /\ c \notin happened => stats'[c] = stats[c]
  BY <1>1, <1>4, Counting DEF StreamTypes
<1>8. StreamTypes'
  BY <1>1, <1>3, <1>4, <1>6, <1>7 DEF StreamTypes
<1>9. OnWire' = OnWire /\ InFlight' = InFlight /\ (TornWaits' <=> TornWaits)
  BY <1>4 DEF OnWire, InFlight, TornWaits
<1>10. Framed'
  BY <1>1, <1>4, <1>9 DEF Framed
<1>11. SilenceHolds'
  <2>1. "outputUnderruns" \notin happened /\ "inputUnderruns" \notin happened
    BY DEF Event
  <2>2. stats'["outputUnderruns"] = stats["outputUnderruns"] /\ stats'["inputUnderruns"] = stats["inputUnderruns"]
    BY <1>7, <2>1 DEF Counters
  <2> QED
    BY <1>1, <1>4, <1>9, <2>2 DEF SilenceHolds
<1>12. /\ Rising(InOrderOfArrival)'
       /\ Numbers(InOrderOfArrival) = Numbers(InOrderOfArrival)' \cup Numbers(d)
       /\ Numbers(d) \cap Numbers(InOrderOfArrival)' = {}
  <2> DEFINE x == heard \o OnWire
             o == outputRing.held
             k == outputRing'.held
             i == inputRing'.held
             q == InFlight
             iq == i \o q
  <2>1. x \in Seq(Numbered) /\ InOrderOfArrival = ((x \o o) \o (b \o i)) \o q /\ Rising(InOrderOfArrival)
    BY <1>1, <1>3, WayIs DEF OrderHolds, Ahead
  <2>2. InOrderOfArrival' = ((x \o k) \o i) \o q
    BY <1>4, <1>9, WayWillBe DEF Ahead
  <2>3. /\ o \in Seq(Numbered) /\ b \in Seq(Numbered) /\ d \in Seq(Numbered) /\ k \in Seq(Numbered)
        /\ i \in Seq(Numbered) /\ q \in Seq(Numbered)
    BY <1>1, <1>3, <1>6, Widened DEF IsRing, Framed
  <2>4. Same(o \o b, d \o k)
    BY <1>5 DEF Same
  <2> HIDE DEF x, o, k, i, q
  <2>5. x \o o \in Seq(Numbered) /\ x \o k \in Seq(Numbered) /\ iq \in Seq(Numbered)
    BY <2>1, <2>3, Together
  <2>6. InOrderOfArrival = (x \o o) \o (b \o iq)
    <3>1. Same(((x \o o) \o (b \o i)) \o q, (x \o o) \o (b \o (i \o q)))
      BY <2>3, <2>5, Moved
    <3> QED
      BY <2>1, <3>1 DEF Same
  <2>7. InOrderOfArrival' = (x \o k) \o iq
    <3> DEFINE y == x \o k
    <3>1. y \in Seq(Numbered)
      BY <2>5
    <3> HIDE DEF y
    <3>2. Same((y \o i) \o q, y \o (i \o q))
      BY <2>3, <3>1, Associates
    <3> QED
      BY <2>2, <3>2 DEF y, Same
  <2> HIDE DEF iq
  <2>8. /\ Rising((x \o k) \o iq)
        /\ Numbers((x \o o) \o (b \o iq)) = Numbers((x \o k) \o iq) \cup Numbers(d)
        /\ Numbers(d) \cap Numbers((x \o k) \o iq) = {}
    <3>1. Rising((x \o o) \o (b \o iq))
      BY <2>1, <2>6
    <3> QED
      BY <2>1, <2>3, <2>4, <2>5, <3>1, Passed
  <2> QED
    BY <2>6, <2>7, <2>8
<1>13. IF Numbers(d) = {} /\ (TornWaits => TornWaits') THEN Losses' = Losses ELSE Losses' > 0
  <2>1. "outputOverruns" \in happened <=> drop
    BY DEF Event
  <2>2. "inputOverruns" \notin happened /\ "malformedPayloads" \notin happened
    BY DEF Event
  <2>3. {"malformedPayloads", "inputOverruns", "outputOverruns"} \subseteq Counters
    BY DEF Counters
  <2> HIDE DEF happened, drop
  <2>4. CASE ~drop
    BY <1>5, <1>7, <1>9, <2>1, <2>2, <2>3, <2>4 DEF Losses
  <2>5. CASE drop
    BY <1>5, <1>7, <1>9, <2>1, <2>2, <2>3, <2>5 DEF Losses
  <2> QED
    BY <2>4, <2>5
<1>14. OrderHolds' /\ LossCounted'
  <2>1. TornWaits' => TornWaits /\ Last(outFifo)' = Last(outFifo)
    BY <1>4, <1>9
  <2> QED
    BY <1>1, <1>4, <1>12, <1>13, <2>1, StepHolds
<1> QED
  BY <1>8, <1>10, <1>11, <1>14 DEF StreamInv

LEMMA BytesTogether ==
  ASSUME NEW a \in Seq(Byte), NEW b \in Seq(Byte), NEW c \in Seq(Byte)
  PROVE  a \o b \in Seq(Byte) /\ Same((a \o b) \o c, a \o (b \o c))
BY ConcatAssociative, ConcatProperties DEF Same

LEMMA Offered ==
  ASSUME NEW bytes \in Seq(Byte), inFifo \in Seq(Byte), Offer(bytes)
  PROVE  /\ inFifo' \in Seq(Byte) /\ pending' \in Seq(Byte)
         /\ inFifo' \o pending' = inFifo \o bytes
<1>1. PICK n \in Accepted(bytes) : inFifo' = inFifo \o Oldest(bytes, n) /\ pending' = Rest(bytes, n)
  BY DEF Offer
<1>2. n \in Int
  <2>1. Len(bytes) \in Nat /\ Len(inFifo) \in Nat
    OBVIOUS
  <2> QED
    BY <2>1, Sizes DEF Accepted, InRoom, Lesser
<1> DEFINE p == Oldest(bytes, n)
           r == Rest(bytes, n)
<1>3. p \in Seq(Byte) /\ r \in Seq(Byte) /\ p \o r = bytes
  <2>1. PICK m \in 0..Len(bytes) : p = SubSeq(bytes, 1, m) /\ r = SubSeq(bytes, m + 1, Len(bytes))
    BY <1>2, TakenAndLeft
  <2>2. /\ SubSeq(bytes, 1, m) \in Seq(Byte) /\ SubSeq(bytes, m + 1, Len(bytes)) \in Seq(Byte)
        /\ SubSeq(bytes, 1, m) \o SubSeq(bytes, m + 1, Len(bytes)) = bytes
    BY Halves
  <2> HIDE DEF p, r
  <2> QED
    BY <2>1, <2>2
<1> HIDE DEF p, r
<1>4. inFifo' = inFifo \o p /\ pending' = r
  BY <1>1 DEF p, r
<1>5. p \in Seq(Byte) /\ r \in Seq(Byte)
  BY <1>3
<1>6. inFifo \o p \in Seq(Byte) /\ Same((inFifo \o p) \o r, inFifo \o (p \o r))
  BY <1>5, BytesTogether
<1> QED
  BY <1>3, <1>4, <1>6 DEF Same

LEMMA Quiets == \A n \in Nat : Quiet(n) \in Seq({Silence}) /\ (Quiet(n) # <<>> <=> n > 0)
BY DEF Quiet

\* Frames of the ring, and silence for those it lacks, join the wire.
LEMMA Pulled ==
  ASSUME NEW h \in Seq(Numbered), NEW w \in Seq(Numbered), NEW f \in Seq(Numbered), NEW z \in Seq({Silence}),
         NEW o \in Seq(Numbered), NEW t \in Seq(Numbered)
  PROVE  LET old == (h \o w) \o ((f \o o) \o t)
             new == (h \o (w \o (f \o z))) \o (o \o t)
         IN Rising(old) => Rising(new) /\ Same(Numbers(new), Numbers(old))
<1> DEFINE x == h \o w
           ot == o \o t
           xf == x \o f
<1>1. x \in Seq(Numbered) /\ ot \in Seq(Numbered) /\ z \in Seq(Numbered)
  <2>1. z \in Seq(Numbered)
    BY DEF Numbered
  <2> QED
    BY <2>1, Together
<1>2. Same((f \o o) \o t, f \o ot)
  BY Associates
<1>3. Same(h \o (w \o (f \o z)), xf \o z)
  <2>1. f \o z \in Seq(Numbered)
    BY <1>1, Together
  <2> DEFINE fz == f \o z
  <2> HIDE DEF fz
  <2>2. Same((h \o w) \o fz, h \o (w \o fz))
    BY <2>1, Associates DEF fz
  <2>3. fz = f \o z
    BY DEF fz
  <2> HIDE DEF x
  <2>4. Same((x \o f) \o z, x \o (f \o z))
    BY <1>1, Associates
  <2> QED
    BY <2>2, <2>3, <2>4 DEF Same, x
<1> HIDE DEF x, ot, xf
<1>4. Same((x \o f) \o ot, x \o (f \o ot))
  BY <1>1, Associates
<1>5. xf \in Seq(Numbered)
  BY <1>1, Together DEF xf
<1> DEFINE old == (h \o w) \o ((f \o o) \o t)
           new == (h \o (w \o (f \o z))) \o (o \o t)
<1>6. old = xf \o ot
  BY <1>2, <1>4 DEF Same, x, xf
<1>7. new = (xf \o z) \o ot
  BY <1>3 DEF Same, ot
<1> HIDE DEF old, new
<1>8. Rising(xf \o ot) => Rising((xf \o z) \o ot) /\ Numbers((xf \o z) \o ot) = Numbers(xf \o ot)
  BY <1>1, <1>5, QuietBetween
<1> QED
  BY <1>6, <1>7, <1>8 DEF old, new, Same

LEMMA PullStep ==
  ASSUME StreamInv, PullFrames(StreamFormat), UNCHANGED <<sent, heard>>
  PROVE  StreamInv'
<1> DEFINE n == PullSize(StreamFormat)
           o == outputRing.held
           f == Oldest(o, n)
           k == Rest(o, n)
           z == Quiet(Substituted(o, n))
           fz == f \o z
           b == Encode(fz, StreamFormat)
           short == Substituted(o, n) > 0
           happened == Event(short, "outputUnderruns")
<1>1. /\ StreamTypes /\ Framed /\ OrderHolds /\ LossCounted /\ SilenceHolds
      /\ outputRing.held \in Seq(Nat) /\ IsRing(outputRing) /\ Len(o) \in Nat /\ pending = <<>>
      /\ inFifo \in Seq(Byte)
  <2>1. o \in Seq(Nat) /\ IsRing(outputRing)
    BY DEF StreamInv, StreamTypes, IsRing
  <2> QED
    BY <2>1 DEF StreamInv, StreamTypes, PullFrames
<1>2. n \in Int
  <2>1. Len(inFifo) \in Nat /\ InRoom \in Int
    BY <1>1, Sizes DEF InRoom
  <2>2. RoomFrames(StreamFormat) \in Int
    <3>1. InRoom \div Bytes \in Int
      BY <2>1, Sizes
    <3> QED
      BY <3>1, Sizes DEF RoomFrames, Lesser
  <2> QED
    BY <1>1, <2>2 DEF PullSize, Lesser
<1>3. f \in Seq(Nat) /\ k \in Seq(Nat) /\ f \o k = o
  <2>1. PICK m \in 0..Len(o) : f = SubSeq(o, 1, m) /\ k = SubSeq(o, m + 1, Len(o))
    BY <1>1, <1>2, TakenAndLeft
  <2>2. /\ SubSeq(o, 1, m) \in Seq(Nat) /\ SubSeq(o, m + 1, Len(o)) \in Seq(Nat)
        /\ SubSeq(o, 1, m) \o SubSeq(o, m + 1, Len(o)) = o
    BY <1>1, Halves
  <2> HIDE DEF f, k
  <2> QED
    BY <2>1, <2>2
<1>4. z \in Seq({Silence}) /\ (z # <<>> <=> short)
  <2>1. Substituted(o, n) \in Nat
    BY <1>1, <1>2 DEF Substituted, Positive, Lesser
  <2> QED
    BY <2>1, Quiets
<1>5. /\ outputRing' = [held |-> k, state |-> outputRing.state]
      /\ stats' = Counted(happened)
      /\ Offer(b)
      /\ UNCHANGED <<outFifo, inputRing, sent, heard>>
  BY <1>1 DEF PullFrames, Drained, Drawn, IsRing
<1> HIDE DEF n, f, k, z
<1>6. f \in Seq(Numbered) /\ k \in Seq(Numbered) /\ z \in Seq(Numbered) /\ fz \in Seq(Numbered)
  <2>1. f \in Seq(Numbered) /\ k \in Seq(Numbered)
    BY <1>3, Widened
  <2>2. z \in Seq(Numbered)
    BY <1>4 DEF Numbered
  <2> QED
    BY <2>1, <2>2, Together
<1> HIDE DEF fz
<1>7. b \in Seq(Byte) /\ Aligned(b) /\ Len(b) = Len(fz) * Bytes /\ Decode(b, StreamFormat) = fz
  BY <1>6, Encoded
<1> HIDE DEF b
<1>8. /\ inFifo' \in Seq(Byte) /\ pending' \in Seq(Byte)
      /\ inFifo' \o pending' = inFifo \o b
  BY <1>1, <1>5, <1>7, Offered
<1>9. inFifo \o pending = inFifo
  BY <1>1
<1>10. PICK m \in Nat : Len(inFifo) = m * Bytes
  BY <1>1, <1>9 DEF Framed
<1>11. /\ Aligned(inFifo' \o pending')
       /\ OnWire' = OnWire \o fz
       /\ Len(inFifo' \o pending') = (m + Len(fz)) * Bytes /\ m + Len(fz) \in Nat
  <2>1. Aligned(inFifo)
    BY <1>1, <1>9 DEF Framed
  <2>2. /\ Aligned(inFifo \o b)
        /\ Decode(inFifo \o b, StreamFormat) = Decode(inFifo, StreamFormat) \o Decode(b, StreamFormat)
    BY <1>1, <1>7, <1>10, <2>1, AlignedJoin
  <2>3. Len(inFifo \o b) = Len(inFifo) + Len(b) /\ Len(fz) \in Nat
    <3>1. inFifo \in Seq(Byte) /\ b \in Seq(Byte) /\ fz \in Seq(Numbered)
      BY <1>1, <1>6, <1>7
    <3> QED
      BY <3>1
  <2>4. m * Bytes + Len(fz) * Bytes = (m + Len(fz)) * Bytes
    BY <2>3, Before, Sizes
  <2>5. Decode(inFifo, StreamFormat) = OnWire
    BY <1>9 DEF OnWire
  <2>6. OnWire' = Decode(inFifo \o b, StreamFormat)
    BY <1>8 DEF OnWire
  <2> QED
    BY <1>7, <1>8, <1>10, <2>2, <2>3, <2>4, <2>5, <2>6
<1>12. stats' \in [Counters -> Nat]
       /\ \A c \in Counters : /\ c \in happened => stats'[c] >= 1
                              /\ c \notin happened => stats'[c] = stats[c]
  BY <1>1, <1>5, Counting DEF StreamTypes
<1>13. InFlight' = InFlight /\ (TornWaits' <=> TornWaits)
  BY <1>5 DEF InFlight, TornWaits
<1>14. StreamTypes'
  BY <1>1, <1>3, <1>5, <1>8, <1>12 DEF StreamTypes, IsRing
<1>15. Framed'
  BY <1>1, <1>5, <1>11, <1>13 DEF Framed
<1>16. /\ "outputUnderruns" \in happened <=> short
       /\ {"inputUnderruns", "inputOverruns", "malformedPayloads", "outputOverruns"} \cap happened = {}
       /\ {"inputUnderruns", "inputOverruns", "malformedPayloads", "outputOverruns",
           "outputUnderruns"} \subseteq Counters
  BY DEF Event, Counters
<1> HIDE DEF happened, short
<1>17. SilenceHolds'
  <2>1. OnWire \in Seq(Numbered) /\ Silence \notin ToSet(f)
    BY <1>1, <1>3, Segments, Widened
  <2>2. Silence \in ToSet(OnWire \o fz) <=> Silence \in ToSet(OnWire) \/ Silence \in ToSet(fz)
    BY <1>6, <2>1, Joined
  <2>3. Silence \in ToSet(fz) <=> Silence \in ToSet(z)
    BY <1>6, <2>1, Joined DEF fz
  <2>4. Silence \in ToSet(z) <=> z # <<>>
    BY <1>4, <1>6, NumbersAre
  <2>5. stats["outputUnderruns"] \in Nat /\ stats'["outputUnderruns"] \in Nat
    BY <1>1, <1>12, <1>16 DEF StreamTypes
  <2>6. CASE short
    BY <1>1, <1>4, <1>5, <1>11, <1>12, <1>16, <2>2, <2>3, <2>4, <2>5, <2>6 DEF SilenceHolds
  <2>7. CASE ~short
    BY <1>1, <1>4, <1>5, <1>11, <1>12, <1>16, <2>2, <2>3, <2>4, <2>5, <2>7 DEF SilenceHolds
  <2> QED
    BY <2>6, <2>7
<1>18. Rising(InOrderOfArrival)' /\ Numbers(InOrderOfArrival)' = Numbers(InOrderOfArrival)
  <2> DEFINE h == heard
             w == OnWire
             i == inputRing.held
             q == InFlight
             t == i \o q
             hw == h \o w
             hwfz == h \o (w \o (f \o z))
  <2>1. h \in Seq(Numbered) /\ w \in Seq(Numbered) /\ i \in Seq(Numbered) /\ q \in Seq(Numbered)
        /\ hw \in Seq(Numbered)
    BY <1>1, Segments, WayIs
  <2>2. t \in Seq(Numbered) /\ hwfz \in Seq(Numbered) /\ f \o k \in Seq(Numbered)
    <3>1. OnWire' \in Seq(Numbered) /\ heard' \o OnWire' \in Seq(Numbered)
      <4>1. fz \in Seq(Numbered) /\ w \in Seq(Numbered)
        BY <1>6, <2>1
      <4>2. w \o fz \in Seq(Numbered)
        BY <4>1, Together
      <4>3. h \o (w \o fz) \in Seq(Numbered)
        BY <2>1, <4>2, Together
      <4> QED
        BY <1>5, <1>11, <4>2, <4>3
    <3>2. hwfz = heard' \o OnWire'
      BY <1>5, <1>11 DEF fz
    <3> QED
      BY <1>3, <1>6, <2>1, <3>1, <3>2, Together
  <2>3. InOrderOfArrival = ((hw \o (f \o k)) \o i) \o q
    BY <1>1, <1>3, WayIs DEF Ahead
  <2>4. InOrderOfArrival' = ((hwfz \o k) \o i) \o q
    BY <1>5, <1>11, <1>13, WayWillBe DEF Ahead, fz
  <2> HIDE DEF h, w, i, q
  <2>5. InOrderOfArrival = hw \o ((f \o k) \o t)
    <3> DEFINE fk == f \o k
    <3> HIDE DEF fk, hw
    <3>1. fk \in Seq(Numbered)
      BY <2>2 DEF fk
    <3>2. Same((hw \o (fk \o i)) \o q, hw \o (fk \o (i \o q)))
      BY <2>1, <3>1, Moved
    <3>3. Same((hw \o fk) \o i, hw \o (fk \o i))
      BY <2>1, <3>1, Associates
    <3> QED
      BY <2>3, <3>2, <3>3 DEF Same, fk
  <2>6. InOrderOfArrival' = hwfz \o (k \o t)
    <3> HIDE DEF hwfz
    <3>1. Same((hwfz \o (k \o i)) \o q, hwfz \o (k \o (i \o q)))
      BY <1>6, <2>1, <2>2, Moved
    <3>2. Same((hwfz \o k) \o i, hwfz \o (k \o i))
      BY <1>6, <2>1, <2>2, Associates
    <3> QED
      BY <2>4, <3>1, <3>2 DEF Same
  <2> HIDE DEF t
  <2>7. Rising((h \o w) \o ((f \o k) \o t)) =>
          /\ Rising((h \o (w \o (f \o z))) \o (k \o t))
          /\ Same(Numbers((h \o (w \o (f \o z))) \o (k \o t)), Numbers((h \o w) \o ((f \o k) \o t)))
    BY <1>4, <1>6, <2>1, <2>2, Pulled
  <2>8. Rising(InOrderOfArrival)
    BY <1>1 DEF OrderHolds
  <2> QED
    BY <2>5, <2>6, <2>7, <2>8 DEF Same
<1>19. OrderHolds' /\ LossCounted'
  <2>1. TornWaits' => TornWaits /\ Last(outFifo)' = Last(outFifo)
    BY <1>5, <1>13
  <2>2. Losses' = Losses
    BY <1>12, <1>16 DEF Losses
  <2>3. {} \cap Numbers(InOrderOfArrival)' = {} /\ Numbers(InOrderOfArrival) = Numbers(InOrderOfArrival)' \cup {}
    BY <1>18
  <2> QED
    BY <1>1, <1>5, <1>13, <1>18, <2>1, <2>2, <2>3, StepHolds
<1> QED
  BY <1>14, <1>15, <1>17, <1>19 DEF StreamInv

LEMMA Singled ==
  ASSUME NEW e \in Seq(Numbered), Len(e) = 1
  PROVE  e = <<e[1]>> /\ e[1] \in Numbered
<1>1. e[1] \in Numbered
  OBVIOUS
<1> DEFINE g == <<e[1]>>
<1>2. g \in Seq(Numbered) /\ Len(g) = 1 /\ g[1] = e[1]
  BY <1>1
<1> HIDE DEF g
<1>3. \A i \in 1..1 : g[i] = e[i]
  BY <1>2
<1>4. g = e
  BY <1>2, <1>3, SeqEqual
<1> QED
  BY <1>1, <1>4 DEF g

\* The first frame of the FIFO is the first on the wire.
LEMMA FrontFrame ==
  ASSUME NEW s \in Seq(Byte), NEW p \in Seq(Byte), Bytes <= Len(s), Aligned(s \o p),
         NEW m \in Nat, Len(s \o p) = m * Bytes
  PROVE  LET f == FrameOf(Oldest(s, Bytes))
             r == Rest(s, Bytes)
         IN /\ f \in Numbered /\ r \in Seq(Byte) /\ Aligned(r \o p)
            /\ Decode(s \o p, StreamFormat) = <<f>> \o Decode(r \o p, StreamFormat)
            /\ Len(r \o p) = (m - 1) * Bytes /\ m - 1 \in Nat
<1> DEFINE a == SubSeq(s, 1, Bytes)
           r == SubSeq(s, Bytes + 1, Len(s))
           b == s \o p
           post == r \o p
<1>1. Bytes \in 0..Len(s) /\ Bytes \in Nat \ {0} /\ Len(s) \in Nat /\ 1 * Bytes = Bytes
  <2>1. Len(s) \in Nat
    OBVIOUS
  <2> QED
    BY <2>1, Sizes
<1>2. Oldest(s, Bytes) = a /\ Rest(s, Bytes) = r
  <2>1. Lesser(Positive(Bytes), Len(s)) = Bytes
    BY <1>1 DEF Lesser, Positive
  <2> QED
    BY <2>1 DEF Oldest, Rest
<1>3. /\ a \in Seq(Byte) /\ Len(a) = Bytes /\ (\A i \in 1..Bytes : a[i] = s[i])
      /\ r \in Seq(Byte) /\ Len(r) = Len(s) - Bytes /\ (\A i \in 1..Len(s) - Bytes : r[i] = s[i + Bytes])
  BY <1>1, Halves
<1> HIDE DEF a, r
<1>4. /\ b \in Seq(Byte) /\ Len(b) = Len(s) + Len(p) /\ Len(p) \in Nat
      /\ (\A i \in 1..Len(s) : b[i] = s[i]) /\ (\A i \in 1..Len(p) : b[Len(s) + i] = p[i])
  OBVIOUS
<1>5. /\ post \in Seq(Byte) /\ Len(post) = Len(r) + Len(p)
      /\ (\A i \in 1..Len(r) : post[i] = r[i]) /\ (\A i \in 1..Len(p) : post[Len(r) + i] = p[i])
  <2>1. r \in Seq(Byte)
    BY <1>3
  <2> QED
    BY <2>1
<1>6. Aligned(b) /\ Len(b) = m * Bytes
  OBVIOUS
<1> HIDE DEF b, post
<1> DEFINE c == SubSeq(b, 1, 1 * Bytes)
           d == SubSeq(b, 1 * Bytes + 1, Len(b))
<1>7. /\ c \in Seq(Byte) /\ Aligned(c) /\ Len(c) = 1 * Bytes
      /\ d \in Seq(Byte) /\ Aligned(d) /\ Len(d) = Len(b) - 1 * Bytes
      /\ \A j \in 1..Len(d) : d[j] = b[1 * Bytes + j]
      /\ Len(Decode(c, StreamFormat)) = 1
      /\ Decode(b, StreamFormat) = Decode(c, StreamFormat) \o Decode(d, StreamFormat)
  <2>1. 1 * Bytes <= Len(b)
    BY <1>1, <1>4
  <2> QED
    BY <1>4, <1>6, <2>1, AlignedCut
<1>8. \A i \in 1..Bytes : c[i] = b[i]
  <2>1. c = SubSeq(b, 1, Bytes) /\ Bytes \in 0..Len(b)
    BY <1>1, <1>4
  <2> QED
    BY <1>4, <2>1, Halves
<1> HIDE DEF c, d
<1>9. c = a
  <2>1. ASSUME NEW i \in 1..Bytes PROVE c[i] = a[i]
    <3>1. i \in 1..Len(s)
      BY <1>1
    <3> QED
      BY <1>3, <1>4, <1>8, <3>1
  <2> QED
    BY <1>1, <1>3, <1>7, <2>1, SeqEqual
<1>10. d = post
  <2>1. Len(d) = Len(post) /\ Len(d) = Len(r) + Len(p) /\ Len(r) \in Nat /\ Bytes + Len(r) = Len(s)
    BY <1>1, <1>3, <1>4, <1>5, <1>7
  <2>2. ASSUME NEW i \in 1..Len(d) PROVE d[i] = post[i]
    <3>1. d[i] = b[Bytes + i]
      BY <1>1, <1>7
    <3>2. CASE i \in 1..Len(r)
      <4>1. Bytes + i \in 1..Len(s) /\ Bytes + i = i + Bytes /\ i \in 1..Len(s) - Bytes
        BY <1>1, <2>1, <3>2
      <4> QED
        BY <1>3, <1>4, <1>5, <3>1, <3>2, <4>1
    <3>3. CASE i \notin 1..Len(r)
      <4>1. i - Len(r) \in 1..Len(p) /\ Bytes + i = Len(s) + (i - Len(r)) /\ i = Len(r) + (i - Len(r))
        <5>1. Len(p) \in Nat /\ Len(s) \in Nat /\ Bytes \in Nat
          BY <1>1, <1>4
        <5> QED
          BY <2>1, <3>3, <5>1
      <4> QED
        BY <1>4, <1>5, <3>1, <4>1
    <3> QED
      BY <3>2, <3>3
  <2> QED
    BY <1>5, <1>7, <2>1, <2>2, SeqEqual
<1>11. Decode(a, StreamFormat) = <<FrameOf(a)>> /\ FrameOf(a) \in Numbered
  <2> DEFINE e == Decode(a, StreamFormat)
  <2>1. e \in Seq(Numbered) /\ Len(e) = 1
    BY <1>7, <1>9, DecodeAligned
  <2>2. e[1] = FrameOf(a)
    <3>1. Len(a) \div Bytes = 1
      <4>1. Len(a) = 1 * Bytes + 0 /\ 0 \in 0..Bytes-1
        BY <1>1, <1>3
      <4> QED
        BY <4>1, WholeFrames
    <3>2. e = [i \in 1..1 |-> FrameOf(SubSeq(a, (i - 1) * Bytes + 1, i * Bytes))]
      BY <3>1, Sizes DEF Decode
    <3>3. (1 - 1) * Bytes + 1 = 1 /\ 1 * Bytes = Len(a)
      BY <1>1, <1>3
    <3>4. SubSeq(a, 1, Len(a)) = a
      BY <1>3
    <3> HIDE DEF e
    <3>5. e[1] = FrameOf(SubSeq(a, (1 - 1) * Bytes + 1, 1 * Bytes))
      BY <3>2
    <3> QED
      BY <3>3, <3>4, <3>5
  <2> HIDE DEF e
  <2>3. e = <<e[1]>> /\ e[1] \in Numbered
    BY <2>1, Singled
  <2> QED
    BY <2>2, <2>3 DEF e
<1>12. Len(post) = (m - 1) * Bytes /\ m - 1 \in Nat
  <2>1. m # 0
    BY <1>1, <1>4, <1>6
  <2>2. m - 1 \in Nat /\ m >= 1 /\ 1 \in Nat
    BY <2>1
  <2>3. m * Bytes = 1 * Bytes + (m - 1) * Bytes /\ (m - 1) * Bytes \in Nat
    BY <2>2, Before, Sizes
  <2> DEFINE x == m * Bytes
             y == (m - 1) * Bytes
  <2>4. Len(post) = x - Bytes /\ x = Bytes + y /\ y \in Nat
    BY <1>1, <1>6, <1>7, <1>10, <2>3
  <2> HIDE DEF x, y
  <2>5. Len(post) = y
    BY <1>1, <2>4
  <2> QED
    BY <2>2, <2>5 DEF y
<1>13. Decode(b, StreamFormat) = <<FrameOf(a)>> \o Decode(post, StreamFormat) /\ Aligned(post)
  BY <1>7, <1>9, <1>10, <1>11
<1> QED
  BY <1>2, <1>3, <1>11, <1>12, <1>13 DEF b, post

LEMMA HearStep ==
  ASSUME StreamInv, TakeFrame
  PROVE  StreamInv'
<1> DEFINE f == FrameOf(Oldest(inFifo, Bytes))
           r == Rest(inFifo, Bytes)
           w == Decode(r \o pending, StreamFormat)
           t == (outputRing.held \o inputRing.held) \o InFlight
<1>1. /\ StreamTypes /\ Framed /\ OrderHolds /\ LossCounted /\ SilenceHolds
      /\ inFifo \in Seq(Byte) /\ pending \in Seq(Byte) /\ heard \in Seq(Numbered)
      /\ stats \in [Counters -> Nat]
      /\ outputRing.held \in Seq(Numbered) /\ inputRing.held \in Seq(Numbered) /\ InFlight \in Seq(Numbered)
  BY Segments DEF StreamInv, StreamTypes
<1>2. /\ Bytes <= Len(inFifo) /\ inFifo' = r /\ heard' = Heard(f)
      /\ UNCHANGED <<outFifo, inputRing, outputRing, pending, stats, sent>>
  BY DEF TakeFrame
<1>3. PICK m \in Nat : Len(inFifo \o pending) = m * Bytes
  BY <1>1 DEF Framed
<1>4. /\ f \in Numbered /\ r \in Seq(Byte) /\ Aligned(r \o pending)
      /\ OnWire = <<f>> \o w
      /\ Len(r \o pending) = (m - 1) * Bytes /\ m - 1 \in Nat
  <2>1. Aligned(inFifo \o pending)
    BY <1>1 DEF Framed
  <2> QED
    BY <1>1, <1>2, <1>3, <2>1, FrontFrame DEF OnWire
<1>5. w \in Seq(Numbered) /\ OnWire' = w
  <2>1. r \o pending \in Seq(Byte)
    BY <1>1, <1>4
  <2> QED
    BY <1>2, <1>4, <2>1, DecodeAligned DEF OnWire
<1> HIDE DEF f, r, w
<1>6. InFlight' = InFlight /\ (TornWaits' <=> TornWaits)
  BY <1>2 DEF InFlight, TornWaits
<1>7. <<f>> \in Seq(Numbered) /\ (Silence \in ToSet(<<f>>) <=> f = Silence)
      /\ (f = Silence => Numbers(<<f>>) = {})
  <2>1. <<f>> \in Seq(Numbered) /\ Len(<<f>>) = 1 /\ <<f>>[1] = f
    BY <1>4
  <2>2. /\ \A x : x \in Numbers(<<f>>) <=> x \in Nat /\ \E i \in 1..Len(<<f>>) : <<f>>[i] = x
        /\ Silence \in ToSet(<<f>>) <=> \E i \in 1..Len(<<f>>) : <<f>>[i] = Silence
    BY <2>1, NumbersAre
  <2>3. \A i : i \in 1..Len(<<f>>) <=> i = 1
    BY <2>1
  <2> QED
    BY <2>1, <2>2, <2>3, Apart
<1>8. \/ heard' = heard \o <<f>>
      \/ heard' = heard /\ f = Silence /\ Silence \in ToSet(heard)
  <2>1. CASE f = Silence /\ heard # <<>> /\ Last(heard) = Silence
    <3>1. Len(heard) \in 1..Len(heard) /\ heard[Len(heard)] = Silence
      BY <1>1, <2>1 DEF Last
    <3>2. Silence \in ToSet(heard)
      BY <1>1, <3>1, NumbersAre
    <3> QED
      BY <1>2, <2>1, <3>2 DEF Heard
  <2>2. CASE ~(f = Silence /\ heard # <<>> /\ Last(heard) = Silence)
    <3>1. heard' = Append(heard, f)
      BY <1>2, <2>2 DEF Heard
    <3>2. Append(heard, f) = heard \o <<f>>
      BY <1>1, <1>4, AppendIsConcat
    <3> QED
      BY <3>1, <3>2
  <2> QED
    BY <2>1, <2>2
<1>9. heard' \in Seq(Numbered)
  <2>1. heard \o <<f>> \in Seq(Numbered)
    BY <1>1, <1>7, Together
  <2> QED
    BY <1>1, <1>8, <2>1
<1>10. StreamTypes' /\ Framed'
  BY <1>1, <1>2, <1>4, <1>6, <1>9 DEF StreamTypes, Framed
<1>11. t \in Seq(Numbered)
  <2>1. outputRing.held \o inputRing.held \in Seq(Numbered)
    BY <1>1, Together
  <2> QED
    BY <1>1, <2>1, Together
<1>12. InOrderOfArrival = (heard \o OnWire) \o t /\ InOrderOfArrival' = (heard' \o w) \o t
  <2> DEFINE o == outputRing.held
             i == inputRing.held
             q == InFlight
  <2>1. ASSUME NEW hw \in Seq(Numbered) PROVE ((hw \o o) \o i) \o q = hw \o ((o \o i) \o q)
    <3> HIDE DEF o, i, q
    <3> DEFINE oi == o \o i
    <3>1. Same((hw \o o) \o i, hw \o oi) /\ oi \in Seq(Numbered)
      BY <1>1, <2>1, Associates, Together DEF o, i
    <3> HIDE DEF oi
    <3>2. Same((hw \o oi) \o q, hw \o (oi \o q))
      BY <1>1, <2>1, <3>1, Associates DEF q
    <3> QED
      BY <3>1, <3>2 DEF Same, oi
  <2>2. heard \o OnWire \in Seq(Numbered) /\ heard' \o w \in Seq(Numbered)
    <3>1. heard \o OnWire \in Seq(Numbered)
      BY <1>1, WayIs
    <3>2. heard' \o w \in Seq(Numbered)
      BY <1>5, <1>9, Together
    <3> QED
      BY <3>1, <3>2
  <2>3. InOrderOfArrival = (((heard \o OnWire) \o o) \o i) \o q
    BY DEF InOrderOfArrival, OnWire, InFlight
  <2>4. InOrderOfArrival' = (((heard' \o w) \o o) \o i) \o q
    BY <1>2, <1>5, <1>6, WayWillBe DEF Ahead
  <2> HIDE DEF o, i, q
  <2> QED
    BY <2>1, <2>2, <2>3, <2>4 DEF o, i, q
<1> HIDE DEF t
<1>13. Rising(InOrderOfArrival)' /\ Numbers(InOrderOfArrival)' = Numbers(InOrderOfArrival)
  <2>1. Rising(InOrderOfArrival)
    BY <1>1 DEF OrderHolds
  <2>2. Same((heard \o <<f>>) \o w, heard \o (<<f>> \o w))
    BY <1>1, <1>5, <1>7, Associates
  <2>3. CASE heard' = heard \o <<f>>
    BY <1>4, <1>12, <2>1, <2>2, <2>3 DEF Same
  <2>4. CASE heard' = heard /\ f = Silence
    <3> DEFINE wt == w \o t
               e == <<f>>
    <3>1. InOrderOfArrival = ((heard \o e) \o w) \o t
      BY <1>4, <1>12, <2>2 DEF Same
    <3> HIDE DEF e
    <3>2. heard \o e \in Seq(Numbered) /\ wt \in Seq(Numbered) /\ e \in Seq(Numbered)
      BY <1>1, <1>5, <1>7, <1>11, Together DEF e
    <3> DEFINE he == heard \o e
    <3> HIDE DEF he
    <3>3. Same((he \o w) \o t, he \o (w \o t))
      BY <1>5, <1>11, <3>2, Associates DEF he
    <3>4. Same((heard \o w) \o t, heard \o (w \o t))
      BY <1>1, <1>5, <1>11, Associates
    <3>5. InOrderOfArrival = (heard \o e) \o wt /\ InOrderOfArrival' = heard \o wt
      BY <1>12, <2>4, <3>1, <3>3, <3>4 DEF Same, he
    <3> HIDE DEF wt
    <3>6. Rising((heard \o e) \o wt)
      BY <2>1, <3>5
    <3>7. /\ Rising(heard \o wt)
          /\ Numbers((heard \o e) \o wt) = Numbers(heard \o wt) \cup Numbers(e)
      BY <1>1, <3>2, <3>6, Thinned
    <3>8. Numbers(e) = {}
      BY <1>7, <2>4 DEF e
    <3> QED
      BY <3>5, <3>7, <3>8
  <2> QED
    BY <1>8, <2>3, <2>4
<1>14. SilenceHolds'
  <2>1. Silence \in ToSet(OnWire) <=> f = Silence \/ Silence \in ToSet(w)
    BY <1>4, <1>5, <1>7, Joined
  <2>2. Silence \in ToSet(heard \o <<f>>) <=> Silence \in ToSet(heard) \/ f = Silence
    BY <1>1, <1>7, Joined
  <2>3. Silence \in ToSet(heard') \/ Silence \in ToSet(w) <=> Silence \in ToSet(heard) \/ Silence \in ToSet(OnWire)
    BY <1>8, <2>1, <2>2
  <2> QED
    BY <1>1, <1>2, <1>5, <2>3 DEF SilenceHolds
<1>15. OrderHolds' /\ LossCounted'
  <2>1. TornWaits' => TornWaits /\ Last(outFifo)' = Last(outFifo)
    BY <1>2, <1>6
  <2>2. Losses' = Losses
    BY <1>2 DEF Losses
  <2>3. {} \cap Numbers(InOrderOfArrival)' = {} /\ Numbers(InOrderOfArrival) = Numbers(InOrderOfArrival)' \cup {}
    BY <1>13
  <2> QED
    BY <1>1, <1>2, <1>6, <1>13, <2>1, <2>2, <2>3, StepHolds
<1> QED
  BY <1>10, <1>14, <1>15 DEF StreamInv

LEMMA Added ==
  ASSUME NEW a \in Seq(Numbered), NEW n \in Nat, NEW s \in Nat, Rising(a), Numbers(a) \subseteq 1..s
  PROVE  LET fs == [i \in 1..n |-> s + i]
         IN /\ fs \in Seq(Nat) /\ fs \in Seq(Numbered) /\ Len(fs) = n
            /\ Rising(a \o fs) /\ Numbers(a \o fs) = Numbers(a) \cup (s + 1..s + n)
<1> DEFINE fs == [i \in 1..n |-> s + i]
<1>1. fs \in Seq(Nat) /\ Len(fs) = n /\ \A i \in 1..n : fs[i] = s + i
  OBVIOUS
<1> HIDE DEF fs
<1>2. fs \in Seq(Numbered)
  BY <1>1, Widened
<1>3. Rising(fs)
  BY <1>1, <1>2, NumbersAre
<1>4. \A x : x \in Numbers(fs) <=> x \in s + 1..s + n
  <2>1. \A x : x \in Numbers(fs) <=> x \in Nat /\ \E i \in 1..n : s + i = x
    <3>1. \A x : x \in Numbers(fs) <=> x \in Nat /\ \E i \in 1..Len(fs) : fs[i] = x
      BY <1>2, NumbersAre
    <3>2. \A x : (\E i \in 1..Len(fs) : fs[i] = x) <=> \E i \in 1..n : s + i = x
      BY <1>1
    <3> QED
      BY <3>1, <3>2
  <2>2. ASSUME NEW x \in s + 1..s + n PROVE x \in Nat /\ \E i \in 1..n : s + i = x
    <3>1. x - s \in 1..n /\ s + (x - s) = x /\ x \in Nat
      OBVIOUS
    <3> QED
      BY <3>1
  <2>3. ASSUME NEW x \in Numbers(fs) PROVE x \in s + 1..s + n
    <3>1. PICK i \in 1..n : s + i = x
      BY <2>1
    <3> QED
      BY <3>1
  <2>4. ASSUME NEW x \in s + 1..s + n PROVE x \in Numbers(fs)
    BY <2>1, <2>2
  <2> QED
    BY <2>3, <2>4
<1>5. Below(a, fs)
  <2>1. ASSUME NEW x \in Numbers(a), NEW y \in Numbers(fs) PROVE x < y
    <3>1. x \in 1..s /\ y \in s + 1..s + n
      BY <1>4
    <3> QED
      BY <3>1
  <2> QED
    BY <2>1 DEF Below
<1>6. Rising(a \o fs) /\ Numbers(a \o fs) = Numbers(a) \cup Numbers(fs)
  BY <1>2, <1>3, <1>5, Joined
<1>7. Numbers(fs) = s + 1..s + n
  BY <1>4
<1> QED
  BY <1>1, <1>2, <1>6, <1>7 DEF fs

LEMMA SendStep ==
  ASSUME StreamInv, NEW n \in Nat, NEW tear \in Tears, SendPayload(n, tear)
  PROVE  StreamInv'
<1> DEFINE fs == [i \in 1..n |-> sent + i]
           e == Encode(fs, StreamFormat)
           g == Oldest(Encode(<<sent + n + 1>>, StreamFormat), tear)
           a == InOrderOfArrival
<1>1. /\ StreamTypes /\ Framed /\ OrderHolds /\ LossCounted /\ SilenceHolds
      /\ outFifo \in Seq(Byte) /\ Aligned(outFifo) /\ InFlight \in Seq(Nat) /\ sent \in Nat
      /\ Rising(a) /\ Numbers(a) \subseteq 1..sent /\ a \in Seq(Numbered)
      /\ tear \in 0..Bytes-1 /\ tear \in Nat
  <2>1. tear \in 0..Bytes-1
    BY Apart
  <2>2. StreamTypes /\ Framed
    BY DEF StreamInv
  <2>3. InOrderOfArrival \in Seq(Numbered)
    BY <2>2, WayIs
  <2>4. Rising(a) /\ Numbers(a) \subseteq 1..sent
    BY DEF StreamInv, OrderHolds
  <2>5. outFifo \in Seq(Byte) /\ Aligned(outFifo) /\ InFlight \in Seq(Nat) /\ sent \in Nat
    BY <2>2 DEF StreamTypes, Framed
  <2>6. tear \in Nat
    BY <2>1, Sizes
  <2> QED
    BY <2>1, <2>2, <2>3, <2>4, <2>5, <2>6 DEF StreamInv
<1>2. /\ ~TornWaits /\ outFifo' = outFifo \o (e \o g) /\ sent' = sent + n + Lesser(tear, 1)
      /\ UNCHANGED <<inFifo, inputRing, outputRing, pending, stats, heard>>
  BY DEF SendPayload
<1>3. /\ fs \in Seq(Nat) /\ fs \in Seq(Numbered) /\ Len(fs) = n
      /\ Rising(a \o fs) /\ Numbers(a \o fs) = Numbers(a) \cup (sent + 1..sent + n)
  BY <1>1, Added
<1> HIDE DEF fs
<1>4. e \in Seq(Byte) /\ Aligned(e) /\ Len(e) = n * Bytes /\ Decode(e, StreamFormat) = fs
  BY <1>3, Encoded
<1>5. /\ g \in Seq(Byte) /\ Aligned(g) /\ Len(g) = tear /\ Decode(g, StreamFormat) = <<>>
      /\ \A j \in 1..tear : g[j].frame = sent + n + 1
  <2>1. sent + n + 1 \in Nat
    BY <1>1
  <2> QED
    BY <1>1, <2>1, Fragment
<1> HIDE DEF e, g
<1>6. PICK m \in Nat : Len(outFifo) = m * Bytes
  <2>1. Len(outFifo) \in Nat /\ Len(outFifo) % Bytes = 0
    BY <1>1, <1>2 DEF TornWaits
  <2>2. Len(outFifo) \div Bytes \in Nat /\ Len(outFifo) = (Len(outFifo) \div Bytes) * Bytes + 0
    BY <2>1, WholeFrames
  <2>3. (Len(outFifo) \div Bytes) * Bytes \in Nat
    BY <2>2, Before, Sizes
  <2> QED
    BY <2>2, <2>3
<1>7. /\ e \o g \in Seq(Byte) /\ Aligned(e \o g)
      /\ Decode(e \o g, StreamFormat) = fs
      /\ Len(e \o g) = n * Bytes + tear
  <2>1. /\ e \o g \in Seq(Byte) /\ Aligned(e \o g)
        /\ Decode(e \o g, StreamFormat) = Decode(e, StreamFormat) \o Decode(g, StreamFormat)
    BY <1>4, <1>5, AlignedJoin
  <2>2. fs \o <<>> = fs
    BY <1>3
  <2>3. Len(e \o g) = Len(e) + Len(g)
    BY <1>4, <1>5
  <2> QED
    BY <1>4, <1>5, <2>1, <2>2, <2>3
<1> DEFINE eg == e \o g
<1> HIDE DEF eg
<1>8. /\ outFifo' \in Seq(Byte) /\ Aligned(outFifo')
      /\ InFlight' = InFlight \o fs
  <2>1. eg \in Seq(Byte) /\ Aligned(eg) /\ Decode(eg, StreamFormat) = fs
    BY <1>7 DEF eg
  <2>2. /\ outFifo \o eg \in Seq(Byte) /\ Aligned(outFifo \o eg)
        /\ Decode(outFifo \o eg, StreamFormat) = Decode(outFifo, StreamFormat) \o Decode(eg, StreamFormat)
    BY <1>1, <1>6, <2>1, AlignedJoin
  <2>3. outFifo' = outFifo \o eg
    BY <1>2 DEF eg
  <2> QED
    BY <2>1, <2>2, <2>3 DEF InFlight
<1>9. /\ TornWaits' <=> tear # 0
      /\ tear # 0 => Last(outFifo').frame = sent + n + 1
  <2> DEFINE x == m * Bytes
             y == n * Bytes
             z == (m + n) * Bytes
             l == Len(outFifo')
  <2>1. m + n \in Nat /\ x + y = z /\ x \in Nat /\ y \in Nat
    BY Before, Sizes
  <2>2. eg \in Seq(Byte) /\ outFifo' = outFifo \o eg /\ Len(eg) = y + tear /\ Len(outFifo) = x
    BY <1>2, <1>6, <1>7 DEF eg
  <2>8. /\ Len(outFifo \o eg) = Len(outFifo) + Len(eg) /\ Len(outFifo) \in Nat
        /\ \A j \in 1..Len(eg) : (outFifo \o eg)[Len(outFifo) + j] = eg[j]
    <3>1. outFifo \in Seq(Byte) /\ eg \in Seq(Byte)
      BY <1>1, <2>2
    <3> QED
      BY <3>1
  <2>3. l = x + y + tear
    <3>1. l = Len(outFifo) + Len(eg)
      BY <2>2, <2>8
    <3> HIDE DEF x, y, l
    <3> QED
      BY <1>1, <2>1, <2>2, <3>1
  <2>4. l = (m + n) * Bytes + tear
    <3>1. l = z + tear
      <4> HIDE DEF x, y, z, l
      <4> QED
        BY <2>1, <2>3
    <3> QED
      BY <3>1
  <2>5. l % Bytes = tear
    <3> HIDE DEF l
    <3> QED
      BY <1>1, <2>1, <2>4, WholeFrames
  <2>6. ASSUME tear # 0 PROVE Last(outFifo').frame = sent + n + 1
    <3>1. tear \in 1..Len(g) /\ g[tear].frame = sent + n + 1
      BY <1>1, <1>5, <2>6
    <3>2. eg[Len(eg)] = g[tear] /\ Len(eg) \in 1..Len(eg)
      <4>1. Len(eg) = Len(e) + tear /\ Len(e) \in Nat
        BY <1>4, <2>2
      <4>2. (e \o g)[Len(e) + tear] = g[tear]
        BY <1>4, <1>5, <3>1
      <4> QED
        BY <1>1, <2>6, <4>1, <4>2 DEF eg
    <3>3. outFifo'[l] = eg[Len(eg)]
      <4>1. l = Len(outFifo) + Len(eg) /\ Len(outFifo) \in Nat
        BY <2>2, <2>8
      <4>2. (outFifo \o eg)[Len(outFifo) + Len(eg)] = eg[Len(eg)]
        BY <2>8, <3>2
      <4> HIDE DEF l
      <4> QED
        BY <2>2, <4>1, <4>2
    <3> QED
      BY <3>1, <3>2, <3>3 DEF Last
  <2>7. TornWaits' <=> l % Bytes # 0
    BY DEF TornWaits
  <2> HIDE DEF l
  <2> QED
    BY <2>5, <2>6, <2>7
<1>10. /\ tear = 0 => sent' = sent + n
       /\ tear # 0 => sent' = sent + n + 1
       /\ sent' \in Nat
  BY <1>1, <1>2 DEF Lesser
<1>11. InOrderOfArrival' = a \o fs
  <2>1. OnWire' = OnWire /\ Ahead' = Ahead
    BY <1>2 DEF OnWire, Ahead
  <2> DEFINE x == Ahead \o inputRing.held
             q == InFlight
  <2>2. a = x \o q /\ x \in Seq(Numbered) /\ q \in Seq(Numbered)
    <3>1. a = x \o q /\ Ahead \in Seq(Numbered) /\ inputRing.held \in Seq(Numbered) /\ q \in Seq(Numbered)
      BY <1>1, WayIs, Segments
    <3>2. x \in Seq(Numbered)
      BY <3>1, Together
    <3> QED
      BY <3>1, <3>2
  <2>3. InOrderOfArrival' = x \o (q \o fs)
    BY <1>2, <1>8, <2>1, WayWillBe
  <2> HIDE DEF x, q
  <2>4. Same((x \o q) \o fs, x \o (q \o fs))
    BY <1>3, <2>2, Associates
  <2> QED
    BY <2>2, <2>3, <2>4 DEF Same
<1> HIDE DEF a
<1>12. StreamTypes' /\ Framed'
  <2>1. InFlight' \in Seq(Nat)
    BY <1>1, <1>3, <1>8
  <2> QED
    BY <1>1, <1>2, <1>8, <1>10, <2>1 DEF StreamTypes, Framed
<1>13. Numbers(InOrderOfArrival)' = Numbers(a) \cup (sent + 1..sent + n)
  BY <1>3, <1>11
<1>14. OrderHolds'
  <2>1. Numbers(InOrderOfArrival)' \subseteq 1..sent + n
    BY <1>1, <1>13
  <2>2. tear = 0 \/ tear # 0
    OBVIOUS
  <2>3. Numbers(InOrderOfArrival)' \subseteq 1..sent'
    BY <1>1, <1>10, <2>1
  <2>4. tear # 0 => sent' \in 1..sent' \ Numbers(InOrderOfArrival)'
    BY <1>1, <1>10, <2>1
  <2> QED
    BY <1>3, <1>9, <1>10, <1>11, <2>3, <2>4 DEF OrderHolds
<1>15. LossCounted'
  <2>1. Torn = {}
    BY <1>2 DEF Torn
  <2>2. Torn' = IF tear # 0 THEN {sent + n + 1} ELSE {}
    BY <1>9 DEF Torn
  <2>3. Lost' = Lost
    <3> DEFINE ns == Numbers(a)
    <3>1. Lost = (1..sent) \ ns
      BY <2>1 DEF Lost, a
    <3>2. Lost' = (1..sent') \ ((ns \cup (sent + 1..sent + n)) \cup Torn')
      BY <1>13 DEF Lost
    <3>3. ns \subseteq 1..sent /\ sent \in Nat
      BY <1>1
    <3> HIDE DEF ns
    <3>4. CASE tear = 0
      BY <1>10, <2>2, <3>1, <3>2, <3>3, <3>4
    <3>5. CASE tear # 0
      BY <1>10, <2>2, <3>1, <3>2, <3>3, <3>5
    <3> QED
      BY <3>4, <3>5
  <2> QED
    BY <1>1, <1>2, <2>3 DEF LossCounted
<1>16. SilenceHolds'
  <2>1. OnWire' = OnWire
    BY <1>2 DEF OnWire
  <2> QED
    BY <1>1, <1>2, <2>1 DEF SilenceHolds
<1> QED
  BY <1>12, <1>14, <1>15, <1>16 DEF StreamInv

-----------------------------------------------------------------------------
(* The theorems                                                            *)

LEMMA StreamBegins == TransportInit => StreamInv
<1> SUFFICES ASSUME TransportInit PROVE StreamInv
  OBVIOUS
<1>1. /\ outFifo = <<>> /\ inFifo = <<>> /\ pending = <<>> /\ heard = <<>> /\ sent = 0
      /\ inputRing = [held |-> <<>>, state |-> "Priming"]
      /\ outputRing = [held |-> <<>>, state |-> "Priming"]
      /\ stats = [c \in Counters |-> 0]
  BY DEF TransportInit, LoopInit, Emptied
<1>2. InFlight = <<>> /\ OnWire = <<>> /\ ~TornWaits /\ inFifo \o pending = <<>>
  BY <1>1, NothingRead DEF InFlight, OnWire, TornWaits
<1>3. StreamTypes
  BY <1>1, NothingRead DEF StreamTypes, IsRing
<1>4. Framed
  <2>1. Len(<<>>) = 0 * Bytes
    BY Sizes
  <2> QED
    BY <1>1, <1>2, <2>1, NothingRead DEF Framed
<1>5. InOrderOfArrival = <<>>
  BY <1>1, <1>2 DEF InOrderOfArrival, OnWire, InFlight
<1>6. <<>> \in Seq(Numbered) /\ Len(<<>>) = 0
  OBVIOUS
<1>7. Rising(<<>>) /\ Numbers(<<>>) = {} /\ Silence \notin ToSet(<<>>)
  <2> DEFINE s == <<>>
  <2>1. s \in Seq(Numbered) /\ \A i : i \notin 1..Len(s)
    BY <1>6
  <2> HIDE DEF s
  <2>2. /\ \A x : x \in Numbers(s) <=> x \in Nat /\ \E i \in 1..Len(s) : s[i] = x
        /\ Rising(s) <=> \A i, j \in 1..Len(s) : i < j /\ s[i] \in Nat /\ s[j] \in Nat => s[i] < s[j]
        /\ Silence \in ToSet(s) <=> \E i \in 1..Len(s) : s[i] = Silence
    BY <2>1, NumbersAre
  <2>3. Rising(s) /\ Numbers(s) = {} /\ Silence \notin ToSet(s)
    BY <2>1, <2>2
  <2> QED
    BY <2>3 DEF s
<1>8. OrderHolds
  BY <1>1, <1>2, <1>5, <1>7 DEF OrderHolds
<1>9. LossCounted
  <2>1. Lost = {}
    BY <1>1 DEF Lost
  <2> QED
    BY <1>1, <2>1 DEF LossCounted, Counters
<1>10. SilenceHolds
  BY <1>1, <1>2, <1>7 DEF SilenceHolds, Counters
<1> QED
  BY <1>3, <1>4, <1>8, <1>9, <1>10 DEF StreamInv

LEMMA InStep ==
  ASSUME StreamInv, ServiceIn(FALSE, StreamFormat), UNCHANGED <<sent, heard>>
  PROVE  StreamInv'
<1>1. inFifo \in Seq(Byte) /\ pending \in Seq(Byte)
  BY DEF StreamInv, StreamTypes
<1>2. CASE FlushCarryover
  <2>1. inFifo' \in Seq(Byte) /\ pending' \in Seq(Byte) /\ inFifo' \o pending' = inFifo \o pending
    BY <1>1, <1>2, Offered DEF FlushCarryover
  <2> QED
    BY <1>2, <2>1, QuietStep DEF FlushCarryover
<1>3. CASE AwaitRunning
  BY <1>1, <1>3, QuietStep DEF AwaitRunning
<1>4. CASE AwaitRoom(StreamFormat)
  BY <1>1, <1>4, QuietStep DEF AwaitRoom, loopVars
<1>5. CASE PullFrames(StreamFormat)
  BY <1>5, PullStep
<1> QED
  BY <1>2, <1>3, <1>4, <1>5 DEF ServiceIn

\* The invariant is inductive.
LEMMA StreamKept == StreamInv /\ [TransportNext]_transportVars => StreamInv'
<1> SUFFICES ASSUME StreamInv, [TransportNext]_transportVars PROVE StreamInv'
  OBVIOUS
<1>1. CASE LoopOut
  BY <1>1, OutStep DEF LoopOut
<1>2. CASE LoopDsp
  BY <1>2, DspStep DEF LoopDsp
<1>3. CASE LoopIn
  BY <1>3, InStep DEF LoopIn
<1>4. ASSUME NEW n \in 0..MaxPacket, NEW tear \in Tears, SendPayload(n, tear) PROVE StreamInv'
  <2>1. n \in Nat
    BY Sizes
  <2> QED
    BY <1>4, <2>1, SendStep
<1>5. CASE TakeFrame
  BY <1>5, HearStep
<1>6. CASE UNCHANGED transportVars
  <2>1. inFifo \in Seq(Byte) /\ pending \in Seq(Byte)
    BY DEF StreamInv, StreamTypes
  <2> QED
    BY <1>6, <2>1, QuietStep DEF transportVars, loopVars
<1> QED
  BY <1>1, <1>2, <1>3, <1>4, <1>5, <1>6 DEF TransportNext, Loop

\* What the host hears is what it sent, for rings, packets, blocks and FIFOs of
\* every size and however the two sides interleave.
THEOREM StreamIsHeardAsSent == TransportSpec => []StreamIsFaithful
<1>1. TransportSpec => []StreamInv
  BY StreamBegins, StreamKept, PTL DEF TransportSpec
<1>2. StreamInv => StreamIsFaithful
  BY InvIsFaithful
<1> QED
  BY <1>1, <1>2, PTL

-----------------------------------------------------------------------------
(* The ranges of the stream                                                *)

\* What a ring, a FIFO, the carryover and a counter hold at most.
RingFits(ring) == ring.state \in {"Priming", "Running"} /\ Len(ring.held) <= Capacity

RangesHold ==
  /\ RingFits(inputRing) /\ RingFits(outputRing)
  /\ Len(outFifo) <= FifoDepth /\ Len(inFifo) <= FifoDepth
  /\ Len(pending) <= MaxPayload(StreamFormat)
  /\ stats \in [Counters -> 0..CountLimit]
  /\ coldStart \in BOOLEAN /\ fellBehind \in BOOLEAN
  /\ turn \in {"OUT", "DSP", "IN"} /\ sent <= MaxFrames

\* A sequence is cut in two by a request of any size.
LEMMA Cut ==
  ASSUME NEW S, NEW s \in Seq(S), NEW n \in Int
  PROVE  /\ Oldest(s, n) \in Seq(S) /\ Rest(s, n) \in Seq(S)
         /\ Len(Oldest(s, n)) = Lesser(Positive(n), Len(s)) /\ Len(Rest(s, n)) = Len(s) - Len(Oldest(s, n))
<1>1. PICK m \in 0..Len(s) :
           /\ m = Lesser(Positive(n), Len(s))
           /\ Oldest(s, n) = SubSeq(s, 1, m) /\ Rest(s, n) = SubSeq(s, m + 1, Len(s))
  BY TakenAndLeft, Zenon
<1>2. /\ SubSeq(s, 1, m) \in Seq(S) /\ Len(SubSeq(s, 1, m)) = m
      /\ SubSeq(s, m + 1, Len(s)) \in Seq(S) /\ Len(SubSeq(s, m + 1, Len(s))) = Len(s) - m
  BY Halves
<1> QED
  BY <1>1, <1>2

\* A write leaves a ring that fits, whatever it is handed.
LEMMA WriteFits ==
  ASSUME NEW S, NEW ring, ring.held \in Seq(S), RingFits(ring), NEW src \in Seq(S)
  PROVE  RingFits(Written(ring, src))
<1> DEFINE all == ring.held \o src
           n == Positive(Len(all) - Capacity)
           k == SubSeq(all, n + 1, Len(all))
<1>1. all \in Seq(S) /\ Len(all) \in Nat
  OBVIOUS
<1> HIDE DEF all
<1>2. n \in 0..Len(all) /\ Len(all) - n <= Capacity
  BY <1>1, Sizes DEF Positive
<1>3. Written(ring, src).held = k
      /\ Written(ring, src).state = Promoted(ring.state, Len(k), StartupFill)
  BY DEF Written, Newest, all
<1> HIDE DEF n
<1>4. Len(k) = Len(all) - n
  BY <1>1, <1>2, Halves
<1>5. Promoted(ring.state, Len(k), StartupFill) \in {"Priming", "Running"}
  BY DEF Promoted, RingFits
<1> QED
  BY <1>2, <1>3, <1>4, <1>5 DEF RingFits

\* A read of a ring leaves one.
LEMMA DrainFits ==
  ASSUME NEW S, NEW ring, ring = [held |-> ring.held, state |-> ring.state],
         ring.held \in Seq(S), RingFits(ring), NEW n \in Int
  PROVE  RingFits(Drained(ring, n))
<1>1. Len(ring.held) \in Nat
  OBVIOUS
<1>2. Len(Rest(ring.held, n)) <= Len(ring.held)
  <2>1. Len(Oldest(ring.held, n)) = Lesser(Positive(n), Len(ring.held))
        /\ Len(Rest(ring.held, n)) = Len(ring.held) - Len(Oldest(ring.held, n))
    BY Cut
  <2>2. Lesser(Positive(n), Len(ring.held)) \in Nat
    BY <1>1 DEF Lesser, Positive
  <2> QED
    BY <1>1, <2>1, <2>2
<1>3. Drained(ring, n).held = Rest(ring.held, n) /\ Drained(ring, n).state = ring.state
  BY DEF Drained
<1>4. Len(Rest(ring.held, n)) \in Int /\ Capacity \in Int
  BY <1>1, Cut, Sizes
<1> QED
  BY <1>1, <1>2, <1>3, <1>4 DEF RingFits

LEMMA CountedFits ==
  ASSUME stats \in [Counters -> 0..CountLimit], NEW happened
  PROVE  Counted(happened) \in [Counters -> 0..CountLimit]
BY Sizes DEF Counted, Lesser

\* What the sink takes fits it, and what it does not is no more than was offered.
LEMMA OfferFits ==
  ASSUME NEW bytes \in Seq(Byte), inFifo \in Seq(Byte), Len(inFifo) <= FifoDepth, Offer(bytes)
  PROVE  Len(inFifo') <= FifoDepth /\ Len(pending') <= Len(bytes)
<1>1. PICK n \in Accepted(bytes) : inFifo' = inFifo \o Oldest(bytes, n) /\ pending' = Rest(bytes, n)
  BY DEF Offer
<1>2. Len(bytes) \in Nat /\ Len(inFifo) \in Nat /\ FifoDepth \in Nat
  BY Sizes
<1>3. n \in Nat /\ n <= InRoom /\ InRoom = FifoDepth - Len(inFifo)
  BY <1>2 DEF Accepted, InRoom, Lesser
<1>4. Oldest(bytes, n) \in Seq(Byte) /\ Len(Oldest(bytes, n)) <= n /\ Len(Rest(bytes, n)) <= Len(bytes)
  <2>1. Oldest(bytes, n) \in Seq(Byte) /\ Len(Oldest(bytes, n)) = Lesser(Positive(n), Len(bytes))
        /\ Len(Rest(bytes, n)) = Len(bytes) - Len(Oldest(bytes, n))
    BY <1>3, Cut
  <2> QED
    BY <1>2, <1>3, <2>1 DEF Lesser, Positive
<1>5. Len(inFifo \o Oldest(bytes, n)) = Len(inFifo) + Len(Oldest(bytes, n))
      /\ Len(Oldest(bytes, n)) \in Nat
  BY <1>4
<1> QED
  BY <1>1, <1>2, <1>3, <1>4, <1>5

LEMMA RangesKept ==
  ASSUME StreamInv, RangesHold, [TransportNext]_transportVars
  PROVE  RangesHold'
<1>1. /\ outFifo \in Seq(Byte) /\ inFifo \in Seq(Byte) /\ pending \in Seq(Byte)
      /\ IsRing(inputRing) /\ IsRing(outputRing) /\ sent \in Nat
      /\ inputRing.held \in Seq(Nat) /\ outputRing.held \in Seq(Nat)
  BY DEF StreamInv, StreamTypes, IsRing
<1>2. MaxPayload(StreamFormat) \in Nat /\ MaxPayload(StreamFormat) \in Int
  BY Sizes, Before DEF MaxPayload
<1>3. CASE LoopOut
  <2> DEFINE f == Decode(Oldest(outFifo, MaxPayload(StreamFormat)), StreamFormat)
  <2>1. /\ outFifo' = Rest(outFifo, MaxPayload(StreamFormat)) /\ inputRing' = Written(inputRing, f)
        /\ (\E happened : stats' = Counted(happened)) /\ fellBehind' \in BOOLEAN /\ turn' = "DSP"
        /\ UNCHANGED <<inFifo, outputRing, pending, coldStart, sent>>
    BY <1>3 DEF LoopOut, ServiceOut, RangesHold
  <2>2. f \in Seq(Nat)
    BY <1>1, BoundedRead DEF StreamInv, Framed, InFlight
  <2> HIDE DEF f
  <2>3. RingFits(inputRing')
    BY <1>1, <2>1, <2>2, WriteFits DEF RangesHold
  <2>4. Len(outFifo') <= FifoDepth
    <3>1. Len(Rest(outFifo, MaxPayload(StreamFormat)))
             = Len(outFifo) - Lesser(Positive(MaxPayload(StreamFormat)), Len(outFifo))
      BY <1>1, <1>2, Cut, Zenon
    <3>2. Len(outFifo) \in Nat
      BY <1>1
    <3>3. Lesser(Positive(MaxPayload(StreamFormat)), Len(outFifo)) \in Nat
      BY <1>2, <3>2 DEF Lesser, Positive
    <3> QED
      BY <2>1, <3>1, <3>2, <3>3, Sizes DEF RangesHold
  <2>5. stats' \in [Counters -> 0..CountLimit]
    BY <2>1, CountedFits DEF RangesHold
  <2> QED
    BY <2>1, <2>3, <2>4, <2>5 DEF RangesHold, RingFits
<1>4. CASE LoopDsp
  <2>1. CASE SkipBlock
    BY <1>4, <2>1 DEF LoopDsp, SkipBlock, loopVars, RangesHold, RingFits
  <2>2. CASE RunBlock
    <3> DEFINE block == Drawn(inputRing, Block)
    <3>1. /\ inputRing' = Drained(inputRing, Block) /\ outputRing' = Written(outputRing, block)
          /\ (\E happened : stats' = Counted(happened)) /\ turn' = "IN"
          /\ UNCHANGED <<outFifo, inFifo, pending, coldStart, fellBehind, sent>>
      BY <1>4, <2>2 DEF LoopDsp, RunBlock
    <3>2. block \in Seq(Nat)
      <4>1. Len(inputRing.held) \in Nat /\ Len(inputRing.held) >= Block /\ Block \in Nat
        BY <1>1, <2>2, Sizes DEF RunBlock, BlockReady
      <4>2. Substituted(inputRing.held, Block) = 0
        BY <4>1 DEF Substituted, Lesser, Positive
      <4> DEFINE o == Oldest(inputRing.held, Block)
      <4>3. o \in Seq(Nat)
        <5>1. inputRing.held \in Seq(Nat) /\ Block \in Int
          BY <1>1, <4>1
        <5> QED
          BY <5>1, Cut, Zenon
      <4>4. block = o \o <<>>
        <5>1. Quiet(0) = <<>>
          BY DEF Quiet
        <5> QED
          BY <4>2, <5>1, Zenon DEF Drawn
      <4> HIDE DEF o, block
      <4> QED
        BY <4>3, <4>4
    <3> HIDE DEF block
    <3>3. RingFits(inputRing')
      <4>1. Block \in Int
        BY Sizes
      <4> QED
        BY <1>1, <3>1, <4>1, DrainFits DEF RangesHold, IsRing
    <3>4. RingFits(outputRing')
      BY <1>1, <3>1, <3>2, WriteFits DEF RangesHold
    <3>5. stats' \in [Counters -> 0..CountLimit]
      BY <3>1, CountedFits DEF RangesHold
    <3> QED
      BY <3>1, <3>3, <3>4, <3>5 DEF RangesHold
  <2> QED
    BY <1>4, <2>1, <2>2 DEF LoopDsp, ServiceDsp
<1>5. CASE LoopIn
  <2>0. turn' = "OUT" /\ UNCHANGED sent
    BY <1>5 DEF LoopIn
  <2>1. CASE FlushCarryover
    <3>1. Len(inFifo') <= FifoDepth /\ Len(pending') <= Len(pending)
      BY <1>1, <2>1, OfferFits DEF FlushCarryover, RangesHold
    <3>2. Len(pending) \in Nat /\ pending' \in Seq(Byte)
      BY <1>1, <2>1, Offered DEF FlushCarryover
    <3>3. Len(pending') \in Nat
      BY <3>2
    <3>4. Len(pending') <= MaxPayload(StreamFormat)
      BY <1>2, <3>1, <3>2, <3>3 DEF RangesHold
    <3> QED
      BY <2>0, <2>1, <3>1, <3>4 DEF FlushCarryover, RangesHold, RingFits
  <2>2. CASE AwaitRunning
    BY <2>0, <2>2 DEF AwaitRunning, RangesHold, RingFits
  <2>3. CASE AwaitRoom(StreamFormat)
    BY <2>0, <2>3 DEF AwaitRoom, loopVars, RangesHold, RingFits
  <2>4. CASE PullFrames(StreamFormat)
    <3> DEFINE n == PullSize(StreamFormat)
               frames == Drawn(outputRing, n)
    <3>1. /\ outputRing' = Drained(outputRing, n) /\ (\E happened : stats' = Counted(happened))
          /\ coldStart' \in BOOLEAN /\ Offer(Encode(frames, StreamFormat))
          /\ UNCHANGED <<outFifo, inputRing, fellBehind>>
      BY <2>4 DEF PullFrames, StillCold, RangesHold
    <3>2. Len(outputRing.held) \in Nat /\ Len(inFifo) \in Nat /\ Len(inFifo) <= FifoDepth
      BY <1>1 DEF RangesHold
    <3>3. RoomFrames(StreamFormat) \in 0..MaxPacket
      <4>1. InRoom \in Nat
        BY <3>2, Sizes DEF InRoom
      <4>2. InRoom \div Bytes \in Nat
        BY <4>1, WholeFrames
      <4> QED
        BY <4>2, Sizes DEF RoomFrames, Lesser
    <3>4. n \in 0..MaxPacket
      BY <3>2, <3>3, Sizes DEF PullSize, Lesser
    <3> HIDE DEF n
    <3>5. frames \in Seq(Numbered) /\ Len(frames) = n
      <4>1. Oldest(outputRing.held, n) \in Seq(Nat)
            /\ Len(Oldest(outputRing.held, n)) = Lesser(Positive(n), Len(outputRing.held))
        <5>1. outputRing.held \in Seq(Nat) /\ n \in Int
          BY <1>1, <3>4
        <5> QED
          BY <5>1, Cut, Zenon
      <4>2. n = Positive(n) /\ Lesser(Positive(n), Len(outputRing.held)) \in 0..n /\ n \in Nat
        BY <3>2, <3>4, Sizes DEF Lesser, Positive
      <4>3. Substituted(outputRing.held, n) = n - Len(Oldest(outputRing.held, n))
            /\ Substituted(outputRing.held, n) \in Nat
        BY <4>1, <4>2 DEF Substituted
      <4> DEFINE z == Quiet(Substituted(outputRing.held, n))
                 o == Oldest(outputRing.held, n)
      <4>4. z \in Seq({Silence}) /\ Len(z) = Substituted(outputRing.held, n)
        BY <4>3 DEF Quiet
      <4>5. z \in Seq(Numbered) /\ o \in Seq(Numbered)
        BY <4>1, <4>4 DEF Numbered
      <4>6. frames = o \o z
        BY DEF Drawn
      <4>7. Len(o) \in Nat /\ Len(z) = n - Len(o) /\ n \in Int
        BY <4>1, <4>2, <4>3, <4>4
      <4> HIDE DEF z, o, frames
      <4>8. o \o z \in Seq(Numbered) /\ Len(o \o z) = Len(o) + Len(z)
        BY <4>5
      <4> QED
        BY <4>6, <4>7, <4>8
    <3> HIDE DEF frames
    <3>6. Encode(frames, StreamFormat) \in Seq(Byte) /\ Len(Encode(frames, StreamFormat)) = n * Bytes
      BY <3>5, Encoded
    <3>7. Len(inFifo') <= FifoDepth /\ Len(pending') <= n * Bytes
      BY <1>1, <3>1, <3>6, OfferFits DEF RangesHold
    <3>8. Len(pending') <= MaxPayload(StreamFormat)
      <4>1. pending' \in Seq(Byte)
        BY <1>1, <3>1, <3>6, Offered
      <4>2. Len(pending') \in Nat
        BY <4>1
      <4>3. n * Bytes <= MaxPacket * Bytes /\ n * Bytes \in Int /\ MaxPacket * Bytes \in Int
        BY <3>4, Sizes
      <4> QED
        BY <3>7, <4>2, <4>3, Sizes DEF MaxPayload
    <3>9. RingFits(outputRing')
      <4>1. n \in Int
        BY <3>4
      <4> QED
        BY <1>1, <3>1, <4>1, DrainFits DEF RangesHold, IsRing
    <3>10. stats' \in [Counters -> 0..CountLimit]
      BY <3>1, CountedFits DEF RangesHold
    <3> QED
      BY <2>0, <3>1, <3>7, <3>8, <3>9, <3>10 DEF RangesHold, RingFits
  <2> QED
    BY <1>5, <2>1, <2>2, <2>3, <2>4 DEF LoopIn, ServiceIn
<1>6. ASSUME NEW n \in 0..MaxPacket, NEW tear \in Tears, SendPayload(n, tear) PROVE RangesHold'
  <2> DEFINE payload == Encode([i \in 1..n |-> sent + i], StreamFormat)
                          \o Oldest(Encode(<<sent + n + 1>>, StreamFormat), tear)
  <2>1. /\ outFifo' = outFifo \o payload /\ Len(outFifo) + Len(payload) <= FifoDepth
        /\ sent' <= MaxFrames
        /\ UNCHANGED <<inFifo, inputRing, outputRing, pending, coldStart, stats, fellBehind, turn>>
    BY <1>6 DEF SendPayload
  <2>2. payload \in Seq(Byte)
    <3>1. n \in Nat /\ tear \in 0..Bytes-1 /\ sent + n + 1 \in Nat
      BY <1>1, Sizes, Apart
    <3>2. [i \in 1..n |-> sent + i] \in Seq(Numbered)
      BY <1>1, <3>1 DEF Numbered
    <3>3. Encode([i \in 1..n |-> sent + i], StreamFormat) \in Seq(Byte)
      BY <3>2, Encoded
    <3>4. Oldest(Encode(<<sent + n + 1>>, StreamFormat), tear) \in Seq(Byte)
      BY <3>1, Fragment
    <3> QED
      BY <3>3, <3>4
  <2> HIDE DEF payload
  <2>3. Len(outFifo \o payload) = Len(outFifo) + Len(payload)
    BY <1>1, <2>2
  <2> QED
    BY <2>1, <2>3 DEF RangesHold, RingFits
<1>7. CASE TakeFrame
  <2>1. /\ inFifo' = Rest(inFifo, Bytes)
        /\ UNCHANGED <<outFifo, inputRing, outputRing, pending, coldStart, stats, fellBehind, turn, sent>>
    BY <1>7 DEF TakeFrame
  <2>2. Len(inFifo') <= FifoDepth
    <3>1. Len(Rest(inFifo, Bytes)) = Len(inFifo) - Lesser(Positive(Bytes), Len(inFifo))
      <4>1. Bytes \in Int /\ inFifo \in Seq(Byte)
        BY <1>1, Sizes
      <4>2. /\ Len(Oldest(inFifo, Bytes)) = Lesser(Positive(Bytes), Len(inFifo))
            /\ Len(Rest(inFifo, Bytes)) = Len(inFifo) - Len(Oldest(inFifo, Bytes))
        BY <4>1, Cut, Zenon
      <4> QED
        BY <4>2
    <3>2. Len(inFifo) \in Nat
      BY <1>1
    <3>3. Lesser(Positive(Bytes), Len(inFifo)) \in Nat
      BY <3>2, Sizes DEF Lesser, Positive
    <3> QED
      BY <2>1, <3>1, <3>2, <3>3, Sizes DEF RangesHold
  <2> QED
    BY <2>1, <2>2 DEF RangesHold, RingFits
<1>8. CASE UNCHANGED transportVars
  BY <1>8 DEF transportVars, loopVars, RangesHold, RingFits
<1> QED
  BY <1>3, <1>4, <1>5, <1>6, <1>7, <1>8 DEF TransportNext, Loop

LEMMA RangesBegin == TransportInit => RangesHold
<1>1. Len(<<>>) = 0 /\ 0 \in 0..CountLimit /\ 0 <= Capacity /\ 0 <= FifoDepth /\ 0 <= MaxFrames
  BY Sizes, TransportAssumption DEF TransportConstants
<1>2. 0 <= MaxPayload(StreamFormat)
  BY Sizes DEF MaxPayload
<1> SUFFICES ASSUME TransportInit PROVE RangesHold
  OBVIOUS
<1>3. RingFits(inputRing) /\ RingFits(outputRing)
  BY <1>1 DEF TransportInit, LoopInit, Emptied, RingFits
<1>4. stats \in [Counters -> 0..CountLimit]
  BY <1>1 DEF TransportInit, LoopInit
<1> QED
  BY <1>1, <1>2, <1>3, <1>4 DEF TransportInit, LoopInit, RangesHold

LEMMA RangesSuffice == StreamInv /\ RangesHold => TransportTypeOK
<1> SUFFICES ASSUME StreamInv, RangesHold PROVE TransportTypeOK
  OBVIOUS
<1>1. /\ heard \in Seq(Numbered) /\ OnWire \in Seq(Numbered) /\ outputRing.held \in Seq(Numbered)
      /\ inputRing.held \in Seq(Numbered) /\ InFlight \in Seq(Numbered)
  BY Segments DEF StreamInv
<1>2. Numbers(InOrderOfArrival) \subseteq 1..sent /\ sent \in Nat /\ sent <= MaxFrames /\ MaxFrames \in Nat
  BY TransportAssumption DEF StreamInv, OrderHolds, StreamTypes, RangesHold, TransportConstants
<1>3. Numbers(outputRing.held) \subseteq Numbers(InOrderOfArrival)
      /\ Numbers(inputRing.held) \subseteq Numbers(InOrderOfArrival)
  <2> DEFINE a == heard
             w == OnWire
             o == outputRing.held
             i == inputRing.held
             q == InFlight
  <2>1. InOrderOfArrival = (((a \o w) \o o) \o i) \o q
    BY DEF InOrderOfArrival, OnWire, InFlight
  <2>2. a \in Seq(Numbered) /\ w \in Seq(Numbered) /\ o \in Seq(Numbered) /\ i \in Seq(Numbered) /\ q \in Seq(Numbered)
    BY <1>1
  <2> HIDE DEF a, w, o, i, q
  <2> DEFINE aw == a \o w
             awo == aw \o o
             awoi == awo \o i
  <2>3. aw \in Seq(Numbered)
    BY <2>2
  <2> HIDE DEF aw
  <2>4. awo \in Seq(Numbered)
    BY <2>2, <2>3
  <2>5. Numbers(awo) = Numbers(aw) \cup Numbers(o)
    BY <2>2, <2>3, Joined
  <2> HIDE DEF awo
  <2>6. awoi \in Seq(Numbered)
    BY <2>2, <2>4
  <2>7. Numbers(awoi) = Numbers(awo) \cup Numbers(i)
    BY <2>2, <2>4, Joined
  <2> HIDE DEF awoi
  <2>8. Numbers(awoi \o q) = Numbers(awoi) \cup Numbers(q)
    BY <2>2, <2>6, Joined
  <2>9. InOrderOfArrival = awoi \o q
    BY <2>1 DEF awoi, awo, aw
  <2> QED
    BY <2>5, <2>7, <2>8, <2>9 DEF o, i
<1>4. \A ring \in {inputRing, outputRing} : ToSet(ring.held) \subseteq 1..MaxFrames \cup {Silence, Garbled}
  BY <1>2, <1>3 DEF Numbers
<1> QED
  BY <1>4 DEF RangesHold, RingFits, TransportTypeOK

-----------------------------------------------------------------------------
(* The three together                                                      *)

\* Every part keeps its types and ranges: no slot, fill or counter of a ring or
\* of the probe leaves its range, no FIFO, ring or carryover of the stream what
\* it is declared for, and no frame is in a ring that the host has not sent.
THEOREM RingsTypeCorrect == RingsSpec => []RingsTypeOK
<1> DEFINE Inv == TypeOK /\ ProbeInv /\ StreamInv /\ RangesHold
<1>1. RingsInit => Inv
  BY TypesBegin, InitiallyProbeInv, StreamBegins, RangesBegin DEF RingsInit
<1>2. Inv /\ [RingsNext]_ringsVars => Inv'
  <2>1. [RingsNext]_ringsVars => [Next]_vars /\ [ProbeNext]_probeVars /\ [TransportNext]_transportVars
    BY DEF RingsNext, ringsVars
  <2> QED
    BY <2>1, TypesKept, StepKeeps, StreamKept, RangesKept
<1>3. Inv => RingsTypeOK
  BY RangesSuffice DEF ProbeInv, RingsTypeOK
<1> QED
  BY <1>1, <1>2, <1>3, PTL DEF RingsSpec
=============================================================================
