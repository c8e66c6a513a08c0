------------------------------ MODULE AudioRing ------------------------------
(***************************************************************************)
(* The statically sized ring of adapters/nucleo/support/audio-ring.h, slot *)
(* by slot: storage_, tail_, count_, the lifecycle state and the occupancy *)
(* watermarks.  Every public member that changes state is one action; the  *)
(* ring runs in a single execution context (D26), so a member function is  *)
(* one step.  A frame stands for its Channels samples.                     *)
(*                                                                         *)
(* reply holds what the last call returned and wrote through its pointer.  *)
(* seen is a history variable: the occupancies the ring passed through     *)
(* since it was last emptied, the thing the watermarks summarise.          *)
(***************************************************************************)
EXTENDS RingQueue

CONSTANTS
  MaxRequest,   \* the longest write or read anybody asks for (a model bound)
  Frame         \* the frames a producer writes

ASSUME RequestAssumption == MaxRequest \in Nat

VARIABLES storage, tail, count, startupFill, state,
          occupancyMin, occupancyMax, watermarksObserved,
          reply, seen

marks == <<occupancyMin, occupancyMax, watermarksObserved, seen>>
vars  == <<storage, tail, count, startupFill, state, marks, reply>>

Slot    == 0..Capacity-1
Content == Frame \cup {Silence}
Batch   == UNION {[1..n -> Frame] : n \in 0..MaxRequest}

(* Slot arithmetic ---------------------------------------------------------*)

\* MUTANT of Advance: the wrap is taken one slot late.
AdvanceLate(index, delta) ==
  IF index + delta > Capacity THEN index + delta - Capacity ELSE index + delta

\* One conditional subtraction, not a modulus: right only for index + delta
\* below 2 * Capacity.
Advance(index, delta) ==
  IF index + delta >= Capacity THEN index + delta - Capacity ELSE index + delta

\* How many advance(slot, 1) steps lead from slot `from` to slot `to`.
Distance(from, to) == IF to >= from THEN to - from ELSE to + Capacity - from

\* The frames a consumer would receive, oldest first.
Held == [i \in 1..count |-> storage[Advance(tail, i - 1)]]

(* Watermarks --------------------------------------------------------------*)

\* MUTANT of ObserveOccupancy: the first observation is folded into the
\* zeroes the ring was emptied to, instead of replacing them.
ObserveFolded(occupancy) ==
  /\ watermarksObserved' = TRUE
  /\ seen' = seen \cup {occupancy}
  /\ occupancyMin' = Lesser(occupancy, occupancyMin)
  /\ occupancyMax' = Greater(occupancy, occupancyMax)

ObserveOccupancy(occupancy) ==
  /\ watermarksObserved' = TRUE
  /\ seen' = seen \cup {occupancy}
  /\ occupancyMin' = IF watermarksObserved THEN Lesser(occupancy, occupancyMin) ELSE occupancy
  /\ occupancyMax' = IF watermarksObserved THEN Greater(occupancy, occupancyMax) ELSE occupancy

(* Operations --------------------------------------------------------------*)

Init ==
  /\ storage = [s \in Slot |-> Silence]
  /\ tail = 0
  /\ count = 0
  /\ startupFill \in 0..Capacity        \* the constructor refuses any other
  /\ state = "Priming"
  /\ occupancyMin = 0
  /\ occupancyMax = 0
  /\ watermarksObserved = FALSE
  /\ reply = NoReply
  /\ seen = {}

\* MUTANT of SrcOffset: what does not fit is cut from the other end.
SrcOffsetNone(incoming) == 0

\* How many of `incoming` frames never enter the ring: its own first ones,
\* when it is longer than the whole ring.
SrcOffset(incoming) == incoming - Lesser(incoming, Capacity)

\* How many held frames a write of `incoming` frames evicts.
DropFromRing(incoming) ==
  Positive(Positive(count + incoming - Capacity) - SrcOffset(incoming))

Write(src) ==
  LET incoming == Len(src)
      accepted == Lesser(incoming, Capacity)
      evicted  == DropFromRing(incoming)
      kept     == count - evicted
      oldest   == Advance(tail, evicted)
      first    == Advance(oldest, kept)
  IN /\ tail'    = oldest
     /\ count'   = kept + accepted
     /\ storage' = [s \in Slot |->
                      IF Distance(first, s) < accepted
                        THEN src[SrcOffset(incoming) + Distance(first, s) + 1]
                        ELSE storage[s]]
     /\ state'   = Promoted(state, count', startupFill)
     /\ ObserveOccupancy(count')
     /\ reply'   = Reply(Positive(count + incoming - Capacity), 0, <<>>)
     /\ UNCHANGED startupFill

Read(frames) ==
  LET requested == Positive(frames)
      available == Lesser(count, requested)
  IN /\ tail'  = Advance(tail, available)
     /\ count' = count - available
     /\ reply' = Reply(0, requested - available,
                      [i \in 1..requested |->
                         IF i <= available
                           THEN storage[Advance(tail, i - 1)]
                           ELSE Silence])
     /\ ObserveOccupancy(count')
     /\ UNCHANGED <<storage, startupFill, state>>

\* The common part of reset() and stop().
Clear(next) ==
  /\ storage' = [s \in Slot |-> Silence]
  /\ tail' = 0
  /\ count' = 0
  /\ state' = next
  /\ occupancyMin' = 0
  /\ occupancyMax' = 0
  /\ watermarksObserved' = FALSE
  /\ reply' = NoReply
  /\ seen' = {}
  /\ UNCHANGED startupFill

Reset == Clear("Priming")
Stop  == Clear("Stopped")

Next == \/ \E src \in Batch : Write(src)
        \/ \E frames \in -1..MaxRequest : Read(frames)
        \/ Reset
        \/ Stop

Spec == Init /\ [][Next]_vars

(* Properties --------------------------------------------------------------*)

\* Every field stays in its range: no slot index and no frame count ever
\* leaves the fixed member array.
TypeOK ==
  /\ storage \in [Slot -> Content]
  /\ tail \in Slot
  /\ count \in 0..Capacity
  /\ startupFill \in 0..Capacity
  /\ state \in RingState
  /\ occupancyMin \in 0..Capacity
  /\ occupancyMax \in 0..Capacity
  /\ watermarksObserved \in BOOLEAN
  /\ seen \subseteq 0..Capacity

\* The two watermarks are the extremes of the occupancies the ring really
\* passed through since it was emptied, not of the zeroes it was emptied to
\* (observeOccupancy's seeding branch).
WatermarksExact ==
  /\ watermarksObserved <=> seen # {}
  /\ seen # {} => /\ {occupancyMin, occupancyMax, count} \subseteq seen
                  /\ \A n \in seen : occupancyMin <= n /\ n <= occupancyMax

\* The lifecycle state tells the truth about the past: Running means the
\* startup fill was reached since the ring was emptied, Priming that it was
\* not (AR7: a consumer can tell "still filling" from "ran dry").
PromotionExact ==
  /\ state = "Running" => watermarksObserved /\ occupancyMax >= startupFill
  /\ state = "Priming" /\ startupFill > 0 => occupancyMax < startupFill

\* What a ring reports of its past is what happened.
RingIsExact == WatermarksExact /\ PromotionExact

\* Once Running, a ring that runs dry stays Running: only reset() and stop()
\* leave it, and both leave it empty (AR7, AR9).
OnlyEmptyingLeavesRunning ==
  [][state = "Running" /\ state' # "Running" => count' = 0 /\ seen' = {}]_vars

\* The ring keeps the promise of RingContract: the queue a user sees is the
\* `count` frames that start at slot `tail`.
Contract == INSTANCE RingContract WITH held <- Held
ImplementsContract == Contract!Spec
=============================================================================
