------------------------------ MODULE RingQueue ------------------------------
(***************************************************************************)
(* An audio ring seen as a bounded queue of frames, oldest first: what a   *)
(* write keeps and loses, what a read returns and makes up, and when the   *)
(* consumer may start.  Contract items AR1-AR9 of                          *)
(* specs/nucleo-f446-adapter/contracts/nucleo-support.md as the code of    *)
(* adapters/nucleo/support/audio-ring.h realises them.  The queue is an    *)
(* argument, so one ring (RingContract, AudioRing) and two rings side by   *)
(* side (NucleoTransport) use the same operators.                          *)
(***************************************************************************)
EXTENDS Integers, Sequences

CONSTANTS
  Capacity,     \* frames a ring can hold (template parameter CapacityFrames)
  Silence       \* the frame a reader is given when there is none

\* The class's own static_assert: a ring has at least one slot.
ASSUME CapacityAssumption == Capacity \in Nat \ {0}

RingState == {"Stopped", "Priming", "Running"}

Positive(n)   == IF n > 0 THEN n ELSE 0
Lesser(m, n)  == IF m < n THEN m ELSE n
Greater(m, n) == IF m > n THEN m ELSE n

\* What is left of a queue that may hold no more than Capacity frames.
Newest(s)    == SubSeq(s, Positive(Len(s) - Capacity) + 1, Len(s))

\* A request of n frames takes what there is of them and leaves the rest.
Oldest(s, n) == SubSeq(s, 1, Lesser(Positive(n), Len(s)))
Rest(s, n)   == SubSeq(s, Lesser(Positive(n), Len(s)) + 1, Len(s))

Dropped(s, src)   == Positive(Len(s) + Len(src) - Capacity)
Substituted(s, n) == Positive(n) - Lesser(Positive(n), Len(s))

Quiet(n) == [i \in 1..n |-> Silence]

\* What a call returns: frames lost, frames made up, frames handed out.
Reply(lost, made, frames) == [lost |-> lost, made |-> made, frames |-> frames]
NoReply == Reply(0, 0, <<>>)

\* MUTANT of Promoted: the fill must be exceeded, not reached.
PromotedLate(state, occupancy, fill) ==
  IF state = "Priming" /\ occupancy > fill THEN "Running" ELSE state

\* MUTANT of Promoted: a ring that runs low goes back to Priming.
PromotedBack(state, occupancy, fill) ==
  IF state = "Stopped" THEN state
  ELSE IF occupancy >= fill THEN "Running" ELSE "Priming"

\* The startup-fill gate: evaluated on every write, and only while Priming.
Promoted(state, occupancy, fill) ==
  IF state = "Priming" /\ occupancy >= fill THEN "Running" ELSE state
=============================================================================
