---------------------------- MODULE CaptureProbe ----------------------------
(***************************************************************************)
(* CaptureProbeRing of core/primitives/analysis/capture-probe.h: the audio *)
(* thread pushes blocks of samples, the analysis thread drains windows of  *)
(* them, and there is no lock.  The audio thread never waits: it overwrites*)
(* what the analysis thread has not read, may do so while a window is being*)
(* copied, and the analysis thread finds out by reading the write index a  *)
(* second time.  One action per access to shared memory.                   *)
(*                                                                         *)
(* The copies are plain (non-atomic) accesses that race with push().  In a *)
(* build that keeps them in program order (Reordered = FALSE) they happen  *)
(* before the second read of the write index.  The acquire load that read  *)
(* is does not oblige a compiler or an ARM core to do so: Reordered = TRUE *)
(* lets a copy be satisfied after it, though never after the release store *)
(* that commits the window.                                                *)
(*                                                                         *)
(* A sample stands for itself: it is numbered as it is pushed.             *)
(***************************************************************************)
EXTENDS Integers, Sequences

CONSTANTS
  ProbeCapacity,     \* slots in the ring
  PushSizes,    \* the block lengths the audio thread pushes
  DrainSizes,   \* the window lengths the analysis thread asks for
  MaxAttempts,  \* kMaxDrainAttempts
  MaxSamples,   \* model bound: samples ever pushed
  Reordered     \* may a copy be satisfied after the check that follows it?

ASSUME ProbeAssumption ==
  /\ ProbeCapacity \in Nat \ {0}
  /\ PushSizes \subseteq 1..ProbeCapacity     \* as in both hosts: a block fits the ring
  /\ DrainSizes \subseteq Nat
  /\ MaxAttempts \in Nat \ {0}
  /\ MaxSamples \in Nat
  /\ Reordered \in BOOLEAN

VARIABLES
  buffer, writeIndex, readIndex, overrunCount, droppedFrameCount,
  at, seenRead, left,   \* push(): w, r, and the samples still to copy
  pushing,
  step,                 \* drain(): where it is,
  attempt, from, take,  \* ... which attempt, its r, its take,
  out,                  \* ... the window copied so far,
  verdict, checkedAt,   \* ... whether it passed the check, and at which index
  asked, ready,         \* ... what was wanted, and available() just before
  base,                 \* GHOST: samples pushed before the last reset()
  returned,             \* GHOST: samples handed out since
  window                 \* GHOST: the window the last drain() returned

shared   == <<buffer, writeIndex, readIndex, overrunCount, droppedFrameCount>>
producer == <<at, seenRead, left, pushing>>
consumer == <<step, attempt, from, take, out, verdict, checkedAt, asked, ready>>
ghosts   == <<base, returned, window>>
probeVars     == <<shared, producer, consumer, ghosts>>

ProbeSlot     == 0..ProbeCapacity-1
Never    == -1                    \* what a slot holds before anything is pushed
Sample   == 0..MaxSamples-1
Smaller(m, n) == IF m < n THEN m ELSE n

\* The sample that belongs at logical index i.
SampleAt(i) == base + i

(* The audio thread: push() -----------------------------------------------------*)

PushBegin(n) ==
  /\ ~pushing /\ pushing' = TRUE
  /\ SampleAt(writeIndex + n) <= MaxSamples
  /\ at' = writeIndex
  /\ seenRead' = readIndex
  /\ left' = n
  /\ UNCHANGED <<shared, consumer, ghosts>>

\* MUTANT of PushSlot: a lap is counted one sample late.
PushSlotLate ==
  /\ pushing /\ left > 0
  /\ buffer' = [buffer EXCEPT ![at % ProbeCapacity] = SampleAt(at)]
  /\ overrunCount' = overrunCount + (IF at - seenRead > ProbeCapacity THEN 1 ELSE 0)
  /\ at' = at + 1
  /\ left' = left - 1
  /\ UNCHANGED <<writeIndex, readIndex, droppedFrameCount, seenRead, pushing, consumer, ghosts>>

PushSlot ==
  /\ pushing /\ left > 0
  /\ buffer' = [buffer EXCEPT ![at % ProbeCapacity] = SampleAt(at)]
  /\ overrunCount' = overrunCount + (IF at - seenRead >= ProbeCapacity THEN 1 ELSE 0)
  /\ at' = at + 1
  /\ left' = left - 1
  /\ UNCHANGED <<writeIndex, readIndex, droppedFrameCount, seenRead, pushing, consumer, ghosts>>

PushPublish ==
  /\ pushing /\ left = 0
  /\ writeIndex' = at
  /\ pushing' = FALSE
  /\ UNCHANGED <<buffer, readIndex, overrunCount, droppedFrameCount, at, seenRead, left,
                 consumer, ghosts>>

(* The analysis thread: available(), then drain() ---------------------------------*)

\* available(), as LiveReadout::update asks before it drains.
Available == Smaller(writeIndex - readIndex, ProbeCapacity)

DrainBegin(want) ==
  /\ step = "idle" /\ step' = "snapshot"
  /\ asked' = want
  /\ ready' = Available
  /\ attempt' = 1
  /\ UNCHANGED <<shared, producer, from, take, out, verdict, checkedAt, ghosts>>

\* MUTANT of OldestUnread: the skip goes one sample too far.
OldestOvershot ==
  IF writeIndex - readIndex > ProbeCapacity THEN writeIndex - ProbeCapacity + 1 ELSE readIndex

\* The oldest sample that is still there, of those not yet read.
OldestUnread == IF writeIndex - readIndex > ProbeCapacity THEN writeIndex - ProbeCapacity ELSE readIndex

\* MUTANT of Taken: as much as is asked for, pushed or not.
TakenUnclamped == Smaller(asked, ProbeCapacity)

\* How much of what is asked for there is.
Taken == Smaller(asked, writeIndex - OldestUnread)

\* Choose the window; an empty one needs no check.
Snapshot ==
  /\ step = "snapshot"
  /\ from' = OldestUnread
  /\ take' = Taken
  /\ out' = <<>>
  /\ step' = IF take' = 0 THEN "commit" ELSE "copy"
  /\ verdict' = "none"
  /\ UNCHANGED <<shared, producer, attempt, checkedAt, asked, ready, ghosts>>

CopySlot ==
  /\ step = "copy" /\ Len(out) < take
  /\ out' = Append(out, buffer[(from + Len(out)) % ProbeCapacity])
  /\ UNCHANGED <<shared, producer, step, attempt, from, take, verdict, checkedAt, asked,
                 ready, ghosts>>

\* MUTANT of Coherent: a window of the whole ring is never good enough.
CoherentStrict == writeIndex - from < ProbeCapacity

\* MUTANT of Coherent: one lapped slot is let through.
CoherentOffByOne == writeIndex - from <= ProbeCapacity + 1

\* Nothing published since reaches the oldest slot of the window.
Coherent == writeIndex - from <= ProbeCapacity

\* The second read of the write index.
CheckWindow ==
  /\ step = "copy" /\ verdict = "none"
  /\ Len(out) = take \/ Reordered
  /\ checkedAt' = writeIndex
  /\ verdict' = IF Coherent THEN "coherent" ELSE "torn"
  /\ UNCHANGED <<shared, producer, step, attempt, from, take, out, asked, ready, ghosts>>

\* MUTANT of Retry: one attempt too many.
RetryOnceMore ==
  /\ step = "copy" /\ verdict = "torn"
  /\ step' = IF attempt <= MaxAttempts THEN "snapshot" ELSE "resync"
  /\ attempt' = attempt + 1
  /\ UNCHANGED <<shared, producer, from, take, out, verdict, checkedAt, asked, ready, ghosts>>

\* Torn: try again with a fresher window, or give up after the last attempt.
Retry ==
  /\ step = "copy" /\ verdict = "torn"
  /\ step' = IF attempt < MaxAttempts THEN "snapshot" ELSE "resync"
  /\ attempt' = attempt + 1
  /\ UNCHANGED <<shared, producer, from, take, out, verdict, checkedAt, asked, ready, ghosts>>

\* Coherent: the window is the caller's and its samples are read.
Commit ==
  /\ \/ step = "commit"
     \/ step = "copy" /\ verdict = "coherent" /\ Len(out) = take
  /\ step' = "idle"
  /\ readIndex' = from + take
  /\ returned' = returned + take
  /\ window' = out
  /\ UNCHANGED <<buffer, writeIndex, overrunCount, droppedFrameCount, producer, attempt,
                 from, take, out, verdict, checkedAt, asked, ready, base>>

\* Given up: the reader moves to the oldest sample there is ...
Resync ==
  /\ step = "resync" /\ step' = "drop"
  /\ from' = IF writeIndex > ProbeCapacity THEN writeIndex - ProbeCapacity ELSE 0
  /\ UNCHANGED <<shared, producer, attempt, take, out, verdict, checkedAt, asked, ready, ghosts>>

\* ... and the frame is dropped.
Drop ==
  /\ step = "drop" /\ step' = "idle"
  /\ readIndex' = from
  /\ droppedFrameCount' = droppedFrameCount + 1
  /\ window' = <<>>
  /\ UNCHANGED <<buffer, writeIndex, overrunCount, producer, attempt, from, take, out,
                 verdict, checkedAt, asked, ready, base, returned>>

\* reset(), which is not called while either of the others runs.  The samples
\* stay in their slots.
ProbeReset ==
  /\ ~pushing /\ step = "idle"
  /\ writeIndex' = 0 /\ readIndex' = 0
  /\ overrunCount' = 0 /\ droppedFrameCount' = 0
  /\ base' = base + writeIndex
  /\ returned' = 0
  /\ window' = <<>>
  /\ UNCHANGED <<buffer, producer, consumer>>

(* Specification ------------------------------------------------------------------*)

ProbeInit ==
  /\ buffer = [s \in ProbeSlot |-> Never]
  /\ writeIndex = 0 /\ readIndex = 0 /\ overrunCount = 0 /\ droppedFrameCount = 0
  /\ at = 0 /\ seenRead = 0 /\ left = 0 /\ pushing = FALSE
  /\ step = "idle" /\ attempt = 1 /\ from = 0 /\ take = 0 /\ out = <<>>
  /\ verdict = "none" /\ checkedAt = 0 /\ asked = 0 /\ ready = 0
  /\ base = 0 /\ returned = 0 /\ window = <<>>

Push  == (\E n \in PushSizes : PushBegin(n)) \/ PushSlot \/ PushPublish
Drain == Snapshot \/ CopySlot \/ CheckWindow \/ Retry \/ Commit \/ Resync \/ Drop

ProbeNext == \/ Push
        \/ \E want \in DrainSizes : DrainBegin(want)
        \/ Drain
        \/ ProbeReset

ProbeSpec == ProbeInit /\ [][ProbeNext]_probeVars

(* Properties -----------------------------------------------------------------------*)

ProbeTypeOK ==
  /\ buffer \in [ProbeSlot -> Sample \cup {Never}]
  /\ writeIndex \in 0..MaxSamples /\ readIndex \in 0..MaxSamples
  /\ overrunCount \in 0..MaxSamples /\ droppedFrameCount \in Nat
  /\ at \in 0..MaxSamples /\ seenRead \in 0..MaxSamples /\ left \in 0..ProbeCapacity
  /\ pushing \in BOOLEAN
  /\ step \in {"idle", "snapshot", "copy", "commit", "resync", "drop"}
  /\ attempt \in 1..MaxAttempts + 1
  /\ from \in 0..MaxSamples /\ take \in 0..ProbeCapacity /\ Len(out) <= take
  /\ verdict \in {"none", "coherent", "torn"} /\ checkedAt \in 0..MaxSamples
  /\ asked \in DrainSizes \cup {0} /\ ready \in 0..ProbeCapacity
  /\ base \in 0..MaxSamples /\ returned \in 0..MaxSamples

\* The window that is about to become the caller's.
Committing == step = "copy" /\ verdict = "coherent" /\ Len(out) = take

\* Positions of the window that hold another sample than the one they should.
Wrong == {i \in DOMAIN out : out[i] # SampleAt(from + i - 1)}

\* A window drain() returns is a run of consecutive samples but for a prefix
\* that a push() in flight at the moment of the check had already overwritten:
\* such a sample is exactly one lap too new and was not yet published, so with
\* a block of slack above the window nothing is ever wrong (the header banner's
\* "best-effort by construction", made exact).
TornOnlyInFlight ==
  Committing =>
    \A i \in Wrong : LET index == from + i - 1 + ProbeCapacity
                     IN /\ out[i] = SampleAt(index)
                        /\ checkedAt <= index
                        /\ \E n \in PushSizes : index < checkedAt + n

\* The sample a consumer never gets is one the producer counted: however the
\* two interleave, what drain() skipped or dropped is covered by overrunCount
\* (FR-013, the condition is observable).
NoSilentLoss == readIndex - returned <= overrunCount

\* The reader stays behind the writer, and a window is made of published
\* samples only, that is, nothing is handed out before it was pushed.
ReaderBehindWriter ==
  /\ readIndex <= writeIndex
  /\ step \in {"copy", "commit", "drop"} => readIndex <= from
  /\ step \in {"copy", "commit"} => from + take <= writeIndex
  /\ Never \notin {window[i] : i \in DOMAIN window}

\* A drain() that follows an available() of at least what it asks for returns
\* all of it or a dropped frame, and never a shorter window (the check
\* LiveReadout::update makes relies on it).
FullWindowOrDropped ==
  step = "copy" \/ step = "commit" => take >= Smaller(asked, ready)

\* A window that is dropped was overtaken MaxAttempts times: a producer that
\* laps the reader less often than that costs no frame.
DropsAreEarned ==
  step \in {"resync", "drop"} => writeIndex >= ProbeCapacity + MaxAttempts

\* What drain() gives and what it does not: a window that is whole and of what
\* was pushed (capture-probe.h:110-163), and no sample lost without a count or a
\* window dropped without a race (97-99, 167-175).
DrainIsCoherent == TornOnlyInFlight /\ FullWindowOrDropped /\ ReaderBehindWriter
LossIsAccounted == NoSilentLoss /\ DropsAreEarned

\* The header banner: "the re-read reliably rejects ... a lapping push that
\* completed during the copy".
LapsRejected ==
  [][Committing' /\ UNCHANGED producer
       => \A i \in Wrong' : writeIndex <= from + i - 1 + ProbeCapacity]_probeVars
=============================================================================
