----------------------------- MODULE ServiceLoop -----------------------------
(***************************************************************************)
(* The data plane of the Nucleo adapter's service loop, the three services *)
(* of nucleo-main.cpp that move audio:                                     *)
(*                                                                         *)
(*   OUT FIFO -> ServiceUsbAudioOut -> input ring -> ServiceDspBlock       *)
(*            -> output ring -> ServiceUsbAudioIn -> IN FIFO               *)
(*                                                                         *)
(* One action per service, each the whole pass the code makes.  The two    *)
(* FIFOs are TinyUSB's: plain byte queues without packet boundaries, which *)
(* is what alignment and format mistakes are made of, so bytes are         *)
(* modelled: a frame travels as BytesPerFrame(f) bytes.  Who fills and     *)
(* empties the FIFOs, and when, is left to the modules that extend this    *)
(* one.  The effect is the identity on the identity of frames.             *)
(***************************************************************************)
EXTENDS RingQueue, FiniteSets

CONSTANTS
  Block,        \* kBlockFrames, scaled down from 48
  MaxPacket,    \* kMaxPacketFrames, scaled down from 49: Block + 1
  StartupFill,  \* k{In,Out}putRingStartupFillFrames: 2 * MaxPacket
  FifoDepth,    \* bytes in each endpoint's software FIFO
  ShortAccepts, \* may the sink take less than it has room for?
  CountLimit,   \* model bound: a statistics counter stops here (0: not kept)
  Garbled       \* the frame read from bytes that are not one frame's

LoopConstants ==
  /\ Block \in Nat \ {0}
  /\ MaxPacket \in Nat /\ MaxPacket >= Block
  /\ StartupFill \in 0..Capacity        \* static_assert beside each ring
  /\ FifoDepth \in Nat \ {0}
  /\ ShortAccepts \in BOOLEAN
  /\ CountLimit \in Nat

VARIABLES
  outFifo, inFifo,        \* the endpoints' software FIFOs, oldest byte first
  inputRing, outputRing,  \* g_inputRing, g_outputRing
  pending,                \* the IN path's carryover: buffer_[0..pendingBytes_)
  coldStart,              \* the IN path's coldStartPending_
  stats,                  \* g_transportStats
  fellBehind              \* did a pass leave more than a packet behind it?
                          \* (what g_outFifoWorstBacklogBytes tells a reader)

loopVars == <<outFifo, inFifo, inputRing, outputRing, pending, coldStart, stats, fellBehind>>

(* Bytes -------------------------------------------------------------------*)

Format == {"Pcm16", "Pcm24"}

\* Two bytes stand for the four of a 16-bit stereo frame, three for six: a
\* frame can still be torn, and the two sizes still disagree.
BytesPerFrame(format) == IF format = "Pcm24" THEN 3 ELSE 2

\* MUTANT of MaxPayload: the bytes of a frame taken for those of a packet.
MaxPayloadOneFrame(format) == BytesPerFrame(format)

MaxPayload(format) == MaxPacket * BytesPerFrame(format)

\* Byte k of the n that carry a frame.
WireByte(frame, k, n) == [frame |-> frame, k |-> k, of |-> n]

Encode(frames, format) ==
  LET n == BytesPerFrame(format)
  IN [j \in 1..Len(frames) * n |->
        WireByte(frames[((j - 1) \div n) + 1], ((j - 1) % n) + 1, n)]

\* One frame's worth of bytes as the converter reads it: the frame, if these
\* are that frame's bytes in its format and in order, and noise if not.
FrameOf(bytes) ==
  IF \A k \in DOMAIN bytes : bytes[k] = WireByte(bytes[1].frame, k, Len(bytes))
    THEN bytes[1].frame
    ELSE Garbled

\* MUTANT of Decode: a remainder is read as one more frame.
DecodeRagged(bytes, format) ==
  LET n == BytesPerFrame(format)
  IN [i \in 1..(Len(bytes) + n - 1) \div n |->
        FrameOf(SubSeq(bytes, (i - 1) * n + 1, Lesser(i * n, Len(bytes))))]

\* The whole frames of a payload; a remainder is not looked at (FR-028a).
Decode(bytes, format) ==
  LET n == BytesPerFrame(format)
  IN [i \in 1..Len(bytes) \div n |-> FrameOf(SubSeq(bytes, (i - 1) * n + 1, i * n))]

(* Rings: AudioRing's operations on a ring that is a value --------------------*)

Emptied(state) == [held |-> <<>>, state |-> state]

\* MUTANT of Written: the overflow is not dropped.
WrittenUnbounded(ring, src) ==
  LET all == ring.held \o src
  IN [held |-> all, state |-> Promoted(ring.state, Len(all), StartupFill)]

\* MUTANT of Written: the packet, not the occupancy, is held against the fill.
WrittenByPacket(ring, src) ==
  LET kept == Newest(ring.held \o src)
  IN [held |-> kept, state |-> Promoted(ring.state, Len(src), StartupFill)]

Written(ring, src) ==
  LET kept == Newest(ring.held \o src)
  IN [held |-> kept, state |-> Promoted(ring.state, Len(kept), StartupFill)]

Drained(ring, n) == [ring EXCEPT !.held = Rest(ring.held, n)]

\* What a read of n frames hands out: it always hands out n.
Drawn(ring, n) == Oldest(ring.held, n) \o Quiet(Substituted(ring.held, n))

(* Statistics ----------------------------------------------------------------*)

Counters == {"inputUnderruns", "inputOverruns", "outputUnderruns",
             "outputOverruns", "inputStarved", "malformedPayloads"}

\* The counters after one pass in which the events `happened` took place.
Counted(happened) ==
  [c \in Counters |-> IF c \in happened THEN Lesser(stats[c] + 1, CountLimit) ELSE stats[c]]

Event(condition, counter) == IF condition THEN {counter} ELSE {}

LoopInit ==
  /\ outFifo = <<>> /\ inFifo = <<>>
  /\ inputRing = Emptied("Priming") /\ outputRing = Emptied("Priming")
  /\ pending = <<>>
  /\ coldStart = TRUE
  /\ stats = [c \in Counters |-> 0]
  /\ fellBehind = FALSE

(* OUT: ServiceUsbAudioOut, one bounded read ---------------------------------*)

ServiceOut(format) ==
  LET payload == Oldest(outFifo, MaxPayload(format))
      frames  == Decode(payload, format)
  IN /\ outFifo'    = Rest(outFifo, MaxPayload(format))
     /\ inputRing'  = Written(inputRing, frames)   \* also when frames = <<>>
     /\ stats'      = Counted(
          Event(Len(payload) % BytesPerFrame(format) # 0, "malformedPayloads")
            \cup Event(Dropped(inputRing.held, frames) > 0, "inputOverruns"))
     /\ fellBehind' = (fellBehind \/ Len(outFifo') > MaxPayload(format))
     /\ UNCHANGED <<inFifo, outputRing, pending, coldStart>>

(* DSP: ServiceDspBlock, at most one block ------------------------------------*)

\* MUTANT of BlockReady: a running ring is taken to hold a block.
BlockReadyByState == inputRing.state = "Running"

\* MUTANT of BlockReady: more than a block is asked for.
BlockReadyLate == inputRing.state = "Running" /\ Len(inputRing.held) > Block

BlockReady == inputRing.state = "Running" /\ Len(inputRing.held) >= Block

RunBlock ==
  LET block == Drawn(inputRing, Block)
  IN /\ BlockReady
     /\ inputRing'  = Drained(inputRing, Block)
     /\ outputRing' = Written(outputRing, block)
     /\ stats'      = Counted(
          Event(Substituted(inputRing.held, Block) > 0, "inputUnderruns")
            \cup Event(Dropped(outputRing.held, block) > 0, "outputOverruns"))
     /\ UNCHANGED <<outFifo, inFifo, pending, coldStart, fellBehind>>

SkipBlock == ~BlockReady /\ UNCHANGED loopVars

ServiceDsp == RunBlock \/ SkipBlock

(* IN: ServiceUsbAudioIn, at most one offer to the sink -----------------------*)

InRoom == FifoDepth - Len(inFifo)                        \* writeAvailable()
RoomFrames(format) == Lesser(InRoom \div BytesPerFrame(format), MaxPacket)

\* How many of the bytes offered the sink takes: all it has room for or, if it
\* may take fewer, at least one.
Accepted(bytes) ==
  LET most == Lesser(Len(bytes), InRoom)
  IN IF ShortAccepts THEN Lesser(1, most)..most ELSE {most}

\* MUTANT of Offer: what was taken is offered again.
OfferResend(bytes) ==
  \E n \in Accepted(bytes) : /\ inFifo'  = inFifo \o Oldest(bytes, n)
                             /\ pending' = bytes

\* MUTANT of Offer: what was not taken is forgotten.
OfferForget(bytes) ==
  \E n \in Accepted(bytes) : /\ inFifo'  = inFifo \o Oldest(bytes, n)
                             /\ pending' = <<>>

\* Offer bytes to the sink and keep what it does not take.
Offer(bytes) ==
  \E n \in Accepted(bytes) : /\ inFifo'  = inFifo \o Oldest(bytes, n)
                             /\ pending' = Rest(bytes, n)

\* Capture only: no playback stream exists, so the ring is not consulted, a
\* carryover is dropped, and as much silence as fits is offered and counted.
SupplySilence(format) ==
  LET silence == Encode(Quiet(RoomFrames(format)), format)
  IN /\ pending' = <<>>
     /\ \E n \in Accepted(silence) : inFifo' = inFifo \o Oldest(silence, n)
     /\ stats' = Counted(Event(silence # <<>>, "inputStarved"))
     /\ UNCHANGED <<outFifo, inputRing, outputRing, coldStart, fellBehind>>

FlushCarryover ==
  /\ pending # <<>>
  /\ Offer(pending)
  /\ UNCHANGED <<outFifo, inputRing, outputRing, coldStart, stats, fellBehind>>

AwaitRunning ==
  /\ pending = <<>>
  /\ outputRing.state # "Running"
  /\ coldStart' = TRUE
  /\ UNCHANGED <<outFifo, inFifo, inputRing, outputRing, pending, stats, fellBehind>>

AwaitRoom(format) ==
  /\ pending = <<>>
  /\ outputRing.state = "Running"
  /\ RoomFrames(format) = 0
  /\ UNCHANGED loopVars

\* The cold-start guard retires once the ring has been seen above its fill.
StillCold == coldStart /\ Len(outputRing.held) <= StartupFill

\* Does the sink still hold a packet for the wire?
SinkBuffered(format) == Len(inFifo) \div BytesPerFrame(format) >= MaxPacket

\* How many frames to ask the ring for: never more than it holds while the
\* start is cold or the sink is buffered, and otherwise a full packet, so
\* that a genuine shortfall is filled with silence and counted.
PullSize(format) ==
  IF StillCold \/ SinkBuffered(format)
    THEN Lesser(RoomFrames(format), Len(outputRing.held))
    ELSE RoomFrames(format)

\* MUTANT of PullFrames: only a read that finds nothing at all is an underrun.
PullFramesEmpty(format) ==
  LET frames == Drawn(outputRing, PullSize(format))
  IN /\ pending = <<>>
     /\ outputRing.state = "Running"
     /\ RoomFrames(format) > 0
     /\ coldStart'  = StillCold
     /\ outputRing' = Drained(outputRing, PullSize(format))
     /\ stats'      = Counted(Event(PullSize(format) > 0 /\ outputRing.held = <<>>,
                                   "outputUnderruns"))
     /\ Offer(Encode(frames, format))
     /\ UNCHANGED <<outFifo, inputRing, fellBehind>>

PullFrames(format) ==
  LET frames == Drawn(outputRing, PullSize(format))
  IN /\ pending = <<>>
     /\ outputRing.state = "Running"
     /\ RoomFrames(format) > 0
     /\ coldStart'  = StillCold
     /\ outputRing' = Drained(outputRing, PullSize(format))
     /\ stats'      = Counted(
          Event(Substituted(outputRing.held, PullSize(format)) > 0, "outputUnderruns"))
     /\ Offer(Encode(frames, format))
     /\ UNCHANGED <<outFifo, inputRing, fellBehind>>

ServiceIn(captureOnly, format) ==
  \/ captureOnly /\ SupplySilence(format)
  \/ ~captureOnly /\ FlushCarryover
  \/ ~captureOnly /\ AwaitRunning
  \/ ~captureOnly /\ AwaitRoom(format)
  \/ ~captureOnly /\ PullFrames(format)
=============================================================================
