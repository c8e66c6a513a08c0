---------------------------- MODULE PacedTransport ----------------------------
(***************************************************************************)
(* The same service loop under the only clock it has: the host's 1 ms      *)
(* frame.  In every frame the host makes one OUT and one IN transaction,   *)
(* in an order it keeps to, with or without service passes between them;   *)
(* then the loop makes at least MinPasses passes before the next frame,    *)
(* and any number more.                                                    *)
(* The size of an OUT packet follows the sample rate (48 and 48 and 48...  *)
(* or 44, 44, ..., 45) with some jitter; TinyUSB's flow control sizes the  *)
(* IN packet from the level of the IN FIFO (external: research.md R5 of    *)
(* specs/synchronous-usb-audio-transport).                                 *)
(*                                                                         *)
(* What this module is for: FR-007, FR-008 and SC-002 of that spec.  Every *)
(* frame is the same frame here, so that a stream can go on for ever.      *)
(***************************************************************************)
EXTENDS ServiceLoop

CONSTANTS
  StreamFormat,  \* the alt setting both directions run at
  Rates,         \* the sample rates: for each, the frames of successive OUT
                 \* packets (out, one cycle) and flow control's three IN packet
                 \* sizes (in, in frames, smallest first)
  MaxJitter,     \* how far the host may run ahead of or behind its schedule
  MinPasses,     \* the passes a frame leaves time for ("far faster than 1 ms")
  Tone           \* the one audio frame there is

Bytes      == BytesPerFrame(StreamFormat)
FifoFrames == FifoDepth \div Bytes

\* At a fractional rate (44.1 kHz) the larger packet is how flow control holds
\* the average.
Fractional(r) == r.in[1] = r.in[2]

\* The least that flow control sends while its FIFO is well filled.
Relief(r) == IF Fractional(r) THEN r.in[3] ELSE r.in[2]

PacedConstants ==
  /\ StreamFormat \in Format
  /\ \A r \in Rates : /\ r.out \in Seq(0..MaxPacket) /\ r.out # <<>>
                      /\ r.in \in Seq(1..MaxPacket) /\ Len(r.in) = 3
  /\ MaxJitter \in Nat
  /\ MinPasses \in Nat \ {0}

\* What the code's numbers have, and what keeping pace takes.  A block is not
\* outrun by the host's schedule, which flow control's relief from a full FIFO
\* matches; the startup fill is no whole number of blocks (98 of 48); a FIFO
\* takes two packets; and the rings have room for the fill of both, the jitter
\* and what is in transit (1024 frames for 342).
RoomyConstants ==
  /\ ~ShortAccepts
  /\ StartupFill >= MaxPacket /\ StartupFill % Block # 0
  /\ FifoFrames >= 2 * MaxPacket
  /\ StartupFill + 2 * MaxJitter + MaxPacket + Block <= Capacity
  /\ 2 * (StartupFill + MaxJitter + MaxPacket) + Block <= Capacity + (FifoFrames \div 2)
  /\ \A r \in Rates : /\ \A i \in DOMAIN r.out : r.out[i] <= Relief(r)
                      /\ Relief(r) <= Block
                      /\ r.in[2] <= r.in[3] /\ r.in[3] <= r.in[2] + 1

VARIABLES
  rate,      \* the sample rate of this stream
  passTurn,  \* the service the loop runs next
  first,     \* the transaction the host begins its frames with
  due,       \* the transactions this frame still owes
  passes,    \* passes ended since this frame's transactions, to MinPasses
  slot,      \* position in the schedule rate.out
  ahead,     \* frames the host has sent in advance of that schedule
  wire       \* what the last IN packets were: idle, flowing or starved

pacedVars == <<loopVars, rate, passTurn, first, due, passes, slot, ahead, wire>>
fifoFree == <<inputRing, outputRing, pending, coldStart, stats, fellBehind>>

Transactions == {"OUT", "IN"}
Level        == Len(inFifo) \div Bytes

(* The host's frame -------------------------------------------------------------*)

NewFrame ==
  /\ due = {} /\ passes = MinPasses
  /\ due' = Transactions
  /\ UNCHANGED <<loopVars, rate, passTurn, first, passes, slot, ahead, wire>>

\* One of the frame's transactions; the loop's time starts after the last.
Transact(kind) ==
  /\ kind \in due /\ (due = Transactions => kind = first)
  /\ due' = due \ {kind}
  /\ passes' = IF due' = {} THEN 0 ELSE passes
  /\ UNCHANGED <<rate, first>>

\* The host sends what its schedule says, give or take its jitter.
OutTransaction(extra) ==
  LET n == rate.out[slot] + extra
  IN /\ Transact("OUT")
     /\ n \in 0..MaxPacket
     /\ ahead' = ahead + extra
     /\ ahead' \in -MaxJitter..MaxJitter
     /\ slot' = IF slot = Len(rate.out) THEN 1 ELSE slot + 1
     /\ outFifo' = outFifo \o Encode([i \in 1..n |-> Tone], StreamFormat)
     /\ Len(outFifo') <= FifoDepth
     /\ UNCHANGED <<inFifo, fifoFree, passTurn, wire>>

\* The packet sizes flow control may choose at this level: the nominal one, a
\* correction towards a half full FIFO, or nothing when it is nearly empty.
\* The driver spaces its corrections out, so none is forced but at a fractional
\* rate.
FlowControl ==
  LET half == FifoFrames \div 2
      step == rate.in[3] - rate.in[2]
  IN CASE Level < rate.in[1]    -> {0}
       [] Level \in rate.in[1]..half - step - 1 -> {rate.in[1], rate.in[2]}
       [] Level > half + step   -> {Relief(rate), rate.in[3]}
       [] OTHER                 -> {rate.in[2]}

InTransaction(size) ==
  /\ Transact("IN")
  /\ inFifo' = Rest(inFifo, size * Bytes)
  /\ wire' = IF size > 0 /\ size <= Level THEN "flowing"
             ELSE IF wire = "idle" THEN "idle" ELSE "starved"
  /\ UNCHANGED <<outFifo, fifoFree, passTurn, slot, ahead>>

(* The loop ---------------------------------------------------------------------*)

Serve(service, next) ==
  /\ passTurn = service /\ passTurn' = next
  /\ passes' = IF service = "IN" THEN Lesser(passes + 1, MinPasses) ELSE passes
  /\ UNCHANGED <<rate, first, due, slot, ahead, wire>>

PacedLoop ==
  \/ Serve("OUT", "DSP") /\ ServiceOut(StreamFormat)
  \/ Serve("DSP", "IN")  /\ ServiceDsp
  \/ Serve("IN", "OUT")  /\ ServiceIn(FALSE, StreamFormat)

PacedInit ==
  /\ LoopInit
  /\ rate \in Rates
  /\ passTurn = "OUT" /\ first \in Transactions /\ due = {} /\ passes = 0
  /\ slot = 1 /\ ahead = 0 /\ wire = "idle"

PacedNext ==
  \/ PacedLoop
  \/ NewFrame
  \/ \E extra \in -1..1 : OutTransaction(extra)
  \/ \E size \in FlowControl : InTransaction(size)

PacedSpec == PacedInit /\ [][PacedNext]_pacedVars

\* The loop never blocks, and the bus never skips a frame.
FairlyPaced == /\ PacedSpec
               /\ WF_pacedVars(PacedLoop)
               /\ WF_pacedVars(NewFrame)
               /\ WF_pacedVars(\E extra \in -1..1 : OutTransaction(extra))
               /\ WF_pacedVars(\E size \in FlowControl : InTransaction(size))

\* A pass of the IN path that fills in for frames the output ring lacks.
Substitutes ==
  /\ passTurn = "IN" /\ passTurn' = "OUT"
  /\ outputRing.state = "Running" /\ RoomFrames(StreamFormat) > 0
  /\ Substituted(outputRing.held, PullSize(StreamFormat)) > 0

(* Properties -------------------------------------------------------------------*)

\* FR-032: a host that keeps its frame and a loop that keeps up with it lose
\* no frame and tear none; if anything happens it is silence at the far end.
NothingLost == \A c \in Counters \ {"outputUnderruns"} : stats[c] = 0

\* SC-002: once the first audio packet has gone out, no IN packet is short or
\* empty again.
NeverStarvesTheWire == wire # "starved"

\* The loop stays within a packet of the host (the condition usb-out-path.h
\* makes payload alignment depend on).
KeepsUpWithTheHost == ~fellBehind

\* FR-007, FR-032 and SC-002 in one: at the host's pace nothing is lost, no pass
\* falls a packet behind, and the wire is not starved once it flows.
PaceIsKept == NothingLost /\ NeverStarvesTheWire /\ KeepsUpWithTheHost

\* FR-030b: the startup fill is a delay and not a dead end.
EventuallyFlows == <>(wire = "flowing")

\* FR-008: there is a steady state.  What silence is made up is made up while
\* the cushion is being built, and a stream that runs on is not touched again.
UnderrunsCease == <>[][~Substitutes]_pacedVars
=============================================================================
