--------------------------- MODULE NucleoTransport ---------------------------
(***************************************************************************)
(* One stream through the whole adapter: a host that sends numbered frames *)
(* and polls for the processed ones whenever it likes (the USB interrupt   *)
(* fills and empties the endpoint FIFOs between any two service passes),   *)
(* and the service loop that runs OUT, DSP and IN in the order of          *)
(* nucleo-main.cpp.  Both interfaces stay open and the bus stays awake;    *)
(* UsbLifecycle has what happens when they do not.                         *)
(***************************************************************************)
EXTENDS ServiceLoop, SequencesExt

CONSTANTS
  StreamFormat,  \* the alt setting both directions run at
  MaxFrames,     \* model bound: the host has this many frames to play
  Tears          \* bytes of a further frame a payload may end with

TransportConstants ==
  /\ StreamFormat \in Format
  /\ MaxFrames \in Nat
  /\ Tears \subseteq 0..BytesPerFrame(StreamFormat) - 1
  /\ CountLimit # 0                                        \* losses are counted
  /\ {Silence, Garbled} \cap Nat = {} /\ Silence # Garbled

ASSUME TransportAssumption == LoopConstants /\ TransportConstants

VARIABLES
  turn,   \* the service the loop runs next
  sent,   \* how many frames the host has put on the wire
  heard   \* what it got back; a run of silence is one entry

transportVars == <<loopVars, turn, sent, heard>>

Bytes == BytesPerFrame(StreamFormat)

(* The host ------------------------------------------------------------------*)

\* A torn payload is waiting in the OUT FIFO to be read.
TornWaits == Len(outFifo) % Bytes # 0

\* An OUT payload of n frames and, when it is torn, the first `tear` bytes of
\* the next, which is read before anything arrives behind it: bytes that merge
\* with a tear are beyond what the code can align (usb-out-path.h:39-58).  The
\* host never outruns the FIFO: what TinyUSB does to a packet with no room for
\* it is not modelled.
SendPayload(n, tear) ==
  LET frames   == [i \in 1..n |-> sent + i]
      fragment == Oldest(Encode(<<sent + n + 1>>, StreamFormat), tear)
      payload  == Encode(frames, StreamFormat) \o fragment
  IN /\ payload # <<>>
     /\ ~TornWaits
     /\ Len(outFifo) + Len(payload) <= FifoDepth
     /\ sent' = sent + n + Lesser(tear, 1)
     /\ sent' <= MaxFrames
     /\ outFifo' = outFifo \o payload
     /\ UNCHANGED <<inFifo, inputRing, outputRing, pending, coldStart, stats,
                    fellBehind, turn, heard>>

\* The frame f heard after what was heard before.
Heard(f) == IF f = Silence /\ heard # <<>> /\ Last(heard) = Silence THEN heard ELSE Append(heard, f)

\* The host's ear takes a frame.  A payload of several is several of these steps.
TakeFrame ==
  /\ Bytes <= Len(inFifo)
  /\ inFifo' = Rest(inFifo, Bytes)
  /\ heard'  = Heard(FrameOf(Oldest(inFifo, Bytes)))
  /\ UNCHANGED <<outFifo, inputRing, outputRing, pending, coldStart, stats,
                 fellBehind, turn, sent>>

(* The loop ------------------------------------------------------------------*)

LoopOut == /\ turn = "OUT" /\ turn' = "DSP"
           /\ ServiceOut(StreamFormat)
           /\ UNCHANGED <<sent, heard>>

LoopDsp == /\ turn = "DSP" /\ turn' = "IN"
           /\ ServiceDsp
           /\ UNCHANGED <<sent, heard>>

LoopIn  == /\ turn = "IN" /\ turn' = "OUT"
           /\ ServiceIn(FALSE, StreamFormat)
           /\ UNCHANGED <<sent, heard>>

Loop == LoopOut \/ LoopDsp \/ LoopIn

TransportInit == LoopInit /\ turn = "OUT" /\ sent = 0 /\ heard = <<>>

TransportNext ==
  \/ Loop
  \/ \E n \in 0..MaxPacket, tear \in Tears : SendPayload(n, tear)
  \/ TakeFrame

TransportSpec == TransportInit /\ [][TransportNext]_transportVars

\* The loop is an endless polled loop, and the host polls an open IN endpoint
\* in every frame.  It need not send.
FairTransport == TransportSpec /\ WF_transportVars(Loop) /\ WF_transportVars(TakeFrame)

(* Properties ------------------------------------------------------------------*)

\* Everything the host has sent and the adapter or the host still has,
\* nearest to the host's ear first.
InOrderOfArrival ==
  heard \o Decode(inFifo \o pending, StreamFormat)
        \o outputRing.held \o inputRing.held \o Decode(outFifo, StreamFormat)

\* The frames of the host that a sequence has.
Numbers(frames) == ToSet(frames) \ {Silence, Garbled}

Torn == IF TornWaits THEN {Last(outFifo).frame} ELSE {}
Lost == (1..sent) \ (Numbers(InOrderOfArrival) \cup Torn)

TransportTypeOK ==
  /\ \A ring \in {inputRing, outputRing} :
       /\ ring.state \in {"Priming", "Running"}
       /\ Len(ring.held) <= Capacity
       /\ ToSet(ring.held) \subseteq 1..MaxFrames \cup {Silence, Garbled}
  /\ Len(outFifo) <= FifoDepth /\ Len(inFifo) <= FifoDepth
  /\ Len(pending) <= MaxPayload(StreamFormat)
  /\ stats \in [Counters -> 0..CountLimit]
  /\ coldStart \in BOOLEAN /\ fellBehind \in BOOLEAN
  /\ turn \in {"OUT", "DSP", "IN"}

\* Whatever is lost on the way, no frame is heard twice and no two frames
\* change places, from the host's packet to the host's ear: through both
\* rings, the one-block effect, the carryover of a partial accept and two
\* byte FIFOs (usb-in-path.h keeps the NEWEST tail for this reason).
Rising(frames) ==
  \A i, j \in DOMAIN frames :
    i < j /\ {frames[i], frames[j]} \cap {Silence, Garbled} = {} => frames[i] < frames[j]

InOrder == Rising(InOrderOfArrival)

\* FR-028a and FR-032, one way and the other: frames disappear only in an
\* overrun or a torn payload that was counted, and what was counted did lose
\* frames.
LossCounted ==
  Lost # {} <=> stats["inputOverruns"] + stats["outputOverruns"]
                  + stats["malformedPayloads"] > 0

\* FR-031/FR-032: silence in the host's stream and outputUnderruns imply each
\* other, and none is made up anywhere else: the block gate makes a short read
\* of the input ring impossible, so the effect never runs on a substitute.
SilenceCounted ==
  /\ Silence \in ToSet(InOrderOfArrival) <=> stats["outputUnderruns"] > 0
  /\ stats["inputUnderruns"] = 0 /\ Silence \notin ToSet(outputRing.held)

\* FR-028a with the one-read-per-pass framing of usb-out-path.h: nothing that
\* follows a tear is shifted, whatever happens to the torn frame's bytes.
TearContained == Garbled \notin ToSet(InOrderOfArrival)

\* What the host hears is what it sent: in order, with every gap counted and
\* every silence too, and no frame read from another one's bytes.
StreamIsFaithful == InOrder /\ LossCounted /\ SilenceCounted /\ TearContained

\* What the host has sent is played to the end: the FIFOs and the carryover
\* clear, a running input ring keeps less than a block, and a running output
\* ring nothing at all (the pull caps of usb-in-path.h never starve it).
Drains == <>[](/\ outFifo = <<>>
               /\ inputRing.state = "Running" => Len(inputRing.held) < Block
               /\ outputRing.state = "Running" => outputRing.held = <<>>)
=============================================================================
