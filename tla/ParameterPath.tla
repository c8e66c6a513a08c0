---------------------------- MODULE ParameterPath ----------------------------
(***************************************************************************)
(* How a MIDI controller turned at the host reaches the effect on the      *)
(* Nucleo board:                                                           *)
(*                                                                         *)
(*   RX FIFO -> MidiParameterSource ring -> dead-band -> ParameterShadow   *)
(*           -> setParameter -> applyPending of the next block             *)
(*                                                                         *)
(* Everything runs in the service loop; the hazard is not a race but the   *)
(* chain: four buffers that drop, collapse or suppress values, each for a  *)
(* good reason, and the last value of every parameter must come through.   *)
(* ServiceParameters is three loops, one after the other; an action is one *)
(* iteration, turn is the loop the program is in, and a loop is left when  *)
(* its condition fails and not before.                                     *)
(*                                                                         *)
(* External: TinyUSB fills the RX FIFO in tud_task only, FifoPackets deep  *)
(* (64 bytes, four to a packet).                                           *)
(***************************************************************************)
EXTENDS Integers, Sequences

CONSTANTS
  ParamCount,   \* parameters of the effect in this image
  Binding,      \* the CC table: controller -> parameter, some out of range
  Level,        \* the controller values, normalized
  Other,        \* a MIDI packet that is no Control Change
  FifoPackets,  \* packets the RX FIFO holds
  RingSlots,    \* kCapacity of the source's ring; one slot stays empty
  Nothing       \* no value yet: the -1.0 sentinel, an empty slot

\* That the ring takes what the FIFO holds is asserted nowhere in the code; 64
\* bytes are 16 packets and kCapacity is 32.
ASSUME PathAssumption ==
  /\ ParamCount \in Nat
  /\ \A cc \in DOMAIN Binding : Binding[cc] \in Nat
  /\ FifoPackets \in Nat
  /\ RingSlots \in Nat /\ FifoPackets < RingSlots
  /\ Nothing \notin Level

VARIABLES
  rx,         \* the RX FIFO, oldest packet first
  ring,       \* MidiParameterSource's ring, oldest update first
  lastValue,  \* lastValue_: what was last written to each slot of the shadow
  shadow,     \* ParameterShadow: the value of each dirty slot
  slot,       \* the slot flush() has reached
  pending,    \* the effect's published and not yet applied values
  applied,    \* the values the effect runs on
  turn,       \* what the service loop runs next
  calls,      \* GHOST: the setParameter calls of the last pass
  turned      \* GHOST: where the host's controllers stood, per parameter

pathVars == <<rx, ring, lastValue, shadow, slot, pending, applied, turn, calls, turned>>

Slots  == 0..ParamCount - 1
Update == [cc : DOMAIN Binding, value : Level]
Packet == Update \cup {Other}
Unset  == [s \in Slots |-> Nothing]

\* mapCcToParam: the packet moves a parameter of this effect.
Mapped(packet) == packet # Other /\ Binding[packet.cc] < ParamCount

(* The host and tud_task ------------------------------------------------------*)

Receive(packet) ==
  /\ turn = "task"
  /\ Len(rx) < FifoPackets
  /\ rx' = Append(rx, packet)
  /\ turned' = IF Mapped(packet) THEN [turned EXCEPT ![Binding[packet.cc]] = packet.value]
                                 ELSE turned
  /\ UNCHANGED <<ring, lastValue, shadow, slot, pending, applied, turn, calls>>

TaskDone ==
  /\ turn = "task" /\ turn' = "drain"
  /\ UNCHANGED <<rx, ring, lastValue, shadow, slot, pending, applied, calls, turned>>

(* ServiceParameters: drain the FIFO -------------------------------------------*)

\* MUTANT of Queued: the ring keeps two slots empty.
QueuedShort(queue, packet) == IF Len(queue) = RingSlots - 2 THEN queue ELSE Append(queue, packet)

\* onControlChange: a full ring drops the newest update.
Queued(queue, packet) == IF Len(queue) = RingSlots - 1 THEN queue ELSE Append(queue, packet)

Drain ==
  /\ turn = "drain" /\ rx # <<>>
  /\ rx'   = Tail(rx)
  /\ ring' = IF Head(rx) = Other THEN ring ELSE Queued(ring, Head(rx))
  /\ UNCHANGED <<lastValue, shadow, slot, pending, applied, turn, calls, turned>>

DrainDone ==
  /\ turn = "drain" /\ rx = <<>> /\ turn' = "poll"
  /\ UNCHANGED <<rx, ring, lastValue, shadow, slot, pending, applied, calls, turned>>

(* ServiceParameters: poll the source ------------------------------------------*)

\* MUTANT of Written: one pending update displaces another's.
WrittenEvicting(values, s, v) == [Unset EXCEPT ![s] = v]

\* MUTANT of Written: a slot that is dirty keeps its first value.
WrittenFirstWins(values, s, v) == IF values[s] # Nothing THEN values ELSE [values EXCEPT ![s] = v]

\* set(): the last value written to a slot wins, and no other slot changes.
Written(values, s, v) == [values EXCEPT ![s] = v]

\* The dead-band suppresses what was last written to the slot.
Poll ==
  LET update == Head(ring)
      s      == Binding[update.cc]
      passes == Mapped(update) /\ update.value # lastValue[s]
  IN /\ turn = "poll" /\ ring # <<>>
     /\ ring'      = Tail(ring)
     /\ shadow'    = IF passes THEN Written(shadow, s, update.value) ELSE shadow
     /\ lastValue' = IF passes THEN [lastValue EXCEPT ![s] = update.value] ELSE lastValue
     /\ UNCHANGED <<rx, slot, pending, applied, turn, calls, turned>>

PollDone ==
  /\ turn = "poll" /\ ring = <<>> /\ turn' = "flush"
  /\ slot' = 0 /\ calls' = <<>>
  /\ UNCHANGED <<rx, ring, lastValue, shadow, pending, applied, turned>>

(* ServiceParameters: flush the shadow -----------------------------------------*)

\* MUTANT of Dirty: clean slots are flushed too.
DirtyAlways(s) == TRUE

Dirty(s) == shadow[s] # Nothing

\* One setParameter call for a dirty slot; a value published later replaces an
\* earlier one the effect has not applied.
Flush ==
  /\ turn = "flush" /\ slot < ParamCount
  /\ slot' = slot + 1
  /\ shadow' = [shadow EXCEPT ![slot] = Nothing]
  /\ \/ /\ Dirty(slot)
        /\ pending' = [pending EXCEPT ![slot] = shadow[slot]]
        /\ calls'   = Append(calls, [param |-> slot, value |-> shadow[slot]])
     \/ ~Dirty(slot) /\ UNCHANGED <<pending, calls>>
  /\ UNCHANGED <<rx, ring, lastValue, applied, turn, turned>>

FlushDone ==
  /\ turn = "flush" /\ slot = ParamCount /\ turn' = "block"
  /\ UNCHANGED <<rx, ring, lastValue, shadow, slot, pending, applied, calls, turned>>

(* ServiceDspBlock ----------------------------------------------------------------*)

\* applyPending, first thing in process().
RunBlock ==
  /\ turn = "block" /\ turn' = "task"
  /\ applied' = [s \in Slots |-> IF pending[s] # Nothing THEN pending[s] ELSE applied[s]]
  /\ pending' = Unset
  /\ UNCHANGED <<rx, ring, lastValue, shadow, slot, calls, turned>>

\* No whole block of input: process() is not called.
SkipBlock ==
  /\ turn = "block" /\ turn' = "task"
  /\ UNCHANGED <<rx, ring, lastValue, shadow, slot, pending, applied, calls, turned>>

(* Specification --------------------------------------------------------------------*)

PathInit ==
  /\ rx = <<>> /\ ring = <<>> /\ calls = <<>>
  /\ lastValue = Unset /\ shadow = Unset /\ pending = Unset /\ applied = Unset
  /\ turned = Unset
  /\ slot = 0 /\ turn = "task"

ServiceParameters == Drain \/ DrainDone \/ Poll \/ PollDone \/ Flush \/ FlushDone

PathNext == \/ \E packet \in Packet : Receive(packet)
            \/ TaskDone
            \/ ServiceParameters
            \/ RunBlock
            \/ SkipBlock

PathSpec == PathInit /\ [][PathNext]_pathVars

(* Properties -------------------------------------------------------------------------*)

PathTypeOK ==
  /\ rx \in Seq(Packet) /\ Len(rx) <= FifoPackets
  /\ ring \in Seq(Update) /\ Len(ring) < RingSlots
  /\ lastValue \in [Slots -> Level \cup {Nothing}]
  /\ shadow \in [Slots -> Level \cup {Nothing}]
  /\ pending \in [Slots -> Level \cup {Nothing}]
  /\ applied \in [Slots -> Level \cup {Nothing}]
  /\ turned \in [Slots -> Level \cup {Nothing}]
  /\ slot \in 0..ParamCount
  /\ calls \in Seq([param : Slots, value : Level]) /\ Len(calls) <= ParamCount
  /\ turn \in {"task", "drain", "poll", "flush", "block"}

\* FR-041 to FR-043 and PS2/PS3: a block runs on the values the controllers had
\* when the pass began, all of them, whatever was dropped, collapsed or found
\* unchanged on the way (parameter-source.h: a dropped CC "costs nothing").
BlockRunsOnLatest == [][RunBlock => applied' = turned]_pathVars

\* FR-042 and PS4: a pass calls setParameter at most once for a parameter, in
\* slot order, and with the value its controller was left at.
OneCallEach ==
  /\ \A i, j \in DOMAIN calls : i < j => calls[i].param < calls[j].param
  /\ turn \in {"flush", "block"} =>
       \A i \in DOMAIN calls : calls[i].value = turned[calls[i].param]

\* The dead-band's memory and the effect agree: what it suppresses as already
\* written is what the effect has or is about to take.
DeadBandIsTrue ==
  \A s \in Slots :
    lastValue[s] = IF shadow[s] # Nothing THEN shadow[s]
                   ELSE IF pending[s] # Nothing THEN pending[s] ELSE applied[s]

\* Every controller arrives, once.
ControllersArrive == OneCallEach /\ DeadBandIsTrue
=============================================================================
