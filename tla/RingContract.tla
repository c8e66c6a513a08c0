---------------------------- MODULE RingContract ----------------------------
(***************************************************************************)
(* What one audio ring promises its two users: a bounded queue that        *)
(* overflows by forgetting its OLDEST frames, underflows by handing out    *)
(* silence, tells its caller how much it lost or made up, and gates its    *)
(* consumer behind a startup fill.  No slots, no indices, no watermarks:   *)
(* AudioRing has those, and implements this specification.                 *)
(***************************************************************************)
EXTENDS RingQueue

CONSTANTS
  MaxRequest,   \* the longest write or read anybody asks for (a model bound)
  Frame         \* the frames a producer writes

VARIABLES
  held,         \* the frames a reader will be given, oldest first
  state,        \* the lifecycle state
  startupFill,  \* the occupancy at which Priming becomes Running
  reply         \* what the last call returned

contractVars == <<held, state, startupFill, reply>>

Batch == UNION {[1..n -> Frame] : n \in 0..MaxRequest}

Init == /\ held = <<>>
        /\ state = "Priming"
        /\ startupFill \in 0..Capacity
        /\ reply = NoReply

Write(src) ==
  /\ held'  = Newest(held \o src)
  /\ state' = Promoted(state, Len(held'), startupFill)
  /\ reply' = Reply(Dropped(held, src), 0, <<>>)
  /\ UNCHANGED startupFill

Read(frames) ==
  /\ held'  = Rest(held, frames)
  /\ reply' = Reply(0, Substituted(held, frames),
                   Oldest(held, frames) \o Quiet(Substituted(held, frames)))
  /\ UNCHANGED <<state, startupFill>>

Empty(next) ==
  /\ held'  = <<>>
  /\ state' = next
  /\ reply' = NoReply
  /\ UNCHANGED startupFill

Reset == Empty("Priming")
Stop  == Empty("Stopped")

Next == \/ \E src \in Batch : Write(src)
        \/ \E frames \in -1..MaxRequest : Read(frames)
        \/ Reset
        \/ Stop

Spec == Init /\ [][Next]_contractVars
=============================================================================
