--------------------------- MODULE Parameters_proofs ---------------------------
(***************************************************************************)
(* The handoff loses no edit, whatever the number of parameters, of values *)
(* and of threads that publish them.  TypeOK is inductive; what makes      *)
(* NoEditStranded inductive is that the members and the primitives agree   *)
(* at all times, and that a raised flag always has a value under it.       *)
(*                                                                         *)
(* The path of the Nucleo board loses no controller, whatever the table,   *)
(* the effect and the FIFO, as long as the ring takes what the FIFO holds. *)
(* What is inductive is where a controller stands (HostIsHeard): the last  *)
(* packet of the FIFO that moves it says so, or else the last one of the   *)
(* ring, or else the dead-band's memory.                                   *)
(***************************************************************************)
EXTENDS MCParameters, TLAPS

LEMMA AfterInRange ==
  ASSUME NEW p \in 0..NumParams
  PROVE  After(p) \in 0..NumParams
BY HandoffAssumption DEF After

-----------------------------------------------------------------------------
(* Type correctness                                                        *)

LEMMA BeginTypeOK ==
  ASSUME TypeOK, NEW t \in Threads, NEW p \in Params, NEW v \in Values(p), Begin(t, p, v)
  PROVE  TypeOK'
<1>1. v \in Settings \cup Rows
  BY DEF Values
<1>2. [param |-> p, value |-> v, done |-> 0]
        \in [param : Params, value : Settings \cup Rows, done : 0..1]
  BY <1>1
<1>3. call' \in [Threads -> [param : Params, value : Settings \cup Rows, done : 0..1]
                              \cup {NoCall}]
  BY <1>2 DEF Begin, TypeOK
<1>4. \A u \in Threads : call'[u] # NoCall => call'[u].value \in Values(call'[u].param)
  BY DEF Begin, TypeOK
<1> QED
  BY <1>3, <1>4 DEF Begin, TypeOK, audioVars, Values

\* The two stores, one after the other, of a call in progress.
LEMMA StoreCases ==
  ASSUME TypeOK, NEW t \in Threads, Store(t)
  PROVE  /\ call[t] \in [param : Params, value : Settings \cup Rows, done : 0..1]
         /\ call[t].value \in Values(call[t].param)
         /\ \/ /\ call[t].done = 0
               /\ bits' = [bits EXCEPT ![call[t].param] = call[t].value]
               /\ dirty' = dirty
               /\ call' = [call EXCEPT ![t] =
                            [param |-> call[t].param, value |-> call[t].value, done |-> 1]]
            \/ /\ call[t].done = 1
               /\ bits' = bits
               /\ dirty' = [dirty EXCEPT ![call[t].param] = TRUE]
               /\ call' = [call EXCEPT ![t] = NoCall]
<1>1. call[t] \in [param : Params, value : Settings \cup Rows, done : 0..1]
  BY DEF TypeOK, Store
<1>2. call[t].value \in Values(call[t].param)
  BY DEF TypeOK, Store
<1>3. Len(Stores) = 2 /\ Stores[1] = "bits" /\ Stores[2] = "dirty" /\ "bits" # "dirty"
  BY DEF Stores
<1>4. CASE call[t].done = 0
  BY <1>1, <1>2, <1>3, <1>4 DEF Store, TypeOK
<1>5. CASE call[t].done = 1
  BY <1>1, <1>2, <1>3, <1>5 DEF Store, TypeOK
<1> QED
  BY <1>1, <1>2, <1>4, <1>5

LEMMA StoreTypeOK ==
  ASSUME TypeOK, NEW t \in Threads, Store(t)
  PROVE  TypeOK'
<1> DEFINE c == call[t]
<1>1. /\ c \in [param : Params, value : Settings \cup Rows, done : 0..1]
      /\ c.value \in Values(c.param)
  BY StoreCases
<1>2. UNCHANGED audioVars
  BY DEF Store
<1>3. CASE c.done = 0 /\ bits' = [bits EXCEPT ![c.param] = c.value] /\ dirty' = dirty
           /\ call' = [call EXCEPT ![t] =
                         [param |-> c.param, value |-> c.value, done |-> 1]]
  <2>1. [param |-> c.param, value |-> c.value, done |-> 1]
          \in [param : Params, value : Settings \cup Rows, done : 0..1]
    BY <1>1
  <2> HIDE DEF c
  <2>3. /\ bits' \in [Params -> Settings \cup Rows \cup {Default}]
        /\ \A p \in Params : bits'[p] \in Values(p) \cup {Default}
    BY <1>1, <1>3 DEF TypeOK
  <2>4. /\ call' \in [Threads -> [param : Params, value : Settings \cup Rows, done : 0..1]
                                  \cup {NoCall}]
        /\ \A u \in Threads : call'[u] # NoCall => call'[u].value \in Values(call'[u].param)
    BY <1>1, <1>3, <2>1 DEF TypeOK
  <2> QED
    BY <1>2, <1>3, <2>3, <2>4 DEF TypeOK, audioVars, Values
<1>4. CASE bits' = bits /\ dirty' = [dirty EXCEPT ![c.param] = TRUE]
           /\ call' = [call EXCEPT ![t] = NoCall]
  <2> HIDE DEF c
  <2> QED
    BY <1>1, <1>2, <1>4 DEF TypeOK, audioVars, Values
<1> QED
  BY <1>3, <1>4, StoreCases

\* A value that is applied is one that a parameter can have.
LEMMA AppliedType ==
  ASSUME TypeOK, NEW values \in [Params -> Settings \cup Rows \cup {Default}],
         NEW p \in Params
  PROVE  Applied(values, p, bits[p]) \in [Params -> Settings \cup Rows \cup {Default}]
BY DEF Applied, TypeOK

LEMMA CallbackTypeOK ==
  ASSUME TypeOK, Callback
  PROVE  TypeOK'
<1>1. CASE StartBlock
  <2>1. After(0) \in 0..NumParams
    BY AfterInRange, HandoffAssumption
  <2> QED
    BY <1>1, <2>1 DEF StartBlock, TypeOK, Values
<1>2. CASE Skip
  BY <1>2, AfterInRange DEF Skip, TypeOK, Values
<1>3. CASE Take
  BY <1>3 DEF Take, TypeOK, Values
<1>4. CASE Apply
  <2>1. at \in Params /\ After(at) \in 0..NumParams
    BY <1>4, AfterInRange, HandoffAssumption DEF Apply, TypeOK, Params
  <2>2. {cached', live'} \subseteq [Params -> Settings \cup Rows \cup {Default}]
    BY <1>4, <2>1, AppliedType DEF Apply, TypeOK
  <2> QED
    BY <1>4, <2>1, <2>2 DEF Apply, TypeOK, Values
<1> QED
  BY <1>1, <1>2, <1>3, <1>4 DEF Callback

LEMMA InitTypeOK == Init => TypeOK
<1> SUFFICES ASSUME Init PROVE TypeOK
  OBVIOUS
<1>1. /\ {bits, cached, live} \subseteq [Params -> Settings \cup Rows \cup {Default}]
      /\ \A p \in Params : bits[p] \in Values(p) \cup {Default}
      /\ dirty \in [Params -> BOOLEAN]
  BY DEF Init
<1>2. /\ streaming \in BOOLEAN /\ at \in 0..NumParams
      /\ taken \in BOOLEAN /\ (taken => at # 0)
  <2>1. at \in 0..NumParams
    BY HandoffAssumption DEF Init
  <2>2. streaming \in BOOLEAN /\ taken \in BOOLEAN /\ ~taken
    BY Zenon DEF Init
  <2> QED
    BY <2>1, <2>2
<1>3. \A t \in Threads : call[t] = NoCall
  BY DEF Init
<1>4. call \in [Threads -> [param : Params, value : Settings \cup Rows, done : 0..1]
                            \cup {NoCall}]
  BY DEF Init
<1> QED
  BY <1>1, <1>2, <1>3, <1>4 DEF TypeOK

LEMMA NextTypeOK == TypeOK /\ [Next]_vars => TypeOK'
<1> SUFFICES ASSUME TypeOK, [Next]_vars PROVE TypeOK'
  OBVIOUS
<1>1. CASE Callback
  BY <1>1, CallbackTypeOK
<1>2. CASE Control
  BY <1>2, BeginTypeOK, StoreTypeOK DEF Control
<1>3. CASE Prepare
  BY <1>3 DEF Prepare, Reapplied, TypeOK, Values
<1>4. CASE Stop
  BY <1>4 DEF Stop, TypeOK, Values
<1>5. CASE UNCHANGED vars
  BY <1>5 DEF vars, audioVars, TypeOK, Values
<1> QED
  BY <1>1, <1>2, <1>3, <1>4, <1>5 DEF Next

\* No step of any thread, of the audio callback or of the device takes a
\* parameter out of the values it can have, or the walk off its parameters.
THEOREM TypeCorrect == Spec => []TypeOK
BY InitTypeOK, NextTypeOK, PTL DEF Spec


-----------------------------------------------------------------------------
(* No edit is stranded                                                     *)

\* A flag that is raised, or about to be, or was just taken, has a value.
FlagHasValue ==
  /\ \A p \in Params : dirty[p] \/ (taken /\ at = p) => bits[p] # Default
  /\ \A t \in Threads : call[t].done = 1 => bits[call[t].param] # Default

\* The members agree with the atomics wherever nothing is on its way.
Settled ==
  \A p \in Params :
    Quiet(p) => \/ cached[p] = bits[p]
                \/ p \in Shaped /\ cached[p] \in Rows

\* The primitives are told whatever the members are set to, in every step.
LiveIsCached == live = cached

HandoffInv == TypeOK /\ FlagHasValue /\ Settled /\ LiveIsCached

LEMMA BeginInv ==
  ASSUME HandoffInv, NEW t \in Threads, NEW p \in Params, NEW v \in Values(p), Begin(t, p, v)
  PROVE  (FlagHasValue /\ Settled /\ LiveIsCached)'
<1>1. call' = [call EXCEPT ![t] = [param |-> p, value |-> v, done |-> 0]]
  BY DEF Begin
<1>2. UNCHANGED <<bits, dirty, cached, live, at, taken>>
  BY DEF Begin, audioVars
<1>3. call' \in [Threads -> {call[u] : u \in Threads}
                              \cup {[param |-> p, value |-> v, done |-> 0]}]
  BY <1>1 DEF HandoffInv, TypeOK
<1>4. call[t].param = 0 /\ \A u \in Threads \ {t} : call'[u] = call[u]
  BY <1>1 DEF Begin, NoCall, HandoffInv, TypeOK
<1>5. call'[t].param = p /\ call'[t].done = 0
  BY <1>1 DEF HandoffInv, TypeOK
<1>6. FlagHasValue'
  BY <1>2, <1>4, <1>5 DEF HandoffInv, FlagHasValue
<1>7. ASSUME NEW q \in Params, Quiet(q)' PROVE Quiet(q)
  <2>1. \A u \in Threads : call[u].param # q
    BY <1>4, <1>7 DEF Quiet, Params
  <2> QED
    BY <2>1, <1>2, <1>7 DEF Quiet
<1>8. Settled'
  BY <1>2, <1>7 DEF HandoffInv, Settled
<1> QED
  BY <1>2, <1>6, <1>8 DEF HandoffInv, LiveIsCached

LEMMA StoreInv ==
  ASSUME HandoffInv, NEW t \in Threads, Store(t)
  PROVE  (FlagHasValue /\ Settled /\ LiveIsCached)'
<1> DEFINE p == call[t].param
           v == call[t].value
<1>1. TypeOK /\ p \in Params /\ v \in Values(p) /\ v # Default
  BY StoreCases, HandoffAssumption DEF HandoffInv, Values
<1>2. UNCHANGED <<cached, live, at, taken>>
  BY DEF Store, audioVars
<1>3. CASE /\ bits' = [bits EXCEPT ![p] = v] /\ dirty' = dirty
           /\ call' = [call EXCEPT ![t] = [param |-> p, value |-> v, done |-> 1]]
  <2>1. /\ \A q \in Params \ {p} : bits'[q] = bits[q]
        /\ bits'[p] = v
        /\ \A u \in Threads \ {t} : call'[u] = call[u]
        /\ call'[t].param = p /\ call'[t].done = 1
    BY <1>1, <1>3 DEF TypeOK
  <2>2. \A q \in Params : bits[q] # Default => bits'[q] # Default
    BY <1>1, <2>1
  <2>3. \A u \in Threads : call[u].done = 1 => call[u].param \in Params
    BY <1>1 DEF TypeOK, NoCall
  <2> HIDE DEF p, v
  <2>4. FlagHasValue'
    BY <1>1, <1>2, <1>3, <2>1, <2>2, <2>3 DEF HandoffInv, FlagHasValue
  <2>5. ASSUME NEW q \in Params, Quiet(q)' PROVE Quiet(q) /\ q # p
    BY <1>2, <1>3, <2>1, <2>5 DEF Quiet, p
  <2>6. Settled'
    BY <1>2, <2>1, <2>5 DEF HandoffInv, Settled
  <2> QED
    BY <1>2, <2>4, <2>6 DEF HandoffInv, LiveIsCached
<1>4. CASE /\ call[t].done = 1 /\ bits' = bits /\ dirty' = [dirty EXCEPT ![p] = TRUE]
           /\ call' = [call EXCEPT ![t] = NoCall]
  <2>1. /\ \A q \in Params \ {p} : dirty'[q] = dirty[q]
        /\ dirty'[p]
        /\ \A u \in Threads \ {t} : call'[u] = call[u]
        /\ call'[t].done = 0
    BY <1>1, <1>4 DEF TypeOK, NoCall
  <2>2. bits[p] # Default
    BY <1>4 DEF HandoffInv, FlagHasValue
  <2> HIDE DEF p, v
  <2>3. FlagHasValue'
    BY <1>2, <1>4, <2>1, <2>2 DEF HandoffInv, FlagHasValue
  <2>4. ASSUME NEW q \in Params, Quiet(q)' PROVE Quiet(q)
    <3>1. q # p
      BY <2>1, <2>4 DEF Quiet
    <3> QED
      BY <1>2, <2>1, <2>4, <3>1 DEF Quiet, p
  <2>5. Settled'
    BY <1>2, <1>4, <2>4 DEF HandoffInv, Settled
  <2> QED
    BY <1>2, <2>3, <2>5 DEF HandoffInv, LiveIsCached
<1> QED
  BY <1>3, <1>4, StoreCases DEF HandoffInv

LEMMA TakeInv ==
  ASSUME HandoffInv, Take
  PROVE  (FlagHasValue /\ Settled /\ LiveIsCached)'
<1>1. at \in Params /\ dirty[at] /\ ~taken /\ taken'
  BY HandoffAssumption DEF Take, HandoffInv, TypeOK, Params
<1>2. UNCHANGED <<bits, cached, live, at, call>> /\ dirty' = [dirty EXCEPT ![at] = FALSE]
  BY DEF Take
<1>3. /\ \A q \in Params \ {at} : dirty'[q] = dirty[q]
      /\ ~dirty'[at]
  BY <1>1, <1>2 DEF HandoffInv, TypeOK
<1>4. FlagHasValue'
  BY <1>1, <1>2, <1>3 DEF HandoffInv, FlagHasValue
<1>5. ASSUME NEW q \in Params, Quiet(q)' PROVE Quiet(q)
  <2>1. q # at
    BY <1>1, <1>2, <1>5 DEF Quiet
  <2> QED
    BY <1>1, <1>2, <1>3, <1>5, <2>1 DEF Quiet
<1>6. Settled'
  BY <1>2, <1>5 DEF HandoffInv, Settled
<1> QED
  BY <1>2, <1>4, <1>6 DEF HandoffInv, LiveIsCached

\* Where the walk applies a preset, everything in its reach is a preset's
\* value; everywhere else it delivers what was published.
LEMMA ApplyInv ==
  ASSUME HandoffInv, Apply
  PROVE  (FlagHasValue /\ Settled /\ LiveIsCached)'
<1>1. TypeOK /\ at \in Params /\ taken /\ ~taken'
  BY HandoffAssumption DEF Apply, HandoffInv, TypeOK, Params
<1>2. UNCHANGED <<bits, dirty, call>>
  BY DEF Apply
<1>3. /\ cached' = Applied(cached, at, bits[at])
      /\ live'   = Applied(live, at, bits[at])
  BY DEF Apply
<1>4. bits[at] \in Values(at)
  BY <1>1 DEF HandoffInv, FlagHasValue, TypeOK
<1>5. FlagHasValue'
  BY <1>1, <1>2 DEF HandoffInv, FlagHasValue
<1>6. ASSUME NEW q \in Params, Quiet(q)'
      PROVE  cached'[q] = bits'[q] \/ (q \in Shaped /\ cached'[q] \in Rows)
  <2>1. CASE q = at
    BY <1>2, <1>3, <2>1 DEF Applied
  <2>2. CASE q # at /\ at = Preset /\ q \in Shaped
    BY <1>3, <1>4, <2>2 DEF Applied, Values
  <2>3. CASE q # at /\ ~(at = Preset /\ q \in Shaped)
    <3>1. cached'[q] = cached[q]
      BY <1>3, <2>3 DEF Applied
    <3>2. Quiet(q)
      BY <1>2, <1>6, <2>3 DEF Quiet
    <3> QED
      BY <1>2, <3>1, <3>2 DEF HandoffInv, Settled
  <2> QED
    BY <2>1, <2>2, <2>3
<1>7. Settled'
  BY <1>6 DEF Settled
<1>8. LiveIsCached'
  BY <1>3 DEF HandoffInv, LiveIsCached
<1> QED
  BY <1>5, <1>7, <1>8

\* The remaining steps move the walk or the stream and touch no value.
LEMMA StillInv ==
  ASSUME HandoffInv, StartBlock \/ Skip \/ Prepare \/ Stop \/ UNCHANGED vars
  PROVE  (FlagHasValue /\ Settled /\ LiveIsCached)'
<1>1. UNCHANGED <<bits, dirty, cached, call>> /\ taken' = taken
  BY DEF StartBlock, Skip, Prepare, Stop, vars, audioVars
<1>2. live' = cached
  BY DEF StartBlock, Skip, Prepare, Reapplied, Stop, vars, audioVars, HandoffInv, LiveIsCached
<1>3. taken => at' = at
  BY DEF StartBlock, Skip, Prepare, Stop, vars, audioVars, HandoffInv, TypeOK
<1>4. FlagHasValue'
  BY <1>1, <1>3 DEF HandoffInv, FlagHasValue
<1>5. ASSUME NEW q \in Params, Quiet(q)' PROVE Quiet(q)
  BY <1>1, <1>3, <1>5 DEF Quiet
<1>6. Settled'
  BY <1>1, <1>5 DEF HandoffInv, Settled
<1> QED
  BY <1>1, <1>2, <1>4, <1>6 DEF LiveIsCached

LEMMA HandoffInvariant == Spec => []HandoffInv
<1>1. Init => HandoffInv
  <2> SUFFICES ASSUME Init PROVE HandoffInv
    OBVIOUS
  <2>1. TypeOK
    BY InitTypeOK
  <2>2. \A p \in Params : ~dirty[p] /\ ~taken /\ cached[p] = bits[p]
    BY DEF Init
  <2>3. \A t \in Threads : call[t].done = 0
    BY DEF Init, NoCall
  <2>4. LiveIsCached
    BY DEF Init, LiveIsCached
  <2> QED
    BY <2>1, <2>2, <2>3, <2>4 DEF HandoffInv, FlagHasValue, Settled
<1>2. HandoffInv /\ [Next]_vars => HandoffInv'
  <2> SUFFICES ASSUME HandoffInv, [Next]_vars PROVE HandoffInv'
    OBVIOUS
  <2>1. TypeOK'
    BY NextTypeOK DEF HandoffInv
  <2>2. (FlagHasValue /\ Settled /\ LiveIsCached)'
    BY BeginInv, StoreInv, TakeInv, ApplyInv, StillInv DEF Next, Callback, Control
  <2> QED
    BY <2>1, <2>2 DEF HandoffInv
<1> QED
  BY <1>1, <1>2, PTL DEF Spec

\* FR-017 for every effect: whatever threads publish at once and wherever the
\* walk stands, once nothing is on its way the effect runs on what was stored
\* last, or on what a preset wrote over it.
THEOREM EditsAreNotStranded == Spec => []NoEditStranded
<1>1. HandoffInv => NoEditStranded
  BY DEF HandoffInv, Settled, LiveIsCached, NoEditStranded
<1> QED
  BY <1>1, HandoffInvariant, PTL

\* FR-018 for every effect: prepare() and reset() between two streams change
\* no parameter, because the primitives agree with the members all along.
THEOREM RestartsKeepParameters == Spec => PrepareKeepsParameters
<1>1. HandoffInv /\ [Next]_vars => [~streaming /\ streaming' => live' = live]_vars
  <2> SUFFICES ASSUME HandoffInv, Next, ~streaming, streaming' PROVE live' = live
    BY DEF vars, audioVars
  <2>1. Prepare
    BY DEF Next, Callback, Control, StartBlock, Skip, Take, Apply, Begin, Store, Stop, audioVars
  <2> QED
    BY <2>1 DEF Prepare, Reapplied, HandoffInv, LiveIsCached
<1> QED
  BY <1>1, HandoffInvariant, PTL DEF Spec, PrepareKeepsParameters

-----------------------------------------------------------------------------
(* The path of a controller                                                *)

\* The packet moves slot s.
Moves(packet, s) == Mapped(packet) /\ Binding[packet.cc] = s

\* No packet of the queue moves slot s.
Silent(queue, s) == \A i \in 1..Len(queue) : ~Moves(queue[i], s)

\* The last packet of the queue that moves slot s moves it to v.
Says(queue, s, v) ==
  \E i \in 1..Len(queue) : /\ Moves(queue[i], s) /\ queue[i].value = v
                           /\ \A j \in 1..Len(queue) : j > i => ~Moves(queue[j], s)

\* Where a controller stands is said by the FIFO, by the ring when the FIFO is
\* silent about it, and by the dead-band's memory when both are.
HostIsHeard ==
  \A s \in Slots :
    /\ \A v \in Level : Says(rx, s, v) => turned[s] = v
    /\ Silent(rx, s) => /\ \A v \in Level : Says(ring, s, v) => turned[s] = v
                        /\ Silent(ring, s) => turned[s] = lastValue[s]

\* Each loop of the pass runs until its buffer is empty, and what the FIFO held
\* when the pass began fits in the ring.
BuffersEmpty ==
  /\ turn = "task" => ring = <<>>
  /\ turn \in {"task", "drain"} => Len(ring) + Len(rx) <= FifoPackets
  /\ turn \in {"poll", "flush", "block"} => rx = <<>>
  /\ turn \in {"flush", "block"} => ring = <<>>

\* The flush leaves the slots behind it clean and has called for those only.
FlushIsBehind ==
  /\ turn \in {"task", "drain", "block"} => \A s \in Slots : shadow[s] = Nothing
  /\ turn = "flush" => /\ \A s \in Slots : s < slot => shadow[s] = Nothing
                       /\ Len(calls) <= slot
                       /\ \A i \in 1..Len(calls) : calls[i].param < slot

PathInv == PathTypeOK /\ HostIsHeard /\ BuffersEmpty /\ FlushIsBehind /\ ControllersArrive

LEMMA MappedIsSlot ==
  ASSUME NEW packet \in Packet, Mapped(packet)
  PROVE  /\ packet \in Update
         /\ Binding[packet.cc] \in Slots /\ Moves(packet, Binding[packet.cc])
BY PathAssumption DEF Packet, Update, Mapped, Slots, Moves

\* What a queue says once a packet has joined it.
LEMMA SaysJoined ==
  ASSUME NEW S, NEW queue \in Seq(S), NEW packet \in S, NEW s
  PROVE  /\ Silent(Append(queue, packet), s) => Silent(queue, s) /\ ~Moves(packet, s)
         /\ \A v : Says(Append(queue, packet), s, v) =>
              \/ Moves(packet, s) /\ v = packet.value
              \/ ~Moves(packet, s) /\ Says(queue, s, v)
<1> DEFINE joined == Append(queue, packet)
           last   == Len(queue) + 1
<1>1. /\ Len(joined) = last /\ joined[last] = packet
      /\ \A i \in 1..Len(queue) : i \in 1..last /\ joined[i] = queue[i]
      /\ Len(queue) \in Nat
  OBVIOUS
<1> HIDE DEF joined
<1>2. Silent(joined, s) => Silent(queue, s) /\ ~Moves(packet, s)
  BY <1>1 DEF Silent
<1>3. ASSUME NEW v, Says(joined, s, v)
      PROVE  \/ Moves(packet, s) /\ v = packet.value
             \/ ~Moves(packet, s) /\ Says(queue, s, v)
  <2>1. PICK i \in 1..last : /\ Moves(joined[i], s) /\ joined[i].value = v
                             /\ \A j \in 1..last : j > i => ~Moves(joined[j], s)
    BY <1>1, <1>3 DEF Says
  <2>2. CASE i = last
    BY <1>1, <2>1, <2>2
  <2>3. CASE i # last
    <3>1. i \in 1..Len(queue) /\ last \in 1..last /\ last > i
      BY <1>1, <2>3
    <3>2. ~Moves(packet, s)
      BY <1>1, <2>1, <3>1
    <3>3. \A j \in 1..Len(queue) : j > i => ~Moves(queue[j], s)
      BY <1>1, <2>1
    <3>4. Moves(queue[i], s) /\ queue[i].value = v
      BY <1>1, <2>1, <3>1
    <3> QED
      BY <3>1, <3>2, <3>3, <3>4 DEF Says
  <2> QED
    BY <2>2, <2>3
<1> QED
  BY <1>2, <1>3 DEF joined

\* What a queue said before its head left it.
LEMMA SaysLeft ==
  ASSUME NEW S, NEW queue \in Seq(S), queue # <<>>, NEW s
  PROVE  /\ \A v : Says(Tail(queue), s, v) => Says(queue, s, v)
         /\ Silent(Tail(queue), s) =>
              /\ Moves(Head(queue), s) => Says(queue, s, Head(queue).value)
              /\ ~Moves(Head(queue), s) => Silent(queue, s)
<1> DEFINE rest == Tail(queue)
<1>1. /\ Len(queue) \in Nat \ {0} /\ Len(rest) = Len(queue) - 1 /\ Head(queue) = queue[1]
      /\ \A i \in 1..Len(rest) : rest[i] = queue[i + 1]
  OBVIOUS
<1> HIDE DEF rest
<1>2. \A j \in 2..Len(queue) : j - 1 \in 1..Len(rest) /\ rest[j - 1] = queue[j]
  BY <1>1
<1>3. ASSUME NEW v, Says(rest, s, v) PROVE Says(queue, s, v)
  <2>1. PICK i \in 1..Len(rest) : /\ Moves(rest[i], s) /\ rest[i].value = v
                                  /\ \A j \in 1..Len(rest) : j > i => ~Moves(rest[j], s)
    BY <1>3 DEF Says
  <2>2. i + 1 \in 1..Len(queue) /\ Moves(queue[i + 1], s) /\ queue[i + 1].value = v
    BY <1>1, <2>1
  <2>3. ASSUME NEW j \in 1..Len(queue), j > i + 1 PROVE ~Moves(queue[j], s)
    <3>1. j \in 2..Len(queue) /\ j - 1 > i
      BY <1>1, <2>3
    <3> QED
      BY <1>2, <2>1, <3>1
  <2> QED
    BY <2>2, <2>3 DEF Says
<1>4. ASSUME Silent(rest, s)
      PROVE  \A j \in 2..Len(queue) : ~Moves(queue[j], s)
  BY <1>2, <1>4 DEF Silent
<1>5. ASSUME Silent(rest, s), Moves(Head(queue), s)
      PROVE  Says(queue, s, Head(queue).value)
  <2>1. 1 \in 1..Len(queue) /\ \A j \in 1..Len(queue) : j > 1 => j \in 2..Len(queue)
    BY <1>1
  <2> QED
    BY <1>1, <1>4, <1>5, <2>1 DEF Says
<1>6. ASSUME Silent(rest, s), ~Moves(Head(queue), s)
      PROVE  Silent(queue, s)
  <2>1. \A j \in 1..Len(queue) : j = 1 \/ j \in 2..Len(queue)
    BY <1>1
  <2> QED
    BY <1>1, <1>4, <1>6, <2>1 DEF Silent
<1> QED
  BY <1>3, <1>5, <1>6 DEF rest

LEMMA EmptySaysNothing ==
  ASSUME NEW s
  PROVE  Silent(<<>>, s) /\ \A v : ~Says(<<>>, s, v)
<1>1. \A i : i \notin 1..Len(<<>>)
  OBVIOUS
<1> QED
  BY <1>1 DEF Silent, Says

LEMMA InitPathInv == PathInit => PathInv
<1> SUFFICES ASSUME PathInit PROVE PathInv
  OBVIOUS
<1>1. Unset \in [Slots -> Level \cup {Nothing}] /\ \A s \in Slots : Unset[s] = Nothing
  BY DEF Unset
<1>2. PathTypeOK
  BY <1>1, PathAssumption DEF PathInit, PathTypeOK
<1>3. HostIsHeard
  BY EmptySaysNothing DEF PathInit, HostIsHeard
<1>4. BuffersEmpty
  BY PathAssumption DEF PathInit, BuffersEmpty
<1>5. FlushIsBehind /\ ControllersArrive
  BY <1>1 DEF PathInit, FlushIsBehind, ControllersArrive, OneCallEach, DeadBandIsTrue
<1> QED
  BY <1>2, <1>3, <1>4, <1>5 DEF PathInv

LEMMA ReceiveInv ==
  ASSUME PathInv, NEW packet \in Packet, Receive(packet)
  PROVE  PathInv'
<1>1. PathTypeOK'
  <2>1. rx' \in Seq(Packet) /\ Len(rx') <= FifoPackets
    BY PathAssumption DEF Receive, PathInv, PathTypeOK
  <2>2. turned' \in [Slots -> Level \cup {Nothing}]
    BY MappedIsSlot DEF Receive, PathInv, PathTypeOK, Update
  <2> QED
    BY <2>1, <2>2 DEF Receive, PathInv, PathTypeOK
<1>2. HostIsHeard'
  <2> SUFFICES ASSUME NEW s \in Slots
               PROVE  /\ \A v \in Level : Says(rx', s, v) => turned'[s] = v
                      /\ Silent(rx', s) =>
                           /\ \A v \in Level : Says(ring, s, v) => turned'[s] = v
                           /\ Silent(ring, s) => turned'[s] = lastValue[s]
    BY DEF HostIsHeard, Receive
  <2>1. /\ Silent(rx', s) => Silent(rx, s) /\ ~Moves(packet, s)
        /\ \A v : Says(rx', s, v) => \/ Moves(packet, s) /\ v = packet.value
                                     \/ ~Moves(packet, s) /\ Says(rx, s, v)
    BY SaysJoined DEF Receive, PathInv, PathTypeOK
  <2>2. Moves(packet, s) => turned'[s] = packet.value
    BY DEF Moves, Receive, PathInv, PathTypeOK
  <2>3. ~Moves(packet, s) => turned'[s] = turned[s]
    BY MappedIsSlot DEF Moves, Receive, PathInv, PathTypeOK
  <2> QED
    BY <2>1, <2>2, <2>3 DEF PathInv, HostIsHeard
<1>3. BuffersEmpty'
  <2>1. rx \in Seq(Packet) /\ Len(rx) < FifoPackets /\ ring = <<>> /\ turn = "task"
    BY DEF Receive, PathInv, PathTypeOK, BuffersEmpty
  <2>2. Len(ring) = 0 /\ Len(rx') = Len(rx) + 1
    BY <2>1 DEF Receive
  <2>3. Len(ring) + Len(rx') <= FifoPackets
    BY <2>1, <2>2, PathAssumption
  <2> QED
    BY <2>1, <2>3 DEF Receive, BuffersEmpty
<1>4. FlushIsBehind' /\ ControllersArrive'
  BY DEF Receive, PathInv, FlushIsBehind, ControllersArrive, OneCallEach, DeadBandIsTrue
<1> QED
  BY <1>1, <1>2, <1>3, <1>4 DEF PathInv

LEMMA DrainInv ==
  ASSUME PathInv, Drain
  PROVE  PathInv'
<1> DEFINE packet == Head(rx)
<1>1. /\ rx \in Seq(Packet) /\ rx # <<>> /\ packet \in Packet /\ ring \in Seq(Update)
      /\ rx' \in Seq(Packet) /\ Len(rx') = Len(rx) - 1
  BY DEF Drain, PathInv, PathTypeOK
\* The ring has room: what is in it came out of the FIFO in this pass.
<1>2. ring' = IF packet = Other THEN ring ELSE Append(ring, packet)
  BY <1>1, PathAssumption DEF Drain, PathInv, BuffersEmpty, Queued
<1>3. packet # Other => packet \in Update
  BY <1>1 DEF Packet
<1>4. /\ ring' \in Seq(Update) /\ Len(ring') + Len(rx') <= FifoPackets
      /\ Len(ring') \in Nat /\ Len(rx') \in Nat /\ Len(rx') <= Len(rx)
  <2>1. Len(ring) + Len(rx) <= FifoPackets
    BY DEF Drain, PathInv, BuffersEmpty
  <2>2. CASE packet = Other
    BY <1>1, <1>2, <2>1, <2>2, PathAssumption
  <2>3. CASE packet # Other
    <3>1. packet \in Update /\ ring' = Append(ring, packet)
      BY <1>2, <1>3, <2>3
    <3> HIDE DEF packet
    <3>2. ring' \in Seq(Update) /\ Len(ring') = Len(ring) + 1
      BY <1>1, <3>1
    <3> QED
      BY <1>1, <2>1, <3>2, PathAssumption
  <2> QED
    BY <2>2, <2>3
<1>5. PathTypeOK'
  <2>1. Len(rx') <= FifoPackets /\ Len(ring') < RingSlots
    BY <1>4, PathAssumption
  <2> QED
    BY <1>1, <1>4, <2>1 DEF Drain, PathInv, PathTypeOK
<1>6. HostIsHeard'
  <2> SUFFICES ASSUME NEW s \in Slots
               PROVE  /\ \A v \in Level : Says(rx', s, v) => turned[s] = v
                      /\ Silent(rx', s) =>
                           /\ \A v \in Level : Says(ring', s, v) => turned[s] = v
                           /\ Silent(ring', s) => turned[s] = lastValue[s]
    BY DEF HostIsHeard, Drain
  <2>1. /\ \A v : Says(rx', s, v) => Says(rx, s, v)
        /\ Silent(rx', s) => /\ Moves(packet, s) => Says(rx, s, packet.value)
                             /\ ~Moves(packet, s) => Silent(rx, s)
    BY <1>1, SaysLeft DEF Drain
  <2>2. Moves(packet, s) => packet # Other /\ packet.value \in Level
    BY <1>3 DEF Moves, Mapped, Update
  <2>3. /\ Silent(ring', s) => Silent(ring, s) /\ ~Moves(packet, s)
        /\ \A v : Says(ring', s, v) => \/ Moves(packet, s) /\ v = packet.value
                                       \/ ~Moves(packet, s) /\ Says(ring, s, v)
    <3>1. CASE packet = Other
      BY <1>2, <2>2, <3>1
    <3>2. CASE packet # Other
      BY <1>1, <1>2, <1>3, <3>2, SaysJoined
    <3> QED
      BY <3>1, <3>2
  <2> HIDE DEF packet
  <2> QED
    BY <2>1, <2>2, <2>3 DEF PathInv, HostIsHeard
<1>7. BuffersEmpty'
  BY <1>4 DEF Drain, BuffersEmpty
<1>8. FlushIsBehind' /\ ControllersArrive'
  BY DEF Drain, PathInv, FlushIsBehind, ControllersArrive, OneCallEach, DeadBandIsTrue
<1> QED
  BY <1>5, <1>6, <1>7, <1>8 DEF PathInv

LEMMA PollInv ==
  ASSUME PathInv, Poll
  PROVE  PathInv'
<1> DEFINE update == Head(ring)
           moved  == Binding[update.cc]
           passes == Mapped(update) /\ update.value # lastValue[moved]
<1>1. /\ ring \in Seq(Update) /\ ring # <<>> /\ update \in Update
      /\ ring' \in Seq(Update) /\ Len(ring') = Len(ring) - 1 /\ rx = <<>> /\ rx' = <<>>
      /\ turn = "poll"
  BY DEF Poll, PathInv, PathTypeOK, BuffersEmpty
<1>2. update.value \in Level /\ (Mapped(update) => moved \in Slots)
  BY <1>1, MappedIsSlot DEF Update, Packet
<1>3. /\ shadow'    = IF passes THEN [shadow EXCEPT ![moved] = update.value] ELSE shadow
      /\ lastValue' = IF passes THEN [lastValue EXCEPT ![moved] = update.value] ELSE lastValue
  BY DEF Poll, Written
<1>4. ring' = Tail(ring)
  BY DEF Poll
<1>5. \A s \in Slots : Moves(update, s) => lastValue'[s] = update.value
  BY <1>2, <1>3 DEF Moves, PathInv, PathTypeOK
<1>6. \A s \in Slots : ~Moves(update, s) => lastValue'[s] = lastValue[s] /\ shadow'[s] = shadow[s]
  BY <1>2, <1>3 DEF Moves, PathInv, PathTypeOK
<1>7. \A s \in Slots : \/ lastValue'[s] = lastValue[s] /\ shadow'[s] = shadow[s]
                       \/ shadow'[s] = lastValue'[s] /\ shadow'[s] \in Level
  BY <1>2, <1>3 DEF PathInv, PathTypeOK
<1>8. PathTypeOK'
  <2>1. {shadow', lastValue'} \subseteq [Slots -> Level \cup {Nothing}]
    BY <1>2, <1>3 DEF PathInv, PathTypeOK
  <2>2. Len(ring') < RingSlots
    BY <1>1, PathAssumption DEF PathInv, PathTypeOK
  <2> QED
    BY <1>1, <2>1, <2>2 DEF Poll, PathInv, PathTypeOK
<1> HIDE DEF update, moved, passes
<1>9. HostIsHeard'
  <2> SUFFICES ASSUME NEW s \in Slots
               PROVE  /\ \A v \in Level : Says(ring', s, v) => turned[s] = v
                      /\ Silent(ring', s) => turned[s] = lastValue'[s]
    BY <1>1, EmptySaysNothing DEF HostIsHeard, Poll
  <2>1. /\ \A v : Says(ring', s, v) => Says(ring, s, v)
        /\ Silent(ring', s) => /\ Moves(update, s) => Says(ring, s, update.value)
                               /\ ~Moves(update, s) => Silent(ring, s)
    BY <1>1, <1>4, SaysLeft DEF update
  <2>2. /\ \A v \in Level : Says(ring, s, v) => turned[s] = v
        /\ Silent(ring, s) => turned[s] = lastValue[s]
    BY <1>1, EmptySaysNothing DEF PathInv, HostIsHeard
  <2> QED
    BY <1>2, <1>5, <1>6, <2>1, <2>2
<1>10. BuffersEmpty' /\ FlushIsBehind' /\ OneCallEach'
  BY <1>1 DEF Poll, PathInv, BuffersEmpty, FlushIsBehind, ControllersArrive, OneCallEach
<1>11. DeadBandIsTrue'
  <2> SUFFICES ASSUME NEW s \in Slots
               PROVE  lastValue'[s] = IF shadow'[s] # Nothing THEN shadow'[s]
                                      ELSE IF pending[s] # Nothing THEN pending[s] ELSE applied[s]
    BY DEF Poll, DeadBandIsTrue
  <2> QED
    BY <1>7, PathAssumption DEF PathInv, ControllersArrive, DeadBandIsTrue
<1> QED
  BY <1>8, <1>9, <1>10, <1>11 DEF PathInv, ControllersArrive

\* Between the poll and the block the shadow, the dead-band's memory and the
\* controllers say the same of a slot that is dirty.
LEMMA DirtyIsTurned ==
  ASSUME PathInv, turn \in {"flush", "block"}
  PROVE  /\ \A s \in Slots : turned[s] = lastValue[s]
         /\ \A s \in Slots : shadow[s] # Nothing => shadow[s] = turned[s]
BY EmptySaysNothing DEF PathInv, HostIsHeard, BuffersEmpty, ControllersArrive, DeadBandIsTrue

LEMMA FlushInv ==
  ASSUME PathInv, Flush
  PROVE  PathInv'
<1>1. slot \in Slots /\ slot' = slot + 1 /\ slot \in Nat /\ ParamCount \in Nat
  BY PathAssumption DEF Flush, PathInv, PathTypeOK, Slots
<1>2. shadow \in [Slots -> Level \cup {Nothing}] /\ pending \in [Slots -> Level \cup {Nothing}]
  BY DEF PathInv, PathTypeOK
<1>3. shadow' \in [Slots -> Level \cup {Nothing}]
  BY <1>1, <1>2 DEF Flush
<1>4. /\ shadow'[slot] = Nothing
      /\ \A s \in Slots : s # slot => shadow'[s] = shadow[s] /\ pending'[s] = pending[s]
      /\ pending'[slot] = IF Dirty(slot) THEN shadow[slot] ELSE pending[slot]
  BY <1>1, <1>2 DEF Flush
<1>5. HostIsHeard' /\ BuffersEmpty'
  BY DEF Flush, PathInv, HostIsHeard, BuffersEmpty
<1>6. DeadBandIsTrue'
  BY <1>1, <1>4 DEF Flush, Dirty, PathInv, ControllersArrive, DeadBandIsTrue
<1>7. /\ pending' \in [Slots -> Level \cup {Nothing}]
      /\ calls' \in Seq([param : Slots, value : Level]) /\ Len(calls') <= slot'
      /\ \A i \in 1..Len(calls') : /\ calls'[i].param < slot'
                                   /\ calls'[i].value = turned[calls'[i].param]
      /\ \A i, j \in 1..Len(calls') : i < j => calls'[i].param < calls'[j].param
  <2>1. /\ calls \in Seq([param : Slots, value : Level]) /\ Len(calls) <= slot
        /\ \A i \in 1..Len(calls) : /\ calls[i].param < slot
                                    /\ calls[i].value = turned[calls[i].param]
        /\ \A i, j \in 1..Len(calls) : i < j => calls[i].param < calls[j].param
    BY DEF Flush, PathInv, PathTypeOK, FlushIsBehind, ControllersArrive, OneCallEach
  <2>2. \A i \in 1..Len(calls) : calls[i].param \in Nat
    <3> DEFINE Call == [param : Slots, value : Level]
    <3>1. calls \in Seq(Call)
      BY <2>1
    <3>2. \A c \in Call : c.param \in Nat
      BY DEF Slots
    <3> HIDE DEF Call
    <3>3. \A i \in 1..Len(calls) : calls[i] \in Call
      BY <3>1
    <3> QED
      BY <3>2, <3>3
  <2>3. CASE ~Dirty(slot)
    BY <1>1, <1>2, <2>1, <2>2, <2>3 DEF Flush
  <2>4. CASE Dirty(slot)
    <3> DEFINE new == [param |-> slot, value |-> shadow[slot]]
    <3>1. shadow[slot] \in Level /\ shadow[slot] = turned[slot]
      BY <1>1, <1>2, <2>4, DirtyIsTurned DEF Dirty, Flush
    <3>2. /\ new \in [param : Slots, value : Level]
          /\ new.param = slot /\ new.value = turned[slot]
      BY <1>1, <3>1
    <3>3. calls' = Append(calls, new) /\ pending' = [pending EXCEPT ![slot] = shadow[slot]]
      BY <2>4 DEF Flush
    <3> HIDE DEF new
    <3>4. /\ calls' \in Seq([param : Slots, value : Level])
          /\ Len(calls') = Len(calls) + 1 /\ calls'[Len(calls) + 1] = new
          /\ \A i \in 1..Len(calls) : calls'[i] = calls[i]
      BY <2>1, <3>2, <3>3
    <3>5. \A i \in 1..Len(calls') : i = Len(calls) + 1 \/ i \in 1..Len(calls)
      BY <2>1, <3>4
    <3>6. \A i \in 1..Len(calls') : /\ calls'[i].param < slot'
                                    /\ calls'[i].value = turned[calls'[i].param]
      BY <1>1, <2>1, <2>2, <3>2, <3>4, <3>5
    <3>7. \A i, j \in 1..Len(calls') : i < j => i \in 1..Len(calls)
      BY <2>1, <3>4
    <3>8. \A i, j \in 1..Len(calls') : i < j => calls'[i].param < calls'[j].param
      BY <2>1, <3>2, <3>4, <3>5, <3>7
    <3>9. pending' \in [Slots -> Level \cup {Nothing}] /\ Len(calls') <= slot'
      BY <1>1, <1>2, <2>1, <3>1, <3>3, <3>4
    <3> QED
      BY <3>4, <3>6, <3>8, <3>9
  <2> QED
    BY <2>3, <2>4
<1>8. slot' \in 0..ParamCount
  BY <1>1 DEF Slots
<1>9. PathTypeOK'
  <2>1. Len(calls') <= ParamCount
    BY <1>1, <1>7, <1>8
  <2> QED
    BY <1>3, <1>7, <1>8, <2>1 DEF Flush, PathInv, PathTypeOK
<1>10. FlushIsBehind'
  <2>1. \A s \in Slots : s < slot' => s = slot \/ s < slot
    BY <1>1 DEF Slots
  <2> QED
    BY <1>4, <1>7, <2>1 DEF Flush, PathInv, FlushIsBehind
<1>11. OneCallEach'
  BY <1>7 DEF OneCallEach, Flush
<1> QED
  BY <1>5, <1>6, <1>9, <1>10, <1>11 DEF PathInv, ControllersArrive

LEMMA RunBlockInv ==
  ASSUME PathInv, RunBlock
  PROVE  PathInv' /\ applied' = turned
<1>1. \A s \in Slots : shadow[s] = Nothing
  BY DEF RunBlock, PathInv, FlushIsBehind
<1>2. applied' = [s \in Slots |-> IF pending[s] # Nothing THEN pending[s] ELSE applied[s]]
  BY DEF RunBlock
<1>3. \A s \in Slots : applied'[s] = lastValue[s]
  BY <1>1, <1>2 DEF PathInv, ControllersArrive, DeadBandIsTrue
<1>4. applied' = turned
  <2>1. \A s \in Slots : applied'[s] = turned[s]
    BY <1>3, DirtyIsTurned DEF RunBlock
  <2>2. turned \in [Slots -> Level \cup {Nothing}]
    BY DEF PathInv, PathTypeOK
  <2> QED
    BY <1>2, <2>1, <2>2
<1>5. pending' \in [Slots -> Level \cup {Nothing}] /\ \A s \in Slots : pending'[s] = Nothing
  BY DEF RunBlock, Unset
<1>6. PathTypeOK'
  BY <1>4, <1>5 DEF RunBlock, PathInv, PathTypeOK
<1>7. HostIsHeard' /\ OneCallEach'
  BY DEF RunBlock, PathInv, HostIsHeard, ControllersArrive, OneCallEach
<1>8. BuffersEmpty' /\ FlushIsBehind'
  BY <1>1, PathAssumption DEF RunBlock, PathInv, BuffersEmpty, FlushIsBehind
<1>9. DeadBandIsTrue'
  BY <1>1, <1>3, <1>5 DEF RunBlock, DeadBandIsTrue
<1> QED
  BY <1>4, <1>6, <1>7, <1>8, <1>9 DEF PathInv, ControllersArrive

\* The steps from one loop of the pass to the next.
LEMMA TurnInv ==
  ASSUME PathInv, TaskDone \/ DrainDone \/ PollDone \/ FlushDone \/ SkipBlock
  PROVE  PathInv'
<1>1. UNCHANGED <<rx, ring, lastValue, shadow, pending, applied, turned>>
  BY DEF TaskDone, DrainDone, PollDone, FlushDone, SkipBlock
<1>2. slot' \in 0..ParamCount
  <2>1. slot' \in {0, slot}
    BY DEF TaskDone, DrainDone, PollDone, FlushDone, SkipBlock
  <2> QED
    BY <2>1, PathAssumption DEF PathInv, PathTypeOK
<1>3. calls' \in {calls, <<>>}
  BY DEF TaskDone, DrainDone, PollDone, FlushDone, SkipBlock
<1>4. PathTypeOK'
  <2>1. turn' \in {"task", "drain", "poll", "flush", "block"}
    BY DEF TaskDone, DrainDone, PollDone, FlushDone, SkipBlock
  <2>2. calls' \in Seq([param : Slots, value : Level]) /\ Len(calls') <= ParamCount
    <3>1. calls \in Seq([param : Slots, value : Level]) /\ Len(calls) <= ParamCount
      BY DEF PathInv, PathTypeOK
    <3>2. <<>> \in Seq([param : Slots, value : Level]) /\ Len(<<>>) <= ParamCount
      BY PathAssumption
    <3> QED
      BY <1>3, <3>1, <3>2
  <2> QED
    BY <1>1, <1>2, <2>1, <2>2 DEF PathInv, PathTypeOK
<1>5. HostIsHeard' /\ DeadBandIsTrue'
  BY <1>1 DEF PathInv, HostIsHeard, ControllersArrive, DeadBandIsTrue
<1>6. BuffersEmpty'
  BY <1>1, PathAssumption
     DEF TaskDone, DrainDone, PollDone, FlushDone, SkipBlock, PathInv, PathTypeOK, BuffersEmpty
<1>7. FlushIsBehind'
  <2>1. CASE PollDone
    <3>1. slot' = 0 /\ calls' = <<>> /\ turn' = "flush"
      BY <2>1 DEF PollDone
    <3>2. \A s \in Slots : ~(s < 0)
      BY DEF Slots
    <3> QED
      BY <3>1, <3>2 DEF FlushIsBehind
  <2>2. CASE FlushDone
    <3>1. \A s \in Slots : s < slot
      BY <2>2, PathAssumption DEF FlushDone, Slots
    <3> QED
      BY <2>2, <3>1 DEF FlushDone, PathInv, FlushIsBehind
  <2>3. CASE TaskDone \/ DrainDone \/ SkipBlock
    BY <2>3 DEF TaskDone, DrainDone, SkipBlock, PathInv, FlushIsBehind
  <2> QED
    BY <2>1, <2>2, <2>3
<1>8. OneCallEach'
  <2>1. CASE PollDone
    BY <2>1 DEF PollDone, OneCallEach
  <2>2. CASE ~PollDone
    BY <2>2 DEF TaskDone, DrainDone, FlushDone, SkipBlock, PathInv, ControllersArrive, OneCallEach
  <2> QED
    BY <2>1, <2>2
<1> QED
  BY <1>4, <1>5, <1>6, <1>7, <1>8 DEF PathInv, ControllersArrive

LEMMA PathKept == PathInv /\ [PathNext]_pathVars => PathInv'
<1> SUFFICES ASSUME PathInv, [PathNext]_pathVars PROVE PathInv'
  OBVIOUS
<1>1. CASE PathNext
  BY <1>1, ReceiveInv, DrainInv, PollInv, FlushInv, RunBlockInv, TurnInv
     DEF PathNext, ServiceParameters
<1>2. CASE UNCHANGED pathVars
  BY <1>2 DEF pathVars, PathInv, PathTypeOK, HostIsHeard, BuffersEmpty, FlushIsBehind,
              ControllersArrive, OneCallEach, DeadBandIsTrue
<1> QED
  BY <1>1, <1>2

LEMMA PathInvariant == PathSpec => []PathInv
BY PathKept, InitPathInv, PTL DEF PathSpec

\* FR-042 and PS4 for every binding, effect and FIFO that fits the ring: no
\* parameter is set twice in a pass, none to a value its controller was not left
\* at, and what the dead-band suppresses the effect has or is about to take.
THEOREM EveryControllerArrives == PathSpec => [](PathTypeOK /\ ControllersArrive)
<1>1. PathInv => PathTypeOK /\ ControllersArrive
  BY DEF PathInv
<1> QED
  BY <1>1, PathInvariant, PTL

\* FR-041 to FR-043 for every binding, effect and FIFO that fits the ring: a
\* block runs on the values the controllers had when the pass began.
THEOREM BlocksHearTheHost == PathSpec => BlockRunsOnLatest
<1>1. PathInv /\ [PathNext]_pathVars => [RunBlock => applied' = turned]_pathVars
  BY RunBlockInv
<1> QED
  BY <1>1, PathInvariant, PTL DEF PathSpec, BlockRunsOnLatest

-----------------------------------------------------------------------------
(* The two together                                                        *)

\* Both ways of a parameter keep their types: no value an effect does not have
\* is ever stored, shadowed or applied, and neither the FIFO, the ring nor the
\* calls of a pass outgrow what the code gives them.
THEOREM ParametersTypeCorrect == ParametersSpec => []ParametersTypeOK
<1>1. ParametersInit => TypeOK /\ PathInv
  BY InitTypeOK, InitPathInv DEF ParametersInit
<1>2. TypeOK /\ PathInv /\ [ParametersNext]_<<part, vars, pathVars>> => (TypeOK /\ PathInv)'
  <2>1. [ParametersNext]_<<part, vars, pathVars>> => [Next]_vars /\ [PathNext]_pathVars
    BY DEF ParametersNext
  <2> QED
    BY <2>1, NextTypeOK, PathKept
<1>3. TypeOK /\ PathInv => ParametersTypeOK
  BY DEF PathInv, ParametersTypeOK
<1> QED
  BY <1>1, <1>2, <1>3, PTL DEF ParametersSpec
=============================================================================
