---------------------------- MODULE ParamHandoff ----------------------------
(***************************************************************************)
(* The parameter handoff every effect carries.  Any thread publishes a     *)
(* value with setParameter(): two stores to two atomics.  The audio thread *)
(* walks the parameters at the top of process() and, for each, exchanges   *)
(* the flag, and only then loads the value.  prepare() and reset() are     *)
(* called while the stream is stopped and re-apply what was applied.       *)
(*                                                                         *)
(* The effect modelled is ProgramDependentSaturationEffect, whose walk     *)
(* starts with a preset that overwrites other parameters; with Preset = 0  *)
(* it is SvfEffect.                                                        *)
(* Threads interleave at every access of an atomic; the release store of   *)
(* the flag and the acquire exchange make that order the hardware's.  A    *)
(* value is a token; converting it to plain units changes no token.        *)
(***************************************************************************)
EXTENDS Integers, Sequences

CONSTANTS
  NumParams,  \* parameters, numbered in the order applyPending walks them
  Preset,     \* the one that selects a preset; 0 when the effect has none
  Shaped,     \* the parameters a preset writes
  Settings,   \* the values of a parameter
  Rows,       \* the values of the preset parameter, and what it writes
  Default,    \* the value a parameter has before anything is published
  Threads     \* the threads that call setParameter()

Params == 1..NumParams

ASSUME HandoffAssumption ==
  /\ NumParams \in Nat
  /\ Preset \in 0..NumParams
  /\ Shaped \subseteq Params \ {Preset}
  /\ Preset = 0 => Shaped = {}
  /\ Default \notin Settings \cup Rows

VARIABLES
  bits, dirty,   \* pendingBits_, pendingDirty_
  cached,        \* the members holding the applied values
  live,          \* what the DSP primitives were last told
  streaming,     \* does the device call process()?
  at,            \* the parameter the walk has reached; 0 between two blocks
  taken,         \* its flag has been exchanged, its value not yet loaded
  call,          \* each thread's setParameter() in progress
  edited         \* GHOST: a parameter's last edit since the last preset

audioVars == <<cached, live, streaming, at, taken>>
vars == <<bits, dirty, audioVars, call, edited>>

NoCall == [param |-> 0, value |-> Default, done |-> 0]
Values(p) == IF p = Preset THEN Rows ELSE Settings

(* setParameter, on any thread ------------------------------------------------*)

\* MUTANT of Stores: the flag is raised before the value is there.
StoresFlagFirst == <<"dirty", "bits">>

\* The two stores, in their order.
Stores == <<"bits", "dirty">>

Begin(t, p, v) ==
  /\ call[t] = NoCall
  /\ call' = [call EXCEPT ![t] = [param |-> p, value |-> v, done |-> 0]]
  /\ UNCHANGED <<bits, dirty, audioVars, edited>>

\* A preset makes the edits before it void; an edit after it stands.
Edited(p, v) ==
  IF p = Preset THEN [q \in Params |-> IF q \in Shaped THEN Default ELSE edited[q]]
                ELSE [edited EXCEPT ![p] = v]

Store(t) ==
  LET p    == call[t].param
      v    == call[t].value
      next == call[t].done + 1
  IN /\ call[t] # NoCall
     /\ bits'   = IF Stores[next] = "bits" THEN [bits EXCEPT ![p] = v] ELSE bits
     /\ dirty'  = IF Stores[next] = "dirty" THEN [dirty EXCEPT ![p] = TRUE] ELSE dirty
     /\ edited' = IF Stores[next] = "bits" THEN Edited(p, v) ELSE edited
     /\ call'   = [call EXCEPT ![t] =
                     IF next = Len(Stores) THEN NoCall
                                           ELSE [param |-> p, value |-> v, done |-> next]]
     /\ UNCHANGED audioVars

(* applyPending, on the audio thread -------------------------------------------*)

\* MUTANT of After: the walk runs past the last parameter.
AfterOverrun(p) == IF p > NumParams THEN 0 ELSE p + 1

\* MUTANT of After: the walk stops before the last parameter.
AfterShort(p) == IF p + 1 >= NumParams THEN 0 ELSE p + 1

After(p) == IF p = NumParams THEN 0 ELSE p + 1

StartBlock ==
  /\ streaming /\ at = 0
  /\ at' = After(0)
  /\ UNCHANGED <<bits, dirty, cached, live, streaming, taken, call, edited>>

Skip ==
  /\ at # 0 /\ ~taken /\ ~dirty[at]
  /\ at' = After(at)
  /\ UNCHANGED <<bits, dirty, cached, live, streaming, taken, call, edited>>

Take ==
  /\ at # 0 /\ ~taken /\ dirty[at]
  /\ dirty' = [dirty EXCEPT ![at] = FALSE]
  /\ taken' = TRUE
  /\ UNCHANGED <<bits, cached, live, streaming, at, call, edited>>

\* A preset writes its row; the edits of this block are applied after it.
Applied(values, p, v) ==
  [q \in Params |-> IF q = p \/ (p = Preset /\ q \in Shaped) THEN v ELSE values[q]]

Apply ==
  /\ taken
  /\ cached' = Applied(cached, at, bits[at])
  /\ live'   = Applied(live, at, bits[at])
  /\ taken'  = FALSE
  /\ at'     = After(at)
  /\ UNCHANGED <<bits, dirty, streaming, call, edited>>

(* The device stops and starts the stream --------------------------------------*)

\* MUTANT of Reapplied: the preset is selected again, as it once was.
ReappliedPreset ==
  [p \in Params |-> IF p \in Shaped THEN cached[Preset] ELSE cached[p]]

\* applyAll(): what was applied before, a preset with its overrides.
Reapplied == cached

\* prepare() and, for a stream already prepared, reset().
Prepare ==
  /\ ~streaming /\ at = 0
  /\ live' = Reapplied
  /\ streaming' = TRUE
  /\ UNCHANGED <<bits, dirty, cached, at, taken, call, edited>>

\* Between two blocks: a device that stops lets the callback return.
Stop ==
  /\ streaming /\ at = 0
  /\ streaming' = FALSE
  /\ UNCHANGED <<bits, dirty, cached, live, at, taken, call, edited>>

(* Specification -----------------------------------------------------------------*)

Init ==
  /\ bits = [p \in Params |-> Default] /\ dirty = [p \in Params |-> FALSE]
  /\ cached = [p \in Params |-> Default]
  /\ live = [p \in Params |-> Default]
  /\ streaming = FALSE
  /\ at = 0 /\ taken = FALSE
  /\ call = [t \in Threads |-> NoCall]
  /\ edited = [p \in Params |-> Default]

Callback == StartBlock \/ Skip \/ Take \/ Apply

Control == \E t \in Threads : \/ \E p \in Params : \E v \in Values(p) : Begin(t, p, v)
                              \/ Store(t)

Next == Callback \/ Control \/ Prepare \/ Stop

Spec == Init /\ [][Next]_vars

\* While the device streams it calls process() again and again, and process()
\* is bounded; a call of setParameter() takes two stores.
FairSpec == /\ Spec
            /\ WF_vars(Callback)
            /\ \A t \in Threads : WF_vars(Store(t))

(* Properties ----------------------------------------------------------------------*)

TypeOK ==
  /\ {bits, cached, live} \subseteq [Params -> Settings \cup Rows \cup {Default}]
  /\ \A p \in Params : bits[p] \in Values(p) \cup {Default}
  /\ dirty \in [Params -> BOOLEAN]
  /\ streaming \in BOOLEAN
  /\ at \in 0..NumParams
  /\ taken \in BOOLEAN /\ (taken => at # 0)
  /\ call \in [Threads -> [param : Params, value : Settings \cup Rows, done : 0..1]
                            \cup {NoCall}]
  /\ \A t \in Threads : call[t] # NoCall => call[t].value \in Values(call[t].param)

\* Nobody is about to deliver a value for p.
Quiet(p) ==
  /\ ~dirty[p]
  /\ ~(taken /\ at = p)
  /\ \A t \in Threads : call[t].param # p

\* FR-017: whatever two threads publish at once and wherever the audio thread
\* stands in its walk, once nothing is on its way the effect runs on the value
\* that was stored last (or, in a preset's reach, on what a preset wrote).
NoEditStranded ==
  streaming => \A p \in Params :
    Quiet(p) => \/ live[p] = bits[p]
                \/ p \in Shaped /\ live[p] \in Rows

\* FR-018 and the note at applyAll: to stop the stream and prepare it again,
\* for a new rate say, changes no parameter, a preset and its overrides included.
PrepareKeepsParameters ==
  [][~streaming /\ streaming' => live' = live]_vars

\* FR-014: a preset is a starting point, not a lock; an edit made after it was
\* selected stands once both have been applied.
EditOverridesPreset ==
  \A p \in Shaped :
    streaming /\ edited[p] # Default /\ Quiet(p) /\ Quiet(Preset) => live[p] = edited[p]

\* FR-017: an edit that is followed by no other lands, whatever came before it.
EditsLand ==
  \A p \in Params \ Shaped :
    <>[][bits[p]' = bits[p]]_bits /\ <>[]streaming => <>[](live[p] = bits[p])
=============================================================================
