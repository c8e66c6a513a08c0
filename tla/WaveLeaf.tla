------------------------------ MODULE WaveLeaf -------------------------------
(***************************************************************************)
(* core/primitives/circuit/wdf: the one-port leaves of a wave digital      *)
(* filter.  A leaf is met once a sample: an adaptable one is read before   *)
(* the incident wave arrives, a reflective one after.  The port's voltage  *)
(* and current are recovered from the two waves.                           *)
(***************************************************************************)
EXTENDS CircuitNetlist

CONSTANTS
  Elements,          \* leaves a behaviour may be about: [kind, value, dt]
  Waves,             \* incident waves
  LeafDrives,        \* values given to a source
  MaxSamples         \* bound of the model

\* What the constructors let through: positive values, and a positive timestep.
LeafConstants ==
  /\ \A l \in Elements :
       /\ l.kind \in {"Resistor", "ResistiveTermination", "ResistiveVoltageSource", "ResistiveCurrentSource",
                     "Capacitor", "Inductor", "ShortCircuit", "OpenCircuit"}
       /\ IsRational(l.value) /\ l.value[1] > 0 /\ IsRational(l.dt) /\ l.dt[1] > 0
  /\ \A w \in Waves \cup LeafDrives : IsRational(w)
  /\ MaxSamples \in Nat

VARIABLES
  leaf,              \* the element
  drive,             \* E_ or I_
  state,             \* state_ or a_: the wave the leaf keeps
  now, was,          \* GHOST: port voltage and current of this sample and the one before
  samples

leafVars == <<leaf, drive, state, now, was, samples>>

Adaptable(l) == l.kind \notin {"ShortCircuit", "OpenCircuit"}

PortResistance(l) ==
  CASE l.kind = "Capacitor" -> l.dt // (<<2, 1>> ** l.value)
    [] l.kind = "Inductor" -> (<<2, 1>> ** l.value) // l.dt
    [] OTHER -> l.value

\* MUTANT of Reflected: both reactive leaves alike.
ReflectedDelay(l, kept, d) ==
  CASE l.kind \in {"Resistor", "ResistiveTermination"} -> Zero
    [] l.kind = "ResistiveVoltageSource" -> d
    [] l.kind = "ResistiveCurrentSource" -> PortResistance(l) ** d
    [] l.kind = "ShortCircuit" -> Neg(kept)
    [] OTHER -> kept

(* reflected(), with kept the stored wave and d the drive. *)
Reflected(l, kept, d) ==
  CASE l.kind \in {"Resistor", "ResistiveTermination"} -> Zero
    [] l.kind = "ResistiveVoltageSource" -> d
    [] l.kind = "ResistiveCurrentSource" -> PortResistance(l) ** d
    [] l.kind \in {"Capacitor", "OpenCircuit"} -> kept
    [] l.kind \in {"Inductor", "ShortCircuit"} -> Neg(kept)

(* incident(a): what the leaf keeps. *)
Incident(l, kept, a) ==
  IF l.kind \in {"Capacitor", "Inductor", "ShortCircuit", "OpenCircuit"} THEN a ELSE kept

WaveToVoltage(a, b) == (a ++ b) // <<2, 1>>
WaveToCurrent(a, b, Rp) == (a -- b) // (<<2, 1>> ** Rp)

Quiet == [v |-> Zero, i |-> Zero]

LeafInit ==
  /\ leaf \in Elements /\ drive = Zero /\ state = Zero
  /\ now = Quiet /\ was = Quiet /\ samples = 0

SetDrive ==
  /\ leaf.kind \in {"ResistiveVoltageSource", "ResistiveCurrentSource"}
  /\ drive' \in LeafDrives \ {drive}
  /\ UNCHANGED <<leaf, state, now, was, samples>>

(* One sample, in the order the leaf's isAdaptable selects. *)
Sample ==
  /\ samples < MaxSamples /\ samples' = samples + 1
  /\ \E a \in Waves :
       LET b == IF Adaptable(leaf) THEN Reflected(leaf, state, drive)
                ELSE Reflected(leaf, Incident(leaf, state, a), drive)
       IN  /\ state' = Incident(leaf, state, a)
           /\ now' = [v |-> WaveToVoltage(a, b), i |-> WaveToCurrent(a, b, PortResistance(leaf))]
  /\ was' = now
  /\ UNCHANGED <<leaf, drive>>

LeafNext == SetDrive \/ Sample

---------------------------------------------------------------------------
LeafTypeOK ==
  /\ leaf \in Elements /\ IsRational(drive) /\ IsRational(state)
  /\ IsRational(now.v) /\ IsRational(now.i) /\ samples \in 0..MaxSamples

(* The law a leaf stands for, between one sample and the next: Ohm's for   *)
(* the resistive ones with the source's offset, the trapezoidal rule for   *)
(* the two that keep a wave, no voltage over a short and no current into   *)
(* an open.                                                                *)
ObeysItsElement(l, before, after, d) ==
  LET perStep == (<<2, 1>> ** l.value) // l.dt
  IN  CASE l.kind \in {"Resistor", "ResistiveTermination"} -> after.v = l.value ** after.i
        [] l.kind = "ResistiveVoltageSource" -> after.v = d ++ (l.value ** after.i)
        [] l.kind = "ResistiveCurrentSource" -> after.v = l.value ** (after.i ++ d)
        [] l.kind = "Capacitor" -> (after.i ++ before.i) = perStep ** (after.v -- before.v)
        [] l.kind = "Inductor" -> (after.v ++ before.v) = perStep ** (after.i -- before.i)
        [] l.kind = "ShortCircuit" -> after.v = Zero
        [] l.kind = "OpenCircuit" -> after.i = Zero

(* Every sample a leaf answers obeys its element's law. *)
LawHolds == Sample => ObeysItsElement(leaf, now, now', drive)
LeavesObeyTheirElement == [][LawHolds]_leafVars
=============================================================================
