------------------------------ MODULE MCCircuit ------------------------------
(***************************************************************************)
(* The circuit engine and the wave leaves in one run: a behaviour is about *)
(* the engine under one of the two integration rules, or about one leaf.   *)
(***************************************************************************)
EXTENDS CircuitBench, WaveLeaf

VARIABLE part

circuitVars == <<part, vars, leafVars>>

Whole(n) == Int2Rat(n)

\* One of each component, a second source on the first one's node, and a source
\* between two nodes, a node nobody added, a resistance no circuit has.
Pool ==
  <<VoltageSource(1, 0, Whole(1)), Resistor(1, 2, Whole(1)), Diode(2, 0), Capacitor(2, 0, Whole(1)),
    CurrentSource(2, 0, Whole(1)), Inductor(1, 2, Whole(1)), OpAmp(1, 2, 2), VoltageSource(1, 0, Whole(2)),
    VoltageSource(2, 1, Whole(1)), Resistor(2, 3, Whole(1))>>

Half == <<1, 2>>
Fmv == [r1 |-> Whole(1), c1 |-> Whole(1), c2 |-> Whole(1), rTreble |-> Whole(2), rBass |-> Whole(1), rMid |-> Whole(1), rLoad |-> Whole(1)]
Baxandall == [rBass |-> Whole(2), cBass |-> Whole(1), rBassOut |-> Whole(1), cTreble |-> Whole(1), rTreble |-> Whole(2),
              rTrebleOut |-> Whole(1), rLoad |-> Whole(1)]
Controls(b, m, t) == [bass |-> b, mid |-> m, treble |-> t]

Doubler == NonInvertingGain(Whole(1), Whole(1), Whole(1))
Inverter == InvertingGain(Whole(1), Whole(2), Whole(1))
BuiltCircuits ==
  {Doubler, Inverter,
   SymmetricShuntClipper(Whole(1), Whole(1), Whole(4)), AsymmetricShuntClipper(Whole(1), Whole(1), 2, 1, Whole(4)),
   SeriesClipper(Whole(1), Whole(1), 1, Whole(4)), ActiveFirstOrder(Whole(1), Whole(1), Whole(1), Whole(1)),
   OpAmpDiodeClipper(Whole(1), Whole(2), Whole(1), 1, 1, Whole(1))}
  \cup {ToneStackFMV(Fmv, Controls(p, Half, One -- p), "Log") : p \in {Zero, One}}
  \cup {ToneStackBaxandall(Baxandall, Controls(p, Half, One -- p), "Linear") : p \in {Zero, One}}

GainOf == [c \in {Doubler, Inverter} |-> IF c = Doubler THEN Whole(2) ELSE Whole(-2)]

Millivolt   == <<1, 1000>>
TheDrives   == {Whole(2)}
TheSeeds    == {[v |-> One, i |-> One]}
TheSpares   == {Capacitor(2, 0, Whole(2))}
TheElements ==
  {[kind |-> k, value |-> Whole(2), dt |-> One] :
     k \in {"Resistor", "ResistiveTermination", "ResistiveVoltageSource", "ResistiveCurrentSource",
            "Capacitor", "Inductor", "ShortCircuit", "OpenCircuit"}}
TheWaves    == {Whole(-1), Whole(1), Whole(2)}
TheSources  == {Whole(1), Whole(3)}

\* The same bench under the other rule.
Trapezoidal == INSTANCE CircuitBench WITH Rule <- "Trapezoidal"

ASSUME CircuitAssumption == Rule = "BackwardEuler" /\ LeafConstants

\* A part that does not run stays in its initial state.
CircuitInit ==
  /\ part \in {"BackwardEuler", "Trapezoidal", "leaf"}
  /\ Init
  /\ part = "leaf" => circuit = ByHand
  /\ part = "Trapezoidal" => circuit # ByHand
  /\ LeafInit /\ (part # "leaf" => leaf.kind = "Resistor")

CircuitNext ==
  \/ part = "BackwardEuler" /\ Next /\ UNCHANGED <<part, leafVars>>
  \/ part = "Trapezoidal" /\ Trapezoidal!Next /\ UNCHANGED <<part, leafVars>>
  \/ part = "leaf" /\ LeafNext /\ UNCHANGED <<part, vars>>

CircuitSpec == CircuitInit /\ [][CircuitNext]_circuitVars

---------------------------------------------------------------------------
(* Properties of the parts, each stated in its own module.                 *)

\* The objects keep their types and ranges.
CircuitTypeOK == TypeOK /\ LeafTypeOK

\* prepare() is reachability from ground (netlist.h), and a circuit from a
\* builder is planned, answered and as loud as its resistors say.
TopologiesAreRight == PrepareIsReachability /\ BuiltCircuitsPlay

\* An answer obeys Kirchhoff's laws, the sources and the rule; a refusal is
\* of a singular system only (mna-system.h, newton-solver.h, reactive-integrator.h).
AnswersObeyTheCircuit ==
  /\ part = "BackwardEuler" => AnswerObeysTheCircuit
  /\ part = "Trapezoidal" => Trapezoidal!AnswerObeysTheCircuit
  /\ RefusedOnlyIfSingular

\* The engine and the lab solvers, which know one rule, give the same voltages.
LabsAgree == part = "BackwardEuler" => LabAgrees

\* History moves on an answer only, and a leaf's wave state carries its
\* element's law from sample to sample.
StateCarriesTheLaw == [][HistoryStays /\ LawHolds]_circuitVars
=============================================================================
