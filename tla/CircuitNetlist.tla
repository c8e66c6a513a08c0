--------------------------- MODULE CircuitNetlist ----------------------------
(***************************************************************************)
(* core/primitives/circuit: the components, the fixed-capacity netlist and *)
(* the validation of its topology, and the ready-made netlists.  A         *)
(* component is a record: its kind, its two terminals, an op-amp's output, *)
(* and its one value (a resistance, a capacitance, an inductance, a        *)
(* source's volts or amperes).                                             *)
(***************************************************************************)
EXTENDS Integers, Sequences, FiniteSets, SequencesExt

-----------------------------------------------------------------------------
(* Exact rationals standing for the double of the circuit solvers.  The    *)
(* rounding of floating point is left out; what is kept is the order of    *)
(* the operations, every comparison and every division by zero the code    *)
(* guards against.  A value is a pair <<numerator, denominator>> in lowest *)
(* terms with a positive denominator, so equal values are equal pairs.     *)

AbsInt(i) == IF i < 0 THEN -i ELSE i
gcd[p \in Nat \X Nat] == IF p[2] = 0 THEN p[1] ELSE gcd[<<p[2], p[1] % p[2]>>]

Rat(n, d) ==
  LET g == gcd[<<AbsInt(n), AbsInt(d)>>]
      s == IF d < 0 THEN -1 ELSE 1
  IN  <<s * (n \div g), s * (d \div g)>>

Int2Rat(i) == <<i, 1>>
Zero == <<0, 1>>
One  == <<1, 1>>

IsRational(q) ==
  /\ q = <<q[1], q[2]>> /\ q[1] \in Int /\ q[2] \in Nat \ {0}
  /\ gcd[<<AbsInt(q[1]), q[2]>>] = 1

\* Common factors go first: numbers stay as small as their values allow.
a ++ b ==
  LET g == gcd[<<a[2], b[2]>>]
  IN  Rat(a[1] * (b[2] \div g) + b[1] * (a[2] \div g), a[2] * (b[2] \div g))
a ** b ==
  LET p == Rat(a[1], b[2])
      q == Rat(b[1], a[2])
  IN  <<p[1] * q[1], p[2] * q[2]>>
Neg(a) == <<-a[1], a[2]>>
a -- b == a ++ Neg(b)
a // b == a ** Rat(b[2], b[1])     \* b # Zero
a \prec b == (a -- b)[1] < 0
Magnitude(a) == <<AbsInt(a[1]), a[2]>>

(* The sum of Term(i) over a finite sequence of indices. *)
SumOver(Term(_), indices) == FoldLeft(LAMBDA acc, i : acc ++ Term(i), Zero, indices)

(* <<Entry(1), ..., Entry(n)>> *)
Tuple(n, Entry(_)) == SubSeq([i \in 1..n |-> Entry(i)], 1, n)

-----------------------------------------------------------------------------
(* The components and the netlist.                                         *)

Ground == 0

Kinds == {"Resistor", "Capacitor", "Inductor", "VoltageSource", "CurrentSource", "Diode", "OpAmp"}

TwoTerminal(kind, a, b, value) == [kind |-> kind, a |-> a, b |-> b, out |-> Ground, value |-> value]
Resistor(a, b, R)      == TwoTerminal("Resistor", a, b, R)
Capacitor(a, b, C)     == TwoTerminal("Capacitor", a, b, C)
Inductor(a, b, L)      == TwoTerminal("Inductor", a, b, L)
VoltageSource(p, n, V) == TwoTerminal("VoltageSource", p, n, V)
CurrentSource(p, n, I) == TwoTerminal("CurrentSource", p, n, I)
Diode(anode, cathode)  == TwoTerminal("Diode", anode, cathode, One)
OpAmp(inPlus, inMinus, out) == [kind |-> "OpAmp", a |-> inPlus, b |-> inMinus, out |-> out, value |-> Zero]

IsNonlinear(c) == c.kind = "Diode"
IsReactive(c)  == c.kind \in {"Capacitor", "Inductor"}
Conducts(c)    == c.kind \in {"Resistor", "Inductor", "Capacitor", "VoltageSource"}

NodesOf(c) == {c.a, c.b} \cup (IF c.kind = "OpAmp" THEN {c.out} ELSE {})

(* A netlist holds its components in the order they were added; node 0 is  *)
(* there from the start.                                                   *)
EmptyNetlist == [nodes |-> 1, comps |-> <<>>]

(* The handle of a node added, or of a netlist unchanged: add and addNode  *)
(* throw at the capacity and leave everything as it was.                   *)
WithNode(nl, maxNodes)   == IF nl.nodes >= maxNodes THEN nl ELSE [nl EXCEPT !.nodes = @ + 1]
With(nl, c, maxComponents) ==
  IF Len(nl.comps) >= maxComponents THEN nl ELSE [nl EXCEPT !.comps = Append(@, c)]

(* find() with path halving, from x in the forest parent: the root, and    *)
(* the forest it leaves behind.                                            *)
Climbs == [parent : Seq(Nat), x : Nat]
Find[f \in Climbs] ==
  LET up == f.parent[f.x + 1]
      grand == f.parent[up + 1]
  IN  IF up = f.x THEN f
      ELSE Find[[parent |-> [f.parent EXCEPT ![f.x + 1] = grand], x |-> grand]]

\* MUTANT of Unite: the nodes themselves are joined, not their roots.
UniteLeaves(parent, a, b) == [parent EXCEPT ![a + 1] = b]

Unite(parent, a, b) ==
  LET ra == Find[[parent |-> parent, x |-> a]]
      rb == Find[[parent |-> ra.parent, x |-> b]]
  IN  IF ra.x = rb.x THEN rb.parent ELSE [rb.parent EXCEPT ![ra.x + 1] = rb.x]

Forest(nl) ==
  FoldLeft(LAMBDA parent, c : IF Conducts(c) THEN Unite(parent, c.a, c.b) ELSE parent,
           Tuple(nl.nodes, LAMBDA i : i - 1), nl.comps)

(* What prepare() raises, in the order of its checks. *)
PrepareVerdict(nl) ==
  LET used == {nl.comps[i] : i \in DOMAIN nl.comps}
      forest == Forest(nl)
      Root(n) == Find[[parent |-> forest, x |-> n]].x
  IN  IF \E c \in used : ~(NodesOf(c) \subseteq 0..nl.nodes - 1) THEN "out of range"
      ELSE IF \A c \in used : Ground \notin {c.a, c.b} THEN "missing ground"
      ELSE IF \E n \in 1..nl.nodes - 1 : Root(n) # Root(Ground) THEN "floating node"
      ELSE "ok"

(* The same verdict said without a forest: the nodes ground reaches over   *)
(* conducting elements are the smallest set closed under their terminals.  *)
Reached(nl) ==
  LET edges == {{c.a, c.b} : c \in {d \in {nl.comps[i] : i \in DOMAIN nl.comps} : Conducts(d)}}
      closed == {S \in SUBSET (0..nl.nodes - 1) :
                   Ground \in S /\ \A e \in edges : e \cap S # {} => e \subseteq S}
  IN  CHOOSE S \in closed : \A T \in closed : S \subseteq T

(* The topology fingerprint: kind and terminals, no values. *)
TopoSig(c) == <<c.kind, c.a, c.b, c.out>>
Signature(nl) == Tuple(Len(nl.comps), LAMBDA i : TopoSig(nl.comps[i]))

-----------------------------------------------------------------------------
(* The circuits of diode-clipper.h, opamp-stage.h and tone-stack.h, with   *)
(* the potentiometers of taper.h.  Every builder refuses values no circuit *)
(* has, adds its nodes and its components in order within the capacity its *)
(* type was given, and validates the result.  A built circuit is the       *)
(* netlist, its driven and its output node; a builder that throws gives    *)
(* NoCircuit.                                                              *)

MaxClipperDiodes == 4        \* kMaxClipperDiodes, kMaxOpAmpClipperDiodes
EndResistance == One         \* kEndResistanceOhms, in the model's ohms

NoCircuit == [threw |-> TRUE, nl |-> EmptyNetlist, in |-> Ground, out |-> Ground]

Positive(values) == \A x \in values : Zero \prec x

(* nodes addNode() calls and the listed add() calls on a netlist of the    *)
(* given capacities; one call too many throws, and so does prepare().      *)
Built(maxNodes, maxComponents, nodes, comps, in, out) ==
  LET nl == [nodes |-> nodes + 1, comps |-> comps]
  IN  IF nodes + 1 > maxNodes \/ Len(comps) > maxComponents \/ PrepareVerdict(nl) # "ok"
      THEN NoCircuit ELSE [threw |-> FALSE, nl |-> nl, in |-> in, out |-> out]

Copies(n, c) == [i \in 1..n |-> c]

(* Diode clippers: the shunt pair, a shunt population that differs between *)
(* the two directions, and one diode in series.                            *)
SymmetricShuntClipper(R, Cf, vIn) ==
  IF ~Positive({R, Cf}) THEN NoCircuit
  ELSE Built(4, 8, 2, <<VoltageSource(1, Ground, vIn), Resistor(1, 2, R), Diode(2, Ground),
                        Diode(Ground, 2), Capacitor(2, Ground, Cf)>>, 1, 2)

AsymmetricShuntClipper(R, Cf, up, down, vIn) ==
  IF ~Positive({R, Cf}) \/ up < 0 \/ down < 0 \/ up + down \notin 1..MaxClipperDiodes \/ up = down
  THEN NoCircuit
  ELSE Built(4, 8, 2, <<VoltageSource(1, Ground, vIn), Resistor(1, 2, R)>>
                        \o Copies(up, Diode(2, Ground)) \o Copies(down, Diode(Ground, 2))
                        \o <<Capacitor(2, Ground, Cf)>>, 1, 2)

SeriesClipper(Cc, R, count, vIn) ==
  IF ~Positive({Cc, R}) \/ count # 1 THEN NoCircuit
  ELSE Built(5, 8, 3, <<VoltageSource(1, Ground, vIn), Capacitor(1, 2, Cc), Diode(2, 3),
                        Resistor(3, Ground, R)>>, 1, 3)

(* Op-amp stages: node 1 is driven, 2 the inverting input, 3 the output;   *)
(* only the first drives the non-inverting input.                          *)
NonInvertingGain(Rf, Rg, vIn) ==
  IF ~Positive({Rf, Rg}) THEN NoCircuit
  ELSE Built(4, 4, 3, <<VoltageSource(1, Ground, vIn), OpAmp(1, 2, 3), Resistor(3, 2, Rf),
                        Resistor(2, Ground, Rg)>>, 1, 3)

Inverting(maxComponents, Rin, feedback, vIn) ==
  Built(4, maxComponents, 3, <<VoltageSource(1, Ground, vIn), Resistor(1, 2, Rin),
                               OpAmp(Ground, 2, 3)>> \o feedback, 1, 3)

InvertingGain(Rin, Rf, vIn) ==
  IF ~Positive({Rin, Rf}) THEN NoCircuit ELSE Inverting(4, Rin, <<Resistor(3, 2, Rf)>>, vIn)

ActiveFirstOrder(Rin, Rf, Cf, vIn) ==
  IF ~Positive({Rin, Rf, Cf}) THEN NoCircuit
  ELSE Inverting(5, Rin, <<Resistor(3, 2, Rf), Capacitor(3, 2, Cf)>>, vIn)

OpAmpDiodeClipper(Rin, Rf, Cf, up, down, vIn) ==
  IF ~Positive({Rin, Rf, Cf}) \/ up < 1 \/ down < 1 \/ up + down > MaxClipperDiodes THEN NoCircuit
  ELSE Inverting(5 + MaxClipperDiodes, Rin,
                 <<Resistor(3, 2, Rf), Capacitor(3, 2, Cf)>> \o Copies(up, Diode(3, 2))
                   \o Copies(down, Diode(2, 3)), vIn)

(* Potentiometers.  The logarithmic taper is any increasing fraction with  *)
(* the same ends: the square stands for it.                                *)
TaperFraction(pos, taper) == IF taper = "Log" THEN pos ** pos ELSE pos
\* MUTANT of FloorLeg: no end resistance.
FloorLegNone(leg) == leg
FloorLeg(leg) == IF EndResistance \prec leg THEN leg ELSE EndResistance
BadPot(track, pos) == ~(Zero \prec track) \/ pos \prec Zero \/ One \prec pos
Wiper(track, pos, taper) ==
  [top |-> FloorLeg((One -- TaperFraction(pos, taper)) ** track),
   bottom |-> FloorLeg(TaperFraction(pos, taper) ** track)]
Rheostat(track, pos, taper) == FloorLeg(TaperFraction(pos, taper) ** track)

ToneStackFMV(v, c, taper) ==
  LET treble == Wiper(v.rTreble, c.treble, taper)
  IN  IF \/ ~Positive({v.r1, v.c1, v.c2, v.rTreble, v.rBass, v.rMid, v.rLoad})
         \/ BadPot(v.rTreble, c.treble) \/ BadPot(v.rBass, c.bass) \/ BadPot(v.rMid, c.mid)
      THEN NoCircuit
      ELSE Built(8, 12, 6,
             <<VoltageSource(1, Ground, One), Capacitor(1, 2, v.c1), Resistor(1, 3, v.r1),
               Resistor(2, 4, treble.top), Resistor(4, 3, treble.bottom), Capacitor(3, 5, v.c2),
               Resistor(5, 6, Rheostat(v.rBass, c.bass, taper)),
               Resistor(6, Ground, Rheostat(v.rMid, c.mid, taper)), Resistor(4, Ground, v.rLoad)>>, 1, 4)

ToneStackBaxandall(v, c, taper) ==
  LET bass == Wiper(v.rBass, c.bass, taper)
      treble == Wiper(v.rTreble, c.treble, taper)
  IN  IF \/ ~Positive({v.rBass, v.cBass, v.rBassOut, v.cTreble, v.rTreble, v.rTrebleOut, v.rLoad})
         \/ BadPot(v.rBass, c.bass) \/ BadPot(v.rTreble, c.treble)
      THEN NoCircuit
      ELSE Built(7, 12, 5,
             <<VoltageSource(1, Ground, One), Resistor(1, 2, bass.top), Resistor(2, Ground, bass.bottom),
               Capacitor(1, 2, v.cBass), Resistor(2, 5, v.rBassOut), Capacitor(1, 3, v.cTreble),
               Resistor(3, 4, treble.top), Resistor(4, Ground, treble.bottom),
               Resistor(4, 5, v.rTrebleOut), Resistor(5, Ground, v.rLoad)>>, 1, 5)
=============================================================================
