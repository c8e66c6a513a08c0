----------------------------- MODULE LabSolvers ------------------------------
(***************************************************************************)
(* core/labs: the reference solvers the circuit engine is compared with.   *)
(* LinearSolver pins the node of each grounded source and eliminates; the  *)
(* NullorSolver also borders the matrix with a column and a row for each   *)
(* op-amp; the clippers run Newton over one diode port on top of either.   *)
(* A result says whether the call threw, the node voltages and the state   *)
(* it leaves; the history advances on an answer only.                      *)
(***************************************************************************)
EXTENDS CircuitEngine

CONSTANTS MaxDiodes, MaxOpAmps     \* the clippers' and the nullor's capacities

Volt(v, n) == IF n = Ground THEN Zero ELSE v[n]
NoVolts == Tuple(MaxNodes - 1, LAMBDA n : Zero)
AtRest == [node |-> NoVolts,                                   \* vPrevNode_
           inductor |-> Tuple(MaxComponents, LAMBDA i : Zero), \* inductorCurrent_
           port |-> Zero]                                      \* warmStart_
Grounded(c) == Ground \in {c.a, c.b}
Has(nl, kind) == \E i \in DOMAIN nl.comps : nl.comps[i].kind = kind
All(nl, kind) == SelectSeq(nl.comps, LAMBDA c : c.kind = kind)

(* Capacitor::companion and Inductor::companion, from the solver's history. *)
LabCompanion(c, i, h) ==
  IF c.kind = "Capacitor"
  THEN [Geq |-> c.value // Dt, Ieq |-> (c.value // Dt) ** (Volt(h.node, c.a) -- Volt(h.node, c.b))]
  ELSE [Geq |-> Dt // c.value, Ieq |-> Neg(h.inductor[i])]

(* A row is its coefficients and, last, its right-hand side. *)
AddTo(m, r, c, x) == IF Ground \in {r, c} THEN m ELSE [m EXCEPT ![r][c] = @ ++ x]
Rhs(m, r, x) == IF r = Ground THEN m ELSE [m EXCEPT ![r][Len(m) + 1] = @ ++ x]
Conduct(m, a, b, G) == AddTo(AddTo(AddTo(AddTo(m, a, a, G), b, b, G), a, b, Neg(G)), b, a, Neg(G))
Inject(m, a, b, I) == Rhs(Rhs(m, a, I), b, Neg(I))

StampLab(m, c, i, h) ==
  CASE c.kind = "Resistor" -> Conduct(m, c.a, c.b, One // c.value)
    [] c.kind = "CurrentSource" -> Inject(m, c.a, c.b, c.value)
    [] IsReactive(c) -> LET k == LabCompanion(c, i, h)
                        IN  Inject(Conduct(m, c.a, c.b, k.Geq), c.a, c.b, k.Ieq)
    [] OTHER -> m

(* borderOpAmps: the k-th op-amp's current enters the row of out, its      *)
(* constraint is row n + k.                                                *)
Border(m, op, row) == AddTo(AddTo(AddTo(m, op.out, row, One), row, op.a, One), row, op.b, Neg(One))

Pinned(c) == IF c.b = Ground THEN [node |-> c.a, to |-> c.value] ELSE [node |-> c.b, to |-> Neg(c.value)]
PinNode(m, pin) ==
  LET last == Len(m) + 1
      Row(r) == IF r = pin.node
                THEN Tuple(last, LAMBDA c : IF c = pin.node THEN One ELSE IF c = last THEN pin.to ELSE Zero)
                ELSE [m[r] EXCEPT ![last] = @ -- (m[r][pin.node] ** pin.to), ![pin.node] = Zero]
  IN  Tuple(Len(m), Row)

Assembled(nl, h, opAmps) ==
  LET N == nl.nodes - 1 + Len(opAmps)
      blank == Tuple(N, LAMBDA r : Tuple(N + 1, LAMBDA c : Zero))
      stamped == FoldLeftDomain(LAMBDA m, i : StampLab(m, nl.comps[i], i, h), blank, nl.comps)
      bordered == FoldLeftDomain(LAMBDA m, k : Border(m, opAmps[k], nl.nodes - 1 + k), stamped, opAmps)
  IN  FoldLeft(LAMBDA m, c : PinNode(m, Pinned(c)), bordered, All(nl, "VoltageSource"))

IllSourced(nl) == \E i \in DOMAIN nl.comps : LET c == nl.comps[i]
  IN  c.kind = "VoltageSource" /\ (~Grounded(c) \/ c.a = c.b)
Conflict(nl) == \E i, j \in DOMAIN nl.comps : LET c == nl.comps[i] d == nl.comps[j]
  IN  /\ c.kind = "VoltageSource" /\ d.kind = "VoltageSource"
      /\ Pinned(c).node = Pinned(d).node /\ Pinned(c).to # Pinned(d).to

Threw == [threw |-> TRUE, v |-> NoVolts]
(* Elimination of m, whose first rows are the nodes up to last. *)
Voltages(sol, last) ==
  [threw |-> FALSE, v |-> Tuple(MaxNodes - 1, LAMBDA n : IF n <= last THEN sol[n] ELSE Zero)]
Eliminate(m, last) ==
  LET work == Eliminated(m)
  IN  IF m # <<>> /\ work = <<>> THEN Threw ELSE Voltages(BackSubstituted(work), last)

(* LinearSolver::solve: diodes and op-amps are not stamped, a floating     *)
(* source is refused, a node pinned twice keeps the last pin.              *)
LinearRefuses(nl) == IllSourced(nl)

(* NullorSolver::solve: also refuses a raw diode, too many op-amps and two *)
(* sources that disagree about a node.                                     *)
NullorRefuses(nl) ==
  IllSourced(nl) \/ Conflict(nl) \/ Has(nl, "Diode") \/ Len(All(nl, "OpAmp")) > MaxOpAmps

(* Either, without its history. *)
LabSolve(engine, nl, h) ==
  IF IF engine = "nullor" THEN NullorRefuses(nl) ELSE LinearRefuses(nl) THEN Threw
  ELSE Eliminate(Assembled(nl, h, IF engine = "nullor" THEN All(nl, "OpAmp") ELSE <<>>), nl.nodes - 1)

(* advanceHistory, the same in every one of them. *)
\* MUTANT of Advanced: inductor currents stay.
AdvancedNodes(nl, h, v) == [h EXCEPT !.node = v]
Advanced(nl, h, v) ==
  LET Current(i) ==
        IF i \in DOMAIN nl.comps /\ nl.comps[i].kind = "Inductor"
        THEN (LabCompanion(nl.comps[i], i, h).Geq ** (Volt(v, nl.comps[i].a) -- Volt(v, nl.comps[i].b)))
               ++ h.inductor[i]
        ELSE h.inductor[i]
  IN  [h EXCEPT !.node = v, !.inductor = Tuple(MaxComponents, Current)]

Stepped(nl, h, s) ==
  [threw |-> s.threw, converged |-> ~s.threw, v |-> s.v,
   state |-> IF s.threw THEN h ELSE Advanced(nl, h, s.v)]

---------------------------------------------------------------------------
(* The clippers.  All diodes sit on one port, each along it or against it. *)
Orient(d, port) == IF d.a = port.a /\ d.b = port.b THEN One
                   ELSE IF d.a = port.b /\ d.b = port.a THEN Neg(One) ELSE Zero
OffPort(ds) == \E i \in DOMAIN ds : Orient(ds[i], ds[1]) = Zero
ReactiveCount(nl) == Cardinality({i \in DOMAIN nl.comps : IsReactive(nl.comps[i])})

(* buildAugmented: everything linear as it is, the rest as a resistor and  *)
(* a current source.  LinearSolver's clipper also leaves the op-amps out.  *)
AsPair(c, Geq, I) == <<Resistor(c.a, c.b, One // Geq), CurrentSource(c.a, c.b, I)>>
Augmented(engine, nl, h, v) ==
  LET Kept(c) == ~IsNonlinear(c) /\ (engine = "nullor" \/ c.kind # "OpAmp")
      ds == All(nl, "Diode")
      Linearised(i) == LET c == nl.comps[i] k == LabCompanion(c, i, h)
                       IN  IF IsReactive(c) THEN AsPair(c, k.Geq, k.Ieq) ELSE IF Kept(c) THEN <<c>> ELSE <<>>
      OfDiode(d) == LET vAK == Orient(d, ds[1]) ** v s == Evaluate(vAK)
                    IN  AsPair(d, s.conductance, Neg(s.current -- (s.conductance ** vAK)))
  IN  [nl EXCEPT !.comps =
        FoldLeftDomain(LAMBDA acc, i : acc \o Linearised(i), <<>>, nl.comps)
          \o FoldLeft(LAMBDA acc, d : acc \o OfDiode(d), <<>>, ds)]

(* limitStep: each diode limits in its own frame, one after the other. *)
LimitStep(ds, vRaw, vOld) ==
  FoldLeft(LAMBDA v, d : LET o == Orient(d, ds[1]) IN o ** LimitJunctionVoltage(o ** v, o ** vOld), vRaw, ds)

PortTurned(ds, loop, s) ==
  LET port == LimitStep(ds, Volt(s.v, ds[1].a) -- Volt(s.v, ds[1].b), loop.port)
      settled == Magnitude(port -- loop.port) \prec VoltageTol
  IN  IF s.threw \/ ds = <<>>
      THEN [loop EXCEPT !.done = TRUE, !.threw = s.threw, !.converged = ~s.threw, !.v = s.v]
      ELSE [done |-> settled, threw |-> FALSE, converged |-> settled, v |-> s.v, port |-> port]
ClipperLoop(engine, nl, h) ==
  LET Turn(loop, n) ==
        IF loop.done THEN loop
        ELSE PortTurned(All(nl, "Diode"), loop, LabSolve(engine, Augmented(engine, nl, h, loop.port), h))
  IN  FoldLeft(Turn, [done |-> FALSE, threw |-> FALSE, converged |-> FALSE, v |-> NoVolts, port |-> h.port],
               [n \in 1..MaxIterations |-> n])

(* The diodes and the reactive elements collectPort finds: all on one      *)
(* port, and few enough for the augmented netlist.                         *)
OverCapacity(nl) ==
  LET ds == All(nl, "Diode")
  IN  Len(ds) > MaxDiodes \/ Len(nl.comps) + ReactiveCount(nl) + Len(ds) > MaxComponents + 2 * MaxDiodes
TransientRefuses(nl) == OffPort(All(nl, "Diode")) \/ OverCapacity(nl)
OpAmpClipperRefuses(nl) == OffPort(All(nl, "Diode")) \/ OverCapacity(nl)

(* A step that did not converge leaves the state as it was. *)
ClipperStep(refused, nl, h, loop) ==
  IF refused \/ loop.threw
  THEN [threw |-> TRUE, converged |-> FALSE, v |-> NoVolts, state |-> h]
  ELSE [threw |-> FALSE, converged |-> loop.converged, v |-> loop.v,
        state |-> IF loop.converged THEN [Advanced(nl, h, loop.v) EXCEPT !.port = loop.port] ELSE h]
TransientStep(nl, h, loop)    == ClipperStep(TransientRefuses(nl), nl, h, loop)
OpAmpClipperStep(nl, h, loop) == ClipperStep(OpAmpClipperRefuses(nl), nl, h, loop)

(* NewtonClipper::solve: two diodes at most and nothing reactive; the last *)
(* bias is kept as the next warm start whether or not the loop settled.    *)
NewtonClipperRefuses(nl) ==
  LET ds == All(nl, "Diode") IN ds = <<>> \/ Len(ds) > 2 \/ OffPort(ds) \/ ReactiveCount(nl) > 0
NewtonClipperStep(nl, h, loop) ==
  IF NewtonClipperRefuses(nl) \/ loop.threw
  THEN [threw |-> TRUE, converged |-> FALSE, v |-> NoVolts, state |-> h]
  ELSE [threw |-> FALSE, converged |-> loop.converged, v |-> loop.v, state |-> [h EXCEPT !.port = loop.port]]

(* The lab solver a circuit is meant for. *)
LabFor(nl) ==
  CASE Has(nl, "OpAmp") /\ Has(nl, "Diode") -> "opamp clipper"
    [] Has(nl, "OpAmp") /\ ~Has(nl, "Diode") -> "nullor"
    [] ~Has(nl, "OpAmp") /\ Has(nl, "Diode") -> IF ReactiveCount(nl) = 0 THEN "newton clipper" ELSE "transient clipper"
    [] OTHER -> "linear"

ClipperOf(lab, nl, h, loop) ==
  CASE lab = "newton clipper" -> NewtonClipperStep(nl, h, loop)
    [] lab = "transient clipper" -> TransientStep(nl, h, loop)
    [] lab = "opamp clipper" -> OpAmpClipperStep(nl, h, loop)
StepOf(lab, nl, h) ==
  IF lab \in {"linear", "nullor"} THEN Stepped(nl, h, LabSolve(lab, nl, h))
  ELSE ClipperOf(lab, nl, h, ClipperLoop(IF lab = "opamp clipper" THEN "nullor" ELSE "linear", nl, h))
=============================================================================
