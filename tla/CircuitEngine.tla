---------------------------- MODULE CircuitEngine ----------------------------
(***************************************************************************)
(* core/primitives/circuit: the engine that answers for a netlist, in four *)
(* layers.  The augmented matrix, its stamps and its solve; the assembler  *)
(* that fills it; the Newton loop around the two for circuits with diodes; *)
(* and the integrator that advances a circuit by one sample.               *)
(***************************************************************************)
EXTENDS CircuitNetlist

CONSTANTS
  MaxNodes, MaxBranches, MaxComponents,   \* the capacities of the types
  MaxIterations,      \* maxIterations_
  VoltageTol,         \* voltageTol_
  Dt,                 \* dt_
  Rule                \* the policy: "BackwardEuler" or "Trapezoidal"

-----------------------------------------------------------------------------
(* mna/mna-system.h.  Rows are counted from 1: node n is row n, the branch *)
(* k (from 0) is row MaxNodes + 1 + k, and row MaxNodes is the slot no     *)
(* node and no branch uses.  The relative pivot gate is exact here: a      *)
(* column is refused when all its candidates are zero.                     *)

Dim == MaxNodes + MaxBranches
BranchRow(k) == MaxNodes + 1 + k

ZeroRow == Tuple(Dim, LAMBDA i : Zero)

(* One object.  reset() keeps branchCount, which only clearBranches() and  *)
(* addBranch() change.                                                     *)
FreshSystem == [a |-> Tuple(Dim, LAMBDA i : ZeroRow), z |-> ZeroRow, x |-> ZeroRow,
                referenced |-> {}, branchCount |-> 0]
ResetSystem(s) == [FreshSystem EXCEPT !.branchCount = s.branchCount]

Note(s, n) == IF n \in 1..MaxNodes - 1 THEN [s EXCEPT !.referenced = @ \cup {n}] ELSE s
Add(s, r, c, g) == [s EXCEPT !.a[r][c] = @ ++ g]

StampConductance(s, i, j, g) ==
  LET noted == Note(Note(s, i), j)
      onI   == IF i # Ground THEN Add(noted, i, i, g) ELSE noted
      onJ   == IF j # Ground THEN Add(onI, j, j, g) ELSE onI
  IN  IF Ground \in {i, j} THEN onJ ELSE Add(Add(onJ, i, j, Neg(g)), j, i, Neg(g))

StampRhsCurrent(s, n, i) ==
  IF n = Ground THEN s ELSE [Note(s, n) EXCEPT !.z[n] = @ ++ i]

StampBranchB(s, k, n, sign) == IF n = Ground THEN s ELSE Add(Note(s, n), n, BranchRow(k), sign)
StampBranchC(s, k, n, sign) == IF n = Ground THEN s ELSE Add(Note(s, n), BranchRow(k), n, sign)
StampBranchIncidence(s, k, p, n) ==
  StampBranchC(StampBranchC(StampBranchB(StampBranchB(s, k, p, One), k, n, Neg(One)),
                            k, p, One), k, n, Neg(One))
StampBranchValue(s, k, v) == [s EXCEPT !.z[BranchRow(k)] = v]
StampBranchResistance(s, k, r) == Add(s, BranchRow(k), BranchRow(k), Neg(r))

(* The rows of the compacted system: referenced nodes in order, then the   *)
(* branches.                                                               *)
Sources(s) ==
  SetToSortSeq(s.referenced, <) \o [k \in 1..s.branchCount |-> BranchRow(k - 1)]

(* A working row is its coefficients followed by its right-hand side. *)
Compacted(s) ==
  LET src == Sources(s)
      n == Len(src)
  IN  Tuple(n, LAMBDA r : Tuple(n + 1, LAMBDA c : IF c > n THEN s.z[src[r]] ELSE s.a[src[r]][src[c]]))

\* MUTANT of PivotRow: the diagonal, whatever it holds.
PivotDiagonal(work, col) == col
PivotRow(work, col) ==
  FoldLeft(LAMBDA best, r : IF Magnitude(work[best][col]) \prec Magnitude(work[r][col]) THEN r ELSE best,
           col, [i \in 1..Len(work) - col |-> col + i])

Swapped(work, i, j) == [work EXCEPT ![i] = work[j], ![j] = work[i]]

(* Forward elimination of one column; the empty system is the refusal. *)
Cleared(top, col) ==
  LET Factor(r) == top[r][col] // top[col][col]
      Row(r) == IF r <= col \/ top[r][col] = Zero THEN top[r]
                ELSE Tuple(Len(top) + 1, LAMBDA c : IF c < col THEN top[r][c]
                                                    ELSE top[r][c] -- (Factor(r) ** top[col][c]))
  IN  Tuple(Len(top), Row)
EliminateColumn(work, col) ==
  LET best == PivotRow(work, col)
  IN  IF work = <<>> \/ work[best][col] = Zero THEN <<>>
      ELSE Cleared(Swapped(work, col, best), col)

Eliminated(work) == FoldLeft(EliminateColumn, work, [c \in 1..Len(work) |-> c])

(* Back-substitution, last unknown first. *)
BackSubstituted(work) ==
  LET n == Len(work)
      Step(sol, r) ==     \* sol holds the unknowns r + 1 .. n
        <<(work[r][n + 1] -- SumOver(LAMBDA c : work[r][c] ** sol[c - r], [i \in 1..n - r |-> r + i]))
            // work[r][r]>> \o sol
  IN  FoldLeft(Step, <<>>, [i \in 1..n |-> n + 1 - i])

(* solve(): whether there is a solution, and the system with it scattered  *)
(* over the storage; every output is zero after a refusal.                 *)
Scattered(src, sol) ==
  Tuple(Dim, LAMBDA u : IF \E w \in DOMAIN src : src[w] = u
                        THEN sol[CHOOSE w \in DOMAIN src : src[w] = u] ELSE Zero)
Answer(s, src, work) ==
  IF src # <<>> /\ work = <<>>
  THEN [ok |-> FALSE, sys |-> [s EXCEPT !.x = ZeroRow]]
  ELSE [ok |-> TRUE, sys |-> [s EXCEPT !.x = Scattered(src, BackSubstituted(work))]]
Solved(s) == Answer(s, Sources(s), Eliminated(Compacted(s)))

NodeVoltage(s, n) == IF n = Ground THEN Zero ELSE s.x[n]
BranchCurrent(s, k) == s.x[BranchRow(k)]

(* A reference: the compacted system's determinant by expansion along the  *)
(* first row, on the sets of rows and columns left.                        *)
Determinant(s) ==
  LET m == Compacted(s)
      det[cols \in SUBSET (DOMAIN m)] ==
        LET r == Len(m) - Cardinality(cols) + 1
            Place(c) == Cardinality({d \in cols : d < c})
            Term(c) == IF m[r][c] = Zero THEN Zero
                       ELSE (IF Place(c) % 2 = 0 THEN m[r][c] ELSE Neg(m[r][c])) ** det[cols \ {c}]
        IN  IF cols = {} THEN One ELSE SumOver(Term, SetToSortSeq(cols, <))
  IN  det[DOMAIN m]

-----------------------------------------------------------------------------
(* The assembler.  plan() walks a netlist once, refuses what it cannot     *)
(* stamp and gives each voltage source and op-amp its branch; refresh()    *)
(* stamps every component through that map.  The two objects are records:  *)
(* the assembler's own, and the system whose branches it allocates.  An    *)
(* exception is the field threw, and leaves the objects as far as the loop *)
(* got.                                                                    *)

NoBranch == -1

FreshAssembler == [planned |-> FALSE, branchOf |-> Tuple(MaxComponents, LAMBDA i : 0)]

Branched(c) == c.kind \in {"VoltageSource", "OpAmp"}

Refused(c) ==
  \/ ~(NodesOf(c) \subseteq 0..MaxNodes - 1)
  \/ c.kind = "Resistor" /\ ~(Zero \prec c.value)
  \/ Branched(c) /\ c.a = c.b

\* MUTANT of PlanComponent: branches are allocated without asking for room.
PlanUnbounded(o, c, i) ==
  IF Refused(c) THEN [o EXCEPT !.threw = TRUE]
  ELSE [o EXCEPT !.assembler.branchOf[i] = IF Branched(c) THEN o.sys.branchCount ELSE NoBranch,
                 !.sys.branchCount = @ + (IF Branched(c) THEN 1 ELSE 0)]

PlanComponent(o, c, i) ==
  IF o.threw \/ Refused(c) \/ (Branched(c) /\ o.sys.branchCount >= MaxBranches)
  THEN [o EXCEPT !.threw = TRUE]
  ELSE IF Branched(c)
       THEN [o EXCEPT !.assembler.branchOf[i] = o.sys.branchCount, !.sys.branchCount = @ + 1]
       ELSE [o EXCEPT !.assembler.branchOf[i] = NoBranch]

Plan(nl, sys) ==
  LET start == [assembler |-> [planned |-> FALSE, branchOf |-> Tuple(MaxComponents, LAMBDA i : NoBranch)],
                sys |-> [sys EXCEPT !.branchCount = 0], threw |-> FALSE]
      end == FoldLeftDomain(LAMBDA o, i : PlanComponent(o, nl.comps[i], i), start, nl.comps)
  IN  [end EXCEPT !.assembler.planned = ~end.threw]

(* i(a, b) = Geq * (v(a) - v(b)) - Ieq: the conductance, and the history   *)
(* current into a and out of b.                                            *)
StampCompanion(s, c, companion) ==
  StampRhsCurrent(StampRhsCurrent(StampConductance(s, c.a, c.b, companion.Geq),
                                  c.a, companion.Ieq), c.b, Neg(companion.Ieq))

StampComponent(s, c, branch, companion) ==
  CASE c.kind = "Resistor" -> StampConductance(s, c.a, c.b, One // c.value)
    [] c.kind = "CurrentSource" -> StampRhsCurrent(StampRhsCurrent(s, c.a, c.value), c.b, Neg(c.value))
    [] c.kind = "VoltageSource" -> StampBranchValue(StampBranchIncidence(s, branch, c.a, c.b), branch, c.value)
    [] c.kind = "OpAmp" ->
         StampBranchValue(StampBranchC(StampBranchC(StampBranchB(s, branch, c.out, One),
                                                    branch, c.a, One), branch, c.b, Neg(One)),
                          branch, Zero)
    [] OTHER -> StampCompanion(s, c, companion)

(* refresh(): companions is the supply's at(). *)
Refresh(nl, companions, assembler, sys) ==
  FoldLeftDomain(LAMBDA s, i : StampComponent(s, nl.comps[i], assembler.branchOf[i], companions[i]),
                 ResetSystem(sys), nl.comps)

-----------------------------------------------------------------------------
(* newton/newton-solver.h and models/diode.h: the loop that turns each     *)
(* diode into a companion at its current bias, solves the whole system,    *)
(* damps the new biases and repeats until none moved.  The exponential law *)
(* and its logarithmic limiter are replaced by a law of straight pieces    *)
(* (increasing and convex, zero at zero) and by an integer logarithm, so   *)
(* that an iterate is exact; the guards, the order of the loop and every   *)
(* way out of it are the code's.                                           *)

(* The abstract junction: slope 1/4 up to zero volts, 1 up to one volt,    *)
(* then 4.  Its critical voltage is 1, its scaling voltage 1/2.            *)
Vte == <<1, 2>>
Vcrit == One
Evaluate(v) ==
  CASE v \prec Zero -> [conductance |-> <<1, 4>>, current |-> v ** <<1, 4>>]
    [] ~(v \prec Zero) /\ v \prec One -> [conductance |-> One, current |-> v]
    [] OTHER -> [conductance |-> <<4, 1>>, current |-> (<<4, 1>> ** v) -- <<3, 1>>]

(* The largest k with 2^k <= q, for q >= 1: the limiter's logarithm. *)
Log(q) == CHOOSE k \in 0..20 : 2^k * q[2] <= q[1] /\ 2^(k + 1) * q[2] > q[1]

LimitJunctionVoltage(vNew, vOld) ==
  LET arg == One ++ ((vNew -- vOld) // Vte)
  IN  IF ~(Vcrit \prec vNew /\ (Vte ++ Vte) \prec Magnitude(vNew -- vOld)) THEN vNew
      ELSE IF Zero \prec vOld
           THEN IF Zero \prec arg THEN vOld ++ (Vte ** Int2Rat(Log(arg))) ELSE Vcrit
           ELSE Vte ** Int2Rat(Log(vNew // Vte))

FreshNewton == [planned |-> FALSE, diodes |-> <<>>, sig |-> <<>>]

(* plan(): disarmed before the assembler's plan may throw.  The objects it *)
(* leaves: its own, the assembler, the system.                             *)
NewtonPlan(nl, sys) ==
  LET p == Plan(nl, sys)
      diodes == SelectSeq([i \in DOMAIN nl.comps |-> i], LAMBDA i : IsNonlinear(nl.comps[i]))
      \* validateDiode refuses only after the assembler's plan has taken hold
      degenerate == \E d \in DOMAIN diodes : ~(Zero \prec nl.comps[diodes[d]].value)
  IN  [newton |-> IF p.threw \/ degenerate THEN FreshNewton
                  ELSE [planned |-> TRUE, diodes |-> diodes, sig |-> Signature(nl)],
       assembler |-> p.assembler, sys |-> p.sys, threw |-> p.threw \/ degenerate]

Unsolved == [converged |-> FALSE, iterations |-> 0, residual |-> Zero]

(* One iteration from the biases it starts with: the diodes' companions    *)
(* over the base supply, one solve, and the damped new biases.             *)
Damped(nl, bias, solved) ==
  LET Raw(i) == NodeVoltage(solved.sys, nl.comps[i].a) -- NodeVoltage(solved.sys, nl.comps[i].b)
  IN  [ok |-> solved.ok, sys |-> solved.sys,
       bias |-> [i \in DOMAIN bias |-> LimitJunctionVoltage(Raw(i), bias[i])]]
Iteration(nl, base, newton, assembler, sys, bias) ==
  LET Companion(i) ==
        IF i \notin DOMAIN bias THEN base[i]
        ELSE LET s == Evaluate(bias[i])
             IN  [Geq |-> s.conductance, Ieq |-> (s.conductance ** bias[i]) -- s.current]
  IN  Damped(nl, bias, Solved(Refresh(nl, Tuple(Len(nl.comps), Companion), assembler, sys)))

Larger(p, q) == IF p \prec q THEN q ELSE p
Moved(diodes, from, to) ==
  FoldLeft(LAMBDA m, i : Larger(m, Magnitude(to[i] -- from[i])), Zero, diodes)

(* The loop.  A singular system ends it with the outputs zeroed; the bound *)
(* ends it with the last iterate in the system.                            *)
Turned(diodes, loop, n, it) ==
  LET moved == Moved(diodes, loop.bias, it.bias)
  IN  IF ~it.ok THEN [loop EXCEPT !.done = TRUE, !.sys = it.sys, !.status.iterations = n]
      ELSE [done |-> moved \prec VoltageTol, sys |-> it.sys, bias |-> it.bias,
            status |-> [converged |-> moved \prec VoltageTol, iterations |-> n, residual |-> moved]]
Iterate(nl, base, newton, assembler, sys, seed) ==
  LET Turn(loop, n) ==
        IF loop.done THEN loop
        ELSE Turned(newton.diodes, loop, n, Iteration(nl, base, newton, assembler, loop.sys, loop.bias))
  IN  FoldLeft(Turn, [done |-> FALSE, sys |-> sys, bias |-> seed, status |-> Unsolved],
               [n \in 1..MaxIterations |-> n])

(* solve(): the guards by value, the biases seeded from the guess with the *)
(* ground entry ignored and the limiter applied, then the loop.            *)
NewtonSolve(nl, base, guess, newton, assembler, sys) ==
  LET At(n) == IF n = Ground THEN Zero ELSE guess[n]
      diodes == {newton.diodes[d] : d \in DOMAIN newton.diodes}
      seed == [i \in diodes |-> LimitJunctionVoltage(At(nl.comps[i].a) -- At(nl.comps[i].b), Zero)]
      Result(loop) == [status |-> loop.status, sys |-> loop.sys]
  IN  IF ~newton.planned \/ ~assembler.planned \/ Signature(nl) # newton.sig
      THEN [status |-> Unsolved, sys |-> sys]
      ELSE Result(Iterate(nl, base, newton, assembler, sys, seed))

-----------------------------------------------------------------------------
(* integration: the driver.  The history of each capacitor and inductor    *)
(* becomes a companion once per step; one solve, or one Newton loop when   *)
(* the circuit has diodes; and the history advances from the answer,       *)
(* unless there is none.                                                   *)

CapacitorCompanion(C, h) ==
  IF Rule = "BackwardEuler"
  THEN [Geq |-> C // Dt, Ieq |-> (C // Dt) ** h.v]
  ELSE LET Geq == (<<2, 1>> ** C) // Dt IN [Geq |-> Geq, Ieq |-> (Geq ** h.v) ++ h.i]

InductorCompanion(L, h) ==
  IF Rule = "BackwardEuler"
  THEN [Geq |-> Dt // L, Ieq |-> Neg(h.i)]
  ELSE LET Geq == Dt // (<<2, 1>> ** L) IN [Geq |-> Geq, Ieq |-> Neg(h.i ++ (Geq ** h.v))]

ReactiveCompanion(c, h) ==
  IF c.kind = "Capacitor" THEN CapacitorCompanion(c.value, h) ELSE InductorCompanion(c.value, h)

NoHistory == [v |-> Zero, i |-> Zero]
Neutral == [Geq |-> Zero, Ieq |-> Zero]
ZeroNodes == Tuple(MaxNodes - 1, LAMBDA n : Zero)

FreshIntegrator == [planned |-> FALSE, reactive |-> <<>>, nonlinear |-> FALSE, sig |-> <<>>,
                    history |-> <<>>, warmStart |-> ZeroNodes]

(* reset(): the plan stays. *)
ResetIntegrator(g) ==
  [g EXCEPT !.history = Tuple(Len(g.reactive), LAMBDA s : NoHistory), !.warmStart = ZeroNodes]

(* plan(): like Newton's, disarmed while the assembler's plan may throw.   *)
IntegratorPlan(nl, sys, g) ==
  LET p == Plan(nl, sys)
      reactive == SelectSeq([i \in DOMAIN nl.comps |-> i], LAMBDA i : IsReactive(nl.comps[i]))
      scanned == [planned |-> TRUE, reactive |-> reactive,
                  nonlinear |-> \E i \in DOMAIN nl.comps : IsNonlinear(nl.comps[i]),
                  sig |-> Signature(nl), history |-> <<>>, warmStart |-> ZeroNodes]
  IN  [integrator |-> IF p.threw THEN [FreshIntegrator EXCEPT !.warmStart = g.warmStart]
                      ELSE ResetIntegrator(scanned),
       assembler |-> p.assembler, sys |-> p.sys, threw |-> p.threw]

(* seedHistory(): slots out of range are ignored. *)
SeedHistory(g, slot, h) == IF slot \in DOMAIN g.history THEN [g EXCEPT !.history[slot] = h] ELSE g

(* computeReactiveCompanions, as the supply's at() returns them. *)
Companions(nl, g) ==
  Tuple(Len(nl.comps), LAMBDA i :
    IF \E s \in DOMAIN g.reactive : g.reactive[s] = i
    THEN ReactiveCompanion(nl.comps[i], g.history[CHOOSE s \in DOMAIN g.reactive : g.reactive[s] = i])
    ELSE Neutral)

\* MUTANT of AdvanceHistory: the current is read off the conductance alone.
AdvanceResistive(nl, g, companions, sys) ==
  LET Next(s) ==
        LET i == g.reactive[s]
            v == NodeVoltage(sys, nl.comps[i].a) -- NodeVoltage(sys, nl.comps[i].b)
        IN  [v |-> v, i |-> companions[i].Geq ** v]
  IN  [g EXCEPT !.history = Tuple(Len(g.history), Next)]

AdvanceHistory(nl, g, companions, sys) ==
  LET Next(s) ==
        LET i == g.reactive[s]
            v == NodeVoltage(sys, nl.comps[i].a) -- NodeVoltage(sys, nl.comps[i].b)
        IN  [v |-> v, i |-> (companions[i].Geq ** v) -- companions[i].Ieq]
  IN  [g EXCEPT !.history = Tuple(Len(g.history), Next),
                !.warmStart = Tuple(MaxNodes - 1, LAMBDA n : NodeVoltage(sys, n))]

(* The one solve of a linear circuit, or the Newton loop. *)
Direct(solved) ==
  [status |-> [converged |-> solved.ok, iterations |-> 1, residual |-> Zero], sys |-> solved.sys]
StepAnswer(nl, g, companions, newton, assembler, sys) ==
  IF g.nonlinear THEN NewtonSolve(nl, companions, g.warmStart, newton, assembler, sys)
  ELSE Direct(Solved(Refresh(nl, companions, assembler, sys)))

\* MUTANT of Returned: the last iterate advances the history, an answer or not.
ReturnedEager(nl, g, companions, answer) ==
  [status |-> answer.status, sys |-> answer.sys,
   integrator |-> AdvanceHistory(nl, g, companions, answer.sys)]

(* step(): what it returns, and the integrator and the system it leaves. *)
Returned(nl, g, companions, answer) ==
  [status |-> answer.status, sys |-> answer.sys,
   integrator |-> IF answer.status.converged THEN AdvanceHistory(nl, g, companions, answer.sys) ELSE g]

Step(nl, g, newton, assembler, sys) ==
  LET companions == Companions(nl, g)
  IN  IF ~g.planned \/ Signature(nl) # g.sig
      THEN [status |-> Unsolved, integrator |-> g, sys |-> sys]
      ELSE Returned(nl, g, companions, StepAnswer(nl, g, companions, newton, assembler, sys))
=============================================================================
