---------------------------- MODULE CircuitBench -----------------------------
(***************************************************************************)
(* The circuit engine as its callers use it: one netlist, built by hand or *)
(* by a builder and rebuilt when a source or a component changes; one      *)
(* assembler and one system, shared by a Newton solver and a reactive      *)
(* integrator that each plan them and keep their own idea of the topology; *)
(* and the lab solver for the same circuit, stepped along with the         *)
(* integrator from rest.                                                   *)
(***************************************************************************)
EXTENDS CircuitEngine

CONSTANTS
  Circuits,        \* results of the builders a behaviour may start from
  Amplifies,       \* the voltage gain of those that are gain stages
  Parts,           \* components a netlist is built from by hand, in order
  HandNodes, HandParts,  \* capacities of the netlist built by hand
  Drives,          \* source values
  Seeds,           \* histories given to seedHistory
  Replacements,    \* components put in another's place
  MaxWork,         \* bound of the model: steps, drives, edits of a planned netlist
  Shared           \* whether a solver may be handed an assembler planned for another netlist

VARIABLES
  nl,              \* the netlist the next call is given
  circuit,         \* the builder's result it started from
  used,            \* how many of Parts were considered
  assembler, sys,  \* the shared objects
  newton, integrator,
  lab,             \* the lab solver's state, and whether it is still in step
  planFor,         \* GHOST: topology of the assembler's last plan
  last,            \* GHOST: the last solve, and the history it began with
  work

vars == <<nl, circuit, used, assembler, sys, newton, integrator, lab, planFor, last, work>>
objects == <<assembler, sys, newton, integrator, planFor>>

L == INSTANCE LabSolvers WITH MaxDiodes <- 4, MaxOpAmps <- 1

ByHand == [threw |-> FALSE, nl |-> EmptyNetlist, in |-> Ground, out |-> Ground]
PlanOf(state, sig) == [state |-> state, sig |-> sig]
Unplanned == PlanOf("none", <<>>)
Rejected == PlanOf("rejected", <<>>)   \* the last plan threw
Idle == [solved |-> FALSE, status |-> Unsolved, before |-> <<>>, v |-> L!NoVolts, labOk |-> FALSE]
Prepared == PrepareVerdict(nl) = "ok"

Init ==
  /\ circuit \in Circuits \cup {ByHand}
  /\ nl = circuit.nl
  /\ used = 0
  /\ assembler = FreshAssembler /\ sys = FreshSystem
  /\ newton = FreshNewton /\ integrator = FreshIntegrator
  /\ lab = [on |-> FALSE, state |-> L!AtRest]
  /\ planFor = Unplanned
  /\ last = Idle /\ work = 0

(* Building by hand: nodes first, then parts in their order. *)
AddNode ==
  /\ circuit = ByHand /\ nl.comps = <<>> /\ used = 0
  /\ nl' = WithNode(nl, HandNodes)
  /\ UNCHANGED <<circuit, used, objects, lab, last, work>>

AddPart ==
  /\ circuit = ByHand /\ planFor = Unplanned /\ used < Len(Parts)
  /\ \E i \in used + 1..Len(Parts) :
       /\ nl' = With(nl, Parts[i], HandParts)
       /\ used' = i
  /\ UNCHANGED <<circuit, objects, lab, last, work>>

(* plan() by either object, on a netlist prepare() let through. *)
PlanIntegrator ==
  LET p == IntegratorPlan(nl, sys, integrator)
  IN  /\ Prepared
      /\ integrator' = p.integrator /\ assembler' = p.assembler /\ sys' = p.sys
      /\ planFor' = IF p.threw THEN Rejected ELSE PlanOf("live", Signature(nl))
      /\ lab' = [on |-> ~p.threw, state |-> L!AtRest]
      /\ last' = Idle
      /\ UNCHANGED <<nl, circuit, used, newton, work>>

PlanNewton ==
  LET p == NewtonPlan(nl, sys)
  IN  /\ Prepared /\ nl.comps # <<>>
      /\ newton' = p.newton /\ assembler' = p.assembler /\ sys' = p.sys
      /\ planFor' = IF p.threw THEN Rejected ELSE PlanOf("live", Signature(nl))
      /\ last' = Idle
      /\ UNCHANGED <<nl, circuit, used, integrator, lab, work>>

(* Someone else plans the shared objects, for a netlist that differs from  *)
(* this one in its last component.                                         *)
PlanElsewhere ==
  /\ work < MaxWork /\ work' = work + 1
  /\ planFor \notin {Unplanned, Rejected}
  /\ \E c \in Replacements :
       LET other == [nl EXCEPT !.comps[Len(nl.comps)] = c]
           p == Plan(other, sys)
       IN  /\ PrepareVerdict(other) = "ok" /\ ~p.threw
           /\ assembler' = p.assembler /\ sys' = p.sys
           /\ planFor' = PlanOf("live", Signature(other))
  /\ last' = Idle
  /\ UNCHANGED <<nl, circuit, used, newton, integrator, lab>>

Reset ==
  /\ work > 0 /\ integrator.planned
  /\ integrator' = ResetIntegrator(integrator)
  /\ lab' = [on |-> TRUE, state |-> L!AtRest]
  /\ last' = Idle
  /\ UNCHANGED <<nl, circuit, used, assembler, sys, newton, planFor, work>>

Seed ==
  /\ work < MaxWork /\ work' = work + 1
  /\ \E s \in 1..Len(integrator.history) + 1, h \in Seeds :
       integrator' = SeedHistory(integrator, s, h)
  /\ lab' = [lab EXCEPT !.on = FALSE]
  /\ last' = Idle
  /\ UNCHANGED <<nl, circuit, used, assembler, sys, newton, planFor>>

(* A source's value changes between samples, the topology does not. *)
Drive ==
  /\ planFor \notin {Unplanned, Rejected}
  /\ \E i \in DOMAIN nl.comps, v \in Drives :
       /\ nl.comps[i].kind = "VoltageSource" /\ nl.comps[i].value # v
       /\ \A j \in 1..i - 1 : nl.comps[j].kind # "VoltageSource"
       /\ nl' = [nl EXCEPT !.comps[i].value = v]
  /\ last' = Idle
  /\ UNCHANGED <<circuit, used, objects, lab, work>>

(* The caller hands over a netlist with another component in its last slot. *)
Rewire ==
  /\ work < MaxWork /\ work' = work + 1
  /\ planFor \notin {Unplanned, Rejected}
  /\ \E c \in Replacements : nl' = [nl EXCEPT !.comps[Len(nl.comps)] = c]
  /\ last' = Idle
  /\ UNCHANGED <<circuit, used, objects, lab>>

(* The pairing the solvers require of their caller. *)
Paired(sig) == Shared \/ planFor = PlanOf("live", sig)

StepIntegrator ==
  /\ work < MaxWork /\ work' = work + 1
  /\ integrator.planned => Paired(integrator.sig) \/ (integrator.nonlinear /\ ~assembler.planned)
  /\ Signature(nl) = integrator.sig => Prepared
  /\ \E s \in {Step(nl, integrator, newton, assembler, sys)} :
     \E r \in {IF lab.on /\ s.status.converged THEN L!StepOf(L!LabFor(nl), nl, lab.state) ELSE L!Threw} :
       LET together == ~r.threw /\ r.converged
       IN  /\ integrator' = s.integrator /\ sys' = s.sys
           /\ lab' = IF together THEN [lab EXCEPT !.state = r.state] ELSE [lab EXCEPT !.on = FALSE]
           /\ last' = [solved |-> TRUE, status |-> s.status, before |-> integrator.history,
                       v |-> IF together THEN r.v ELSE L!NoVolts, labOk |-> together]
  /\ UNCHANGED <<nl, circuit, used, assembler, newton, planFor>>

(* Newton on its own, on a circuit without history. *)
SolveNewton ==
  /\ work < MaxWork /\ work' = work + 1
  /\ \A i \in DOMAIN nl.comps : ~IsReactive(nl.comps[i])
  /\ newton.planned => Paired(newton.sig) \/ ~assembler.planned
  /\ \E s \in {NewtonSolve(nl, Tuple(Len(nl.comps), LAMBDA i : Neutral), ZeroNodes, newton, assembler, sys)} :
       /\ sys' = s.sys
       /\ last' = [Idle EXCEPT !.solved = TRUE, !.status = s.status]
  /\ UNCHANGED <<nl, circuit, used, assembler, newton, integrator, lab, planFor>>

Next == \/ AddNode \/ AddPart \/ PlanIntegrator \/ PlanNewton \/ PlanElsewhere \/ Reset \/ Seed \/ Drive \/ Rewire
        \/ StepIntegrator \/ SolveNewton

Spec == Init /\ [][Next]_vars

---------------------------------------------------------------------------
TypeOK ==
  /\ nl.nodes \in 1..MaxNodes /\ Len(nl.comps) <= MaxComponents
  /\ assembler.planned \in BOOLEAN /\ assembler.branchOf \in [1..MaxComponents -> -1..MaxBranches - 1]
  /\ sys.branchCount \in 0..MaxBranches /\ sys.referenced \subseteq 1..MaxNodes - 1
  /\ \A u \in 1..Dim : IsRational(sys.x[u])
  /\ newton.planned \in BOOLEAN /\ integrator.planned \in BOOLEAN
  /\ Len(integrator.history) = Len(integrator.reactive)
  /\ last.status.iterations \in 0..MaxIterations /\ last.status.converged \in BOOLEAN

(* prepare() passes a netlist exactly when all its nodes exist, ground is  *)
(* touched, and every node is reached from ground over elements that       *)
(* conduct: the path-halving forest loses no edge and invents none.        *)
PrepareIsReachability ==
  LET used_ == {nl.comps[i] : i \in DOMAIN nl.comps}
  IN  Prepared <=>
        /\ \A c \in used_ : NodesOf(c) \subseteq 0..nl.nodes - 1
        /\ \E c \in used_ : Ground \in {c.a, c.b}
        /\ Reached(nl) = 0..nl.nodes - 1

Across(c) == NodeVoltage(sys, c.a) -- NodeVoltage(sys, c.b)
SlotOf(i) == CHOOSE s \in DOMAIN integrator.reactive : integrator.reactive[s] = i
NthBranch(i) == Cardinality({j \in 1..i - 1 : Branched(nl.comps[j])})

(* The current through component i, from its first terminal to its second; *)
(* an op-amp's leaves through its output.                                  *)
CurrentThrough(i) ==
  LET c == nl.comps[i]
  IN  CASE c.kind = "Resistor" -> Across(c) // c.value
        [] c.kind = "CurrentSource" -> Neg(c.value)
        [] c.kind = "Diode" -> Evaluate(Across(c)).current
        [] IsReactive(c) -> integrator.history[SlotOf(i)].i
        [] OTHER -> BranchCurrent(sys, NthBranch(i))

LeavingThrough(i, n) ==
  LET c == nl.comps[i]
      from == IF c.kind = "OpAmp" THEN c.out ELSE c.a
      to == IF c.kind = "OpAmp" THEN Ground ELSE c.b
  IN  (IF from = n THEN CurrentThrough(i) ELSE Zero) -- (IF to = n THEN CurrentThrough(i) ELSE Zero)

Balanced(n) == SumOver(LAMBDA i : LeavingThrough(i, n), [i \in DOMAIN nl.comps |-> i]) = Zero

Imposed(i) == LET c == nl.comps[i]
  IN  /\ c.kind = "VoltageSource" => Across(c) = c.value
      /\ c.kind = "OpAmp" => NodeVoltage(sys, c.a) = NodeVoltage(sys, c.b)

(* The discretised law of a capacitor or an inductor over one sample, from *)
(* (v, i) = was to now.                                                    *)
ObeysLaw(c, was, now) ==
  LET two == <<2, 1>>
      change == IF c.kind = "Capacitor" THEN c.value ** (now.v -- was.v) ELSE c.value ** (now.i -- was.i)
      driven == IF c.kind = "Capacitor" THEN now.i ELSE now.v
      earlier == IF c.kind = "Capacitor" THEN was.i ELSE was.v
  IN  IF Rule = "BackwardEuler" THEN Dt ** driven = change
      ELSE Dt ** (driven ++ earlier) = two ** change

(* An answer is the circuit's: after a solve that reports convergence the  *)
(* currents leaving every node add up to zero, every source holds its      *)
(* voltage, every op-amp's inputs meet, and each capacitor and inductor    *)
(* has moved from the history before the step to the one after it by its   *)
(* own law.  Nothing of this is read off the stamps.                       *)
AnswerObeysTheCircuit ==
  last.solved /\ last.status.converged =>
    /\ \A n \in 1..nl.nodes - 1 : Balanced(n)
    /\ \A i \in DOMAIN nl.comps : Imposed(i)
    /\ \A s \in DOMAIN last.before :
         LET c == nl.comps[integrator.reactive[s]]
         IN  /\ integrator.history[s].v = Across(c)
             /\ ObeysLaw(c, last.before[s], integrator.history[s])

(* A solve gives up on a circuit only when it has no unique answer: on a   *)
(* refusal the determinant of what was assembled is zero and every output  *)
(* reads zero; after an answer it is not.  The loop that ran out of        *)
(* iterations is neither.                                                  *)
RefusedOnlyIfSingular ==
  last.solved /\ last.status.iterations > 0 =>
    /\ last.status.converged => Determinant(sys) # Zero
    /\ ~last.status.converged /\ last.status.iterations < MaxIterations =>
         Determinant(sys) = Zero /\ sys.x = ZeroRow

(* Started from rest and given the same inputs, the engine and the lab     *)
(* solver written for that kind of circuit report the same voltages for as *)
(* long as both report any.                                                *)
LabAgrees ==
  last.labOk => \A n \in 1..nl.nodes - 1 : last.v[n] = NodeVoltage(sys, n)

(* A history is only ever replaced by a plan, a reset, a seed or an        *)
(* answer; a refused, unfinished or unplanned step leaves it untouched.    *)
HistoryStays == last'.solved /\ ~last'.status.converged => integrator' = integrator
HistoryWaitsForAnAnswer == [][HistoryStays]_vars

(* What a builder hands out can be used: valid values never make it throw, *)
(* no plan refuses the result, wherever the controls stand, a linear one   *)
(* is always answered, and a gain stage amplifies by exactly its ratio of  *)
(* resistors.                                                              *)
AsBuilt == \A i \in DOMAIN nl.comps : nl.comps[i].kind = "VoltageSource" \/ nl.comps[i] = circuit.nl.comps[i]
BuiltCircuitsPlay ==
  circuit # ByHand =>
    /\ ~circuit.threw
    /\ AsBuilt => planFor # Rejected
    /\ AsBuilt /\ last.solved /\ last.status.iterations > 0 =>
         /\ newton.diodes = <<>> => last.status.converged
         /\ last.status.converged /\ circuit \in DOMAIN Amplifies =>
              NodeVoltage(sys, circuit.out) = Amplifies[circuit] ** NodeVoltage(sys, circuit.in)
=============================================================================
