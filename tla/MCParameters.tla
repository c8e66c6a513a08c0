---------------------------- MODULE MCParameters ----------------------------
(***************************************************************************)
(* The two ways a parameter reaches an effect, in one run: the atomics of  *)
(* ParamHandoff and the board's ParameterPath.  Both are EXTENDed: their   *)
(* theorems name the same definitions.  A behaviour picks one of them and  *)
(* takes that one's steps only, so the state space is the sum of theirs.   *)
(***************************************************************************)
EXTENDS ParamHandoff, ParameterPath, TLC

VARIABLE part    \* the one that runs

\* An effect of two parameters; CC 76 is bound to parameter 19, which SvfEffect
\* does not have.
SvfBinding == (74 :> 0) @@ (71 :> 1) @@ (76 :> 19)

ParametersInit == part \in {"handoff", "path"} /\ Init /\ PathInit

ParametersNext ==
  /\ UNCHANGED part
  /\ \/ part = "handoff" /\ Next /\ UNCHANGED pathVars
     \/ part = "path" /\ PathNext /\ UNCHANGED vars

\* The fairness of ParamHandoff!FairSpec; the path has no liveness property.
ParametersSpec ==
  /\ ParametersInit /\ [][ParametersNext]_<<part, vars, pathVars>>
  /\ WF_vars(part = "handoff" /\ Callback /\ UNCHANGED <<part, pathVars>>)
  /\ \A t \in Threads : WF_vars(part = "handoff" /\ Store(t) /\ UNCHANGED <<part, pathVars>>)

-----------------------------------------------------------------------------
(* The other properties are those of the two modules.                      *)

\* Both keep their types and the bounds of their buffers.
ParametersTypeOK == TypeOK /\ PathTypeOK
=============================================================================
