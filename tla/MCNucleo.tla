------------------------------ MODULE MCNucleo ------------------------------
(***************************************************************************)
(* The service loop of the Nucleo adapter under the host's changes of      *)
(* setting, in one run.  A behaviour picks a part and takes that part's    *)
(* steps only: either stream may be opened and closed, with both formats,  *)
(* the latches and no bus reset, which is the module this one EXTENDS; or  *)
(* one format, with bus resets, which is an instance of it.  The two share *)
(* all variables but the one that tells what a ring owes.                  *)
(***************************************************************************)
EXTENDS UsbLifecycle

VARIABLES
  part,
  debt       \* the duplex part's owed

nucleoVars == <<part, vars, debt>>

\* One format and bus resets.
Duplex == INSTANCE UsbLifecycle WITH
            CountLimit <- 0, Alts <- {1}, CleanSwitch <- TRUE, BusResets <- TRUE,
            owed <- debt

ASSUME NucleoAssumption == Duplex!LifecycleConstants

\* A part that does not run stays in its initial state.
NucleoInit ==
  /\ part \in {"lifecycle", "duplex"}
  /\ Init /\ debt = {}

---------------------------------------------------------------------------
(* A step of one part leaves the ledger of the other alone.                *)

Reconciling == part = "lifecycle" /\ UNCHANGED <<part, debt>>
BothWays    == part = "duplex" /\ UNCHANGED <<part, owed>>

NucleoNext ==
  \/ Reconciling /\ Next
  \/ BothWays /\ Duplex!Next

NucleoSpec == NucleoInit /\ [][NucleoNext]_nucleoVars

\* The fairness each part has in its module.  The loop never blocks, and only its
\* steps move the turn: it is fair just if the turn moves for ever.  As the part
\* does not change, weak fairness of a disjunction is that of the running part.
TheLoopGoesOn == []<><<turn' # turn>>_nucleoVars
TheHostTakes ==
  \/ Reconciling /\ TakePayload(1)
  \/ BothWays /\ Duplex!TakePayload(1)
TheHostSends ==
  \/ Reconciling /\ SendPayload(1)
  \/ BothWays /\ Duplex!SendPayload(1)

FairNucleo ==
  /\ NucleoSpec
  /\ TheLoopGoesOn
  /\ WF_nucleoVars(TheHostTakes) /\ WF_nucleoVars(TheHostSends)

---------------------------------------------------------------------------
(* The properties are those of UsbLifecycle.  Its types and what the rings *)
(* hold are the same for both parts.                                       *)

\* Streams settle: they come back after whatever the host has done to them.
StreamsSettle ==
  /\ part = "lifecycle" => CaptureIsServed
  /\ part = "duplex" => Duplex!DuplexStreamsAgain
=============================================================================
