------------------------------ MODULE MCBoard ------------------------------
(***************************************************************************)
(* The board in one run: the boot, the enumeration, the telemetry, and the *)
(* service loop with one stream each way under the host's clock.  A        *)
(* behaviour picks a part and takes that part's steps only.                *)
(***************************************************************************)
EXTENDS UsbEnumeration, BoardBoot, Diagnostics, PacedTransport

VARIABLE part

boardVars == <<part, enumerationVars, bootVars, diagnosticsVars, pacedVars>>

\* Packets a twelfth of their real size.  48 kHz: 48 frames in every packet, and
\* flow control uses [47, 48, 49]; 44.1 kHz: 44 and now and then 45, [44, 44, 45].
Rate48    == [out |-> <<4>>, in |-> <<3, 4, 5>>]
Rate44    == [out |-> <<3, 4, 3, 4, 4>>, in |-> <<3, 3, 4>>]
BothRates == {Rate48, Rate44}

ASSUME EnumerationAssumption == EnumerationConstants
ASSUME StreamAssumption == LoopConstants /\ PacedConstants /\ RoomyConstants

\* A part that does not run stays in one of its initial states.
BoardInit ==
  /\ part \in {"enumeration", "boot", "telemetry", "stream"}
  /\ EnumerationInit
  /\ BootInit /\ (part # "boot" => broken = {} /\ reg = ResetRegisters)
  /\ DiagnosticsInit /\ (part # "telemetry" => ticking)
  /\ PacedInit /\ (part # "stream" => rate = (CHOOSE r \in Rates : TRUE) /\ first = "OUT")

Enumerating == part = "enumeration" /\ UNCHANGED <<part, bootVars, diagnosticsVars, pacedVars>>
Booting     == part = "boot" /\ UNCHANGED <<part, enumerationVars, diagnosticsVars, pacedVars>>
Reporting   == part = "telemetry" /\ UNCHANGED <<part, enumerationVars, bootVars, pacedVars>>
Pacing      == part = "stream" /\ UNCHANGED <<part, enumerationVars, bootVars, diagnosticsVars>>

BoardNext ==
  \/ Enumerating /\ EnumerationNext
  \/ Booting /\ BootNext
  \/ Reporting /\ DiagnosticsNext
  \/ Pacing /\ PacedNext

BoardSpec == BoardInit /\ [][BoardNext]_boardVars

\* The fairness each part has in its module: the part does not change, so weak
\* fairness of such a disjunction is weak fairness of the running part's action.
TheProgram ==
  \/ Enumerating /\ EnumerationProgress
  \/ Booting /\ BootStep
  \/ Reporting /\ EnableBlockTimer
  \/ Pacing /\ PacedLoop
TheHost ==
  \/ Enumerating /\ ReceiveString
  \/ Reporting /\ HostReads
  \/ Pacing /\ NewFrame

FairBoard ==
  /\ BoardSpec
  /\ WF_boardVars(TheProgram) /\ WF_boardVars(TheHost)
  /\ WF_boardVars(Reporting /\ ServiceDiagnostics)
  /\ WF_boardVars(Pacing /\ \E extra \in -1..1 : OutTransaction(extra))
  /\ WF_boardVars(Pacing /\ \E size \in FlowControl : InTransaction(size))

---------------------------------------------------------------------------
(* Properties of the parts.  What the boot, the telemetry and the stream   *)
(* promise is stated in their modules: BoardComesUpWhole,                  *)
(* TelemetryIsHonest, PaceIsKept.                                          *)

\* Every part keeps its types and ranges.
BoardTypeOK == EnumerationTypeOK /\ BootTypeOK /\ DiagnosticsTypeOK

\* What the host has bound is what the device opened, with the memory it takes,
\* and both go by the same strings, rate and format.
EnumerationIsRight == EveryFunctionOpens /\ StringsArrive /\ HostAndDeviceAgree

\* The board gets there: the boot ends, the enumeration finishes, records go on
\* arriving, and a stream flows and stops underrunning at the host's pace.
BoardSettles ==
  /\ part = "boot" => BootEnds
  /\ part = "enumeration" => EnumerationFinishes
  /\ part = "telemetry" => RecordsGoOn
  /\ part = "stream" => EventuallyFlows /\ UnderrunsCease
=============================================================================
