------------------------------- MODULE MCRings -------------------------------
(***************************************************************************)
(* The two ring buffers, and a stream through two of them, in one run: a   *)
(* behaviour picks one part and takes that part's steps only, so the state *)
(* space is the sum of theirs.  All are EXTENDed: the run checks the       *)
(* definitions their theorems name.  The probe is a three-slot ring,       *)
(* pushed to in blocks of one and two samples that lap it, drained in two  *)
(* attempts, copies in program order.  The stream is six frames of 16 bit, *)
(* in blocks of two and packets of three.                                  *)
(***************************************************************************)
EXTENDS AudioRing, CaptureProbe, NucleoTransport

VARIABLE part           \* the one that runs

\* The idle ones stay in one of their initial states.
RingsInit ==
  /\ part \in {"ring", "probe", "stream"}
  /\ Init /\ (part # "ring" => startupFill = Capacity)
  /\ ProbeInit
  /\ TransportInit

RingsNext ==
  /\ UNCHANGED part
  /\ \/ part = "ring" /\ Next
     \/ part # "ring" /\ UNCHANGED vars
  /\ \/ part = "probe" /\ ProbeNext
     \/ part # "probe" /\ UNCHANGED probeVars
  /\ \/ part = "stream" /\ TransportNext
     \/ part # "stream" /\ UNCHANGED transportVars

ringsVars == <<part, vars, probeVars, transportVars>>

\* The fairness of the stream is FairTransport's.
Streaming == part = "stream" /\ UNCHANGED <<part, vars, probeVars>>
RingsSpec ==
  /\ RingsInit /\ [][RingsNext]_ringsVars
  /\ WF_ringsVars(Streaming /\ Loop) /\ WF_ringsVars(Streaming /\ TakeFrame)

\* All keep their types and ranges.
RingsTypeOK == TypeOK /\ ProbeTypeOK /\ TransportTypeOK

\* A stream is played to its end.
StreamDrains == part = "stream" => Drains
=============================================================================
