-------------------------- MODULE HarmonicDisplay --------------------------
(***************************************************************************)
(* The live harmonic readout of the two desktop hosts: the audio thread    *)
(* pushes blocks into the capture probe, a timer on the message thread     *)
(* drains one window at a time and analyses it at the rate it believes.    *)
(* The workbench tells its display the rate; the plugin's editor, which    *)
(* comes and goes, asks for it at every tick, then drains.                 *)
(*                                                                         *)
(* Audio is the sample rate it was captured at, in units the window and    *)
(* the ring are multiples of.  The probe's races are CaptureProbe's.       *)
(***************************************************************************)
EXTENDS Integers, Sequences, SequencesExt

CONSTANTS
  Rates,        \* the sample rates a device may run at
  FirstRate,    \* what both hosts assume before the first prepareToPlay
  Window, Capacity,
  MaxPrepares   \* model bound: device restarts

DisplayConstants ==
  /\ FirstRate \in Rates /\ MaxPrepares \in Nat
  /\ Window \in Nat \ {0} /\ Capacity \in Nat /\ Capacity >= Window
ASSUME DisplayAssumption == DisplayConstants

VARIABLES
  host,         \* "workbench" or "plugin"
  open,         \* is there a display? (the workbench's is permanent)
  deviceRate,
  ring,         \* what the probe holds, oldest first
  readout,      \* LiveReadout: [rate, result], result is what the window held or NoResult
  pulled,       \* the plugin's timer has asked for the rate and not yet drained
  fresh,        \* GHOST: results computed since the device last changed its rate
  prepares

displayVars == <<host, open, deviceRate, ring, readout, pulled, fresh, prepares>>

NoResult == [computed |-> FALSE, of |-> {}]
Newest(n, s) == SubSeq(s, IF Len(s) > n THEN Len(s) - n + 1 ELSE 1, Len(s))

\* MUTANT of rebuildReadout: the new rate is taken and the old result kept.
KeptReadout(rate) == [rate |-> rate, result |-> readout.result]

\* A new LiveReadout has no result; the ring is left as it is.
rebuildReadout(rate) == [rate |-> rate, result |-> NoResult]

\* prepareToPlay: the workbench rebuilds at once; the plugin only publishes the rate.
newRate(rate) ==
  /\ prepares < MaxPrepares /\ prepares' = prepares + 1
  /\ deviceRate' = rate /\ fresh' = 0
  /\ readout' = IF host = "workbench" THEN rebuildReadout(rate) ELSE readout
  /\ UNCHANGED <<host, open, ring, pulled>>

Pushed == Newest(Capacity, Append(ring, deviceRate))

push == ring' = Pushed /\ UNCHANGED <<host, open, deviceRate, readout, pulled, fresh, prepares>>

\* Dialling another fundamental rebuilds the readout.
setFundamental ==
  /\ open /\ readout' = rebuildReadout(readout.rate)
  /\ UNCHANGED <<host, open, deviceRate, ring, pulled, fresh, prepares>>

openEditor ==
  /\ host = "plugin" /\ ~open /\ open' = TRUE
  /\ readout' = rebuildReadout(deviceRate)
  /\ UNCHANGED <<host, deviceRate, ring, pulled, fresh, prepares>>

closeEditor ==
  /\ host = "plugin" /\ open /\ ~pulled /\ open' = FALSE
  /\ readout' = rebuildReadout(deviceRate)
  /\ UNCHANGED <<host, deviceRate, ring, pulled, fresh, prepares>>

\* The plugin's timerCallback, as far as the rate.
pullRate ==
  /\ host = "plugin" /\ open /\ ~pulled /\ pulled' = TRUE
  /\ readout' = IF deviceRate # readout.rate THEN rebuildReadout(deviceRate) ELSE readout
  /\ UNCHANGED <<host, open, deviceRate, ring, fresh, prepares>>

\* MUTANT of Drained: the window is analysed and left in the ring.
Peeked == ring

Drained == SubSeq(ring, Window + 1, Len(ring))

\* update(): a full window is drained and analysed, a shorter one left to grow.
update ==
  /\ open /\ (host = "plugin" => pulled) /\ pulled' = FALSE
  /\ IF Len(ring) < Window THEN UNCHANGED <<ring, readout, fresh>>
     ELSE /\ readout' = [readout EXCEPT !.result =
                           [computed |-> TRUE, of |-> ToSet(SubSeq(ring, 1, Window))]]
          /\ ring' = Drained
          /\ fresh' = IF fresh < Capacity THEN fresh + 1 ELSE fresh
  /\ UNCHANGED <<host, open, deviceRate, prepares>>

DisplayInit ==
  /\ host \in {"workbench", "plugin"} /\ open = (host = "workbench")
  /\ deviceRate = FirstRate /\ ring = <<>> /\ readout = [rate |-> FirstRate, result |-> NoResult]
  /\ pulled = FALSE /\ fresh = 0 /\ prepares = 0

DisplayNext ==
  \/ \E rate \in Rates : newRate(rate)
  \/ push \/ setFundamental \/ openEditor \/ closeEditor \/ pullRate \/ update

DisplaySpec == DisplayInit /\ [][DisplayNext]_displayVars

---------------------------------------------------------------------------
(* Properties.                                                             *)

\* What a device change leaves in the ring is analysed at the wrong rate, but
\* not for long: from the third result on, and in any display that was rebuilt
\* since and shows one, the samples and the rate are the device's
\* (harmonic-readout.cpp:39-60, plugin-editor.cpp:69-83).
StaleAgesOut ==
  readout.result.computed /\ fresh * Window >= Capacity + Window =>
    readout.result.of = {deviceRate} /\ readout.rate = deviceRate

\* The workbench never shows a result computed for another rate, even before
\* the samples have aged out (harmonic-readout.cpp:42-46).
ResultIsOfItsRate ==
  host = "workbench" => readout.rate = deviceRate /\ (fresh = 0 => ~readout.result.computed)

\* The readout shows a window of the device's rate, analysed at that rate, but
\* for the two results a device change can spoil (harmonic-readout.cpp:42-66).
ReadoutIsTheDevices == StaleAgesOut /\ ResultIsOfItsRate
=============================================================================
