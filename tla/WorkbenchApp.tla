---------------------------- MODULE WorkbenchApp ----------------------------
(***************************************************************************)
(* The desktop workbench (adapters/workbench): which source it plays, what *)
(* it keeps in its settings file, and what the audio callback plays.  The  *)
(* message thread owns everything but the callback; a device that is       *)
(* opened, in place of another or in another format, stops the callback,   *)
(* calls prepareToPlay and starts it again.                                *)
(*                                                                         *)
(* Files appear, disappear and go bad under the program; devices are       *)
(* plugged and unplugged; the program is quit, or killed between any two   *)
(* handlers.  A file's contents are its length; audio is where it is from. *)
(***************************************************************************)
EXTENDS Integers

CONSTANTS
  Files, Devices, None,
  Inputless,     \* the devices without input channels
  Length,        \* Length[f]: samples in file f
  BlockSize,     \* samples per callback
  Start,         \* the files and settings of the first launch
  MaxUpsets      \* model bound: files and devices that change under the program

\* What parse() makes of the settings file: live has no path, a file has one.
Live == [mode |-> "live", filePath |-> None]
OfFile(f) == [mode |-> "file", filePath |-> f]
SourceConfigs == {Live} \cup {OfFile(f) : f \in Files}

WorkbenchConstants ==
  /\ Inputless \subseteq Devices /\ None \notin Files \cup Devices
  /\ Files \cap {"nothing", "silence", "live"} = {}      \* what else can be heard
  /\ Length \in [Files -> Nat \ {0}] /\ BlockSize \in Nat \ {0} /\ MaxUpsets \in Nat
  /\ Start.disk \in [Files -> {"absent", "corrupt", "good"}]
  /\ Start.settings \in [readable : BOOLEAN, device : Devices \cup {None}, source : SourceConfigs]
ASSUME WorkbenchAssumption == WorkbenchConstants

VARIABLES
  disk,          \* disk[f]: "absent", "corrupt" or "good"
  plugged,       \* the devices there are
  settings,      \* the settings file: [readable, device, source]
  chosen,        \* EXTERNAL, JUCE's device manager: the device the operator or the restored state asked for
  active,        \* EXTERNAL: the open device
  lastOpen,      \* EXTERNAL, the manager's setup: the device it opened last
  running, mode, sourceFile,
  source,        \* WorkbenchAudioSource: [configured, hasFile, live, fileBuffer, playPos]
  sourceReady,
  opened,        \* GHOST: the selection when the stream was last prepared
  preferred,     \* [state, name]: preferredDeviceState_ and the device names kept beside it
  missingSavedFile,
  heard,         \* the last block since the stream (re)started: [from, first]
  touched,       \* GHOST: has the operator picked a source since the launch?
  upsets

session == <<running, mode, sourceFile, source, sourceReady, opened, preferred, missingSavedFile,
             heard, touched>>
stream == <<source, sourceReady, opened, heard>>
world == <<disk, plugged, chosen, active, lastOpen>>
appVars == <<disk, plugged, settings, chosen, active, lastOpen, running, mode, sourceFile, source,
             sourceReady, opened, preferred, missingSavedFile, heard, touched, upsets>>

\* A file source without a path is not one: it reads and writes as live.
serialize(cfg) == IF cfg.mode = "file" /\ cfg.filePath # None THEN cfg ELSE Live

NoSource == [configured |-> FALSE, hasFile |-> FALSE, live |-> FALSE, fileBuffer |-> None, playPos |-> 0]
Nothing == [from |-> "nothing", first |-> 0]
Inputs(d) == IF d = None \/ d \in Inputless THEN 0 ELSE 2

(* The source: each operation either throws, changing nothing, or takes. ------*)

CanPlay(src, f) == ~src.configured /\ f # None /\ disk[f] = "good"

useFilePlayer(src, f) ==
  [src EXCEPT !.fileBuffer = f, !.playPos = 0, !.hasFile = TRUE, !.live = FALSE]

CanListen(src, d) == ~src.configured /\ Inputs(d) > 0

useLiveInput(src) == [src EXCEPT !.hasFile = FALSE, !.live = TRUE]

prepare(src) == [src EXCEPT !.configured = TRUE]

release(src) == [src EXCEPT !.configured = FALSE]

\* MUTANT of Advanced: the wrap forgets how far past the end the block went.
AdvancedToStart(src) ==
  IF src.playPos + BlockSize < Length[src.fileBuffer] THEN src.playPos + BlockSize ELSE 0

\* The file loops, whatever its length against the block's.
Advanced(src) == (src.playPos + BlockSize) % Length[src.fileBuffer]

(* The settings. ---------------------------------------------------------------*)

\* What an open source plays, and what is to be played.
Playing(src) == IF src.live THEN "live" ELSE src.fileBuffer

Selected(m, f) == IF m = "live" THEN "live" ELSE f

currentSourceConfig(m, f) == IF m = "file" THEN OfFile(f) ELSE Live

\* MUTANT of Written: what is preserved is the whole file, the source with it.
WrittenWhole(device, m, f) ==
  [readable |-> TRUE, device |-> device,
   source |-> IF device \in plugged \cup {None} THEN serialize(currentSourceConfig(m, f)) ELSE settings.source]

Written(device, m, f) == [readable |-> TRUE, device |-> device, source |-> serialize(currentSourceConfig(m, f))]

\* MUTANT of preferredDeviceUnavailable: never asked.
NeverUnavailable(there) == FALSE

preferredDeviceUnavailable(there) == preferred.name # None /\ preferred.name \notin there

\* The device state a save writes: the preference while its device is away,
\* else what createStateXml tells, which is the device asked for or the open
\* one: the code is written for either.
Stored(there, asked, open) ==
  IF preferredDeviceUnavailable(there) /\ preferred.state # None THEN {preferred.state} ELSE {asked, open}

saveSettings(m, f) ==
  \E state \in Stored(plugged', chosen', active') :
    /\ settings' = Written(state, m, f)
    /\ preferred' = [state |-> state, name |-> IF state = None THEN preferred.name ELSE state]

(* The stream. -------------------------------------------------------------------*)

\* MUTANT of Ready: a source that could not be opened leaves the last verdict.
ReadyStill(can) == can \/ sourceReady

Ready(can) == can

\* release, configure exactly the selected source, prepare; a failure is shown.
prepareToPlay(m, f) ==
  LET src == release(source)
      can == IF m = "file" THEN CanPlay(src, f) ELSE CanListen(src, active')
      took == IF m = "file" THEN useFilePlayer(src, f) ELSE useLiveInput(src) IN
  /\ source' = IF can THEN prepare(took) ELSE src
  /\ sourceReady' = Ready(can)
  /\ opened' = Selected(m, f)
  /\ heard' = Nothing

\* restartLastAudioDevice, EXTERNAL: a device that is open is left as it is, the
\* callback running; with none open, the one opened last is opened again if it
\* is there.
restartAudio(m, f) ==
  IF active = None /\ lastOpen \in plugged
  THEN active' = lastOpen /\ prepareToPlay(m, f)
  ELSE UNCHANGED <<active, stream>>

\* fillBlock: the device's input is in the block already; a file is copied in.
Filled ==
  IF source.live THEN [from |-> "live", first |-> 0]
  ELSE IF ~source.hasFile THEN [from |-> "silence", first |-> 0]
  ELSE [from |-> source.fileBuffer, first |-> source.playPos]

getNextAudioBlock ==
  /\ running /\ active # None
  /\ heard' = IF sourceReady THEN Filled ELSE [from |-> "silence", first |-> 0]
  /\ source' = IF sourceReady /\ ~source.live /\ source.hasFile
               THEN [source EXCEPT !.playPos = Advanced(source)] ELSE source
  /\ UNCHANGED <<world, settings, running, mode, sourceFile, sourceReady, opened, preferred,
                 missingSavedFile, touched, upsets>>

(* The source bar. ------------------------------------------------------------------*)

Pick(m, f) ==
  /\ UNCHANGED <<disk, plugged, chosen, lastOpen>>
  /\ mode' = m /\ sourceFile' = f
  /\ restartAudio(m, f)
  /\ saveSettings(m, f)
  /\ touched' = TRUE
  /\ UNCHANGED <<running, missingSavedFile, upsets>>

onSelectLive == running /\ mode # "live" /\ Pick("live", sourceFile)

onChooseFile(f) == running /\ disk[f] # "absent" /\ Pick("file", f)

\* Only a selection whose file is gone falls back to live.
onChooseCancelled == running /\ mode = "file" /\ disk[sourceFile] = "absent" /\ Pick("live", sourceFile)

(* Devices and files. ---------------------------------------------------------------*)

\* The manager now has d open (None: none is left), anew or still, and
\* broadcasts the change.
Opened(d, anew) ==
  /\ active' = d /\ lastOpen' = IF d = None THEN lastOpen ELSE d
  /\ IF ~running THEN UNCHANGED <<session, settings>>
     ELSE /\ IF ~anew THEN UNCHANGED stream
             ELSE IF d = None
             THEN source' = release(source) /\ heard' = Nothing /\ UNCHANGED <<sourceReady, opened>>
             ELSE prepareToPlay(mode, sourceFile)
          /\ saveSettings(mode, sourceFile)
          /\ UNCHANGED <<running, mode, sourceFile, missingSavedFile, touched>>
  /\ UNCHANGED disk

Fallback(there) == IF there = {} THEN {None} ELSE there

\* Another device in the selector, or another format of the open one.
Select(d) == running /\ d \in plugged /\ chosen' = d /\ UNCHANGED <<plugged, upsets>> /\ Opened(d, TRUE)

Unplug(d) ==
  /\ d \in plugged /\ upsets < MaxUpsets /\ upsets' = upsets + 1
  /\ plugged' = plugged \ {d} /\ UNCHANGED chosen
  /\ \E next \in IF active = d THEN Fallback(plugged') ELSE {active} : Opened(next, next # active)

Plug(d) ==
  /\ d \notin plugged /\ upsets < MaxUpsets /\ upsets' = upsets + 1
  /\ plugged' = plugged \cup {d} /\ UNCHANGED chosen
  /\ \E next \in IF running /\ active = None THEN {None, d} ELSE {active} : Opened(next, next # active)

Tamper(f) ==
  /\ upsets < MaxUpsets /\ upsets' = upsets + 1
  /\ \E state \in {"absent", "corrupt", "good"} \ {disk[f]} : disk' = [disk EXCEPT ![f] = state]
  /\ UNCHANGED <<plugged, chosen, active, lastOpen, settings, session>>

(* The program starts and ends. -------------------------------------------------------*)

\* load(): an unreadable file is surfaced and the defaults are taken.
load == IF settings.readable THEN settings ELSE [readable |-> FALSE, device |-> None, source |-> Live]

\* The constructor.  ACFX_WORKBENCH_FILE seeds the source unless a file is saved;
\* a requested file that is gone is surfaced, and the source is live.
Launch ==
  /\ ~running /\ running' = TRUE
  /\ \E seed \in Files \cup {None} :
       LET f == IF load.source.mode = "file" THEN load.source.filePath ELSE seed
           there == f # None /\ disk[f] # "absent"
           m == IF there THEN "file" ELSE "live"
           kept == IF there THEN f ELSE None
           gone == IF there THEN None ELSE f IN
       /\ mode' = m /\ sourceFile' = kept /\ missingSavedFile' = gone
       /\ chosen' = load.device
       /\ active' \in IF load.device \in plugged THEN {load.device} ELSE Fallback(plugged)
       /\ lastOpen' = active'
       /\ source' = IF active' # None /\ (IF there THEN CanPlay(NoSource, f) ELSE CanListen(NoSource, active'))
                    THEN prepare(IF there THEN useFilePlayer(NoSource, f) ELSE useLiveInput(NoSource))
                    ELSE NoSource
       /\ opened' = IF active' # None THEN Selected(m, kept) ELSE "nothing"
  /\ sourceReady' = source'.configured
  /\ preferred' = [state |-> load.device, name |-> load.device]
  /\ heard' = Nothing /\ touched' = FALSE
  /\ UNCHANGED <<disk, plugged, settings, upsets>>

Ended ==
  /\ running' = FALSE /\ active' = None /\ lastOpen' = None /\ chosen' = None
  /\ mode' = "live" /\ sourceFile' = None
  /\ source' = NoSource /\ sourceReady' = FALSE /\ opened' = "nothing"
  /\ preferred' = [state |-> None, name |-> None] /\ missingSavedFile' = None
  /\ heard' = Nothing /\ touched' = FALSE
  /\ UNCHANGED <<disk, plugged>>

\* The destructor saves the final selection.
Quit ==
  /\ running
  /\ \E state \in Stored(plugged, chosen, active) : settings' = Written(state, mode, sourceFile)
  /\ Ended /\ UNCHANGED upsets

\* The program is killed, and the file may be lost with it.
Crash ==
  /\ running /\ upsets < MaxUpsets /\ upsets' = upsets + 1
  /\ settings' \in {settings, [settings EXCEPT !.readable = FALSE]}
  /\ Ended

AppInit ==
  /\ disk = Start.disk /\ settings = Start.settings /\ plugged = Devices
  /\ chosen = None /\ active = None /\ lastOpen = None
  /\ running = FALSE /\ mode = "live" /\ sourceFile = None
  /\ source = NoSource /\ sourceReady = FALSE /\ opened = "nothing"
  /\ preferred = [state |-> None, name |-> None] /\ missingSavedFile = None
  /\ heard = Nothing /\ touched = FALSE /\ upsets = 0

AppNext ==
  \/ getNextAudioBlock
  \/ onSelectLive
  \/ \E f \in Files : onChooseFile(f)
  \/ onChooseCancelled
  \/ \E d \in Devices : Select(d) \/ Unplug(d) \/ Plug(d)
  \/ \E f \in Files : Tamper(f)
  \/ Launch \/ Quit \/ Crash

AppSpec == AppInit /\ [][AppNext]_appVars

---------------------------------------------------------------------------
(* Properties.                                                             *)

AppTypeOK ==
  /\ disk \in [Files -> {"absent", "corrupt", "good"}] /\ plugged \subseteq Devices
  /\ settings.device \in Devices \cup {None} /\ settings.source \in SourceConfigs
  /\ chosen \in Devices \cup {None} /\ active \in plugged \cup {None}
  /\ lastOpen \in Devices \cup {None} /\ opened \in Files \cup {"nothing", "live"}
  /\ mode \in {"live", "file"} /\ (mode = "file" => sourceFile \in Files)
  /\ source.playPos \in 0..(IF source.hasFile THEN Length[source.fileBuffer] - 1 ELSE source.playPos)

\* What is heard is the source that was selected when the stream was opened, or
\* silence when it could not be opened: never the source of the stream before
\* (workbench-app.cpp:203-223, where a throw leaves the source as it was).
HeardIsWhatWasOpened ==
  heard.from \in {"nothing", IF sourceReady THEN opened ELSE "silence"}

\* Expected to fail.  The running stream plays the selected source: each change restarts the
\* audio, so that prepareToPlay takes it up (workbench-app.cpp:63-65).
SelectionIsPlayed ==
  active # None /\ sourceReady => Playing(source) = Selected(mode, sourceFile)

\* A looped file goes on where the block before ended (audio-source.cpp:82-95).
LoopIsSeamless ==
  [][getNextAudioBlock /\ heard.from \in Files =>
       heard'.first = (heard.first + BlockSize) % Length[heard.from]]_appVars

\* While the stored device is away, no save replaces it: the device list, the
\* fallback and the restarts all end in a save (workbench-app.cpp:335-368).
PreferenceSurvives ==
  [][settings.readable /\ settings.device \notin plugged' \cup {None} =>
       settings'.device = settings.device]_appVars

\* A source the operator picked is in the settings file from then on, whichever
\* handler saved last, so a crash loses nothing (workbench-app.cpp:64-91, 356-368).
PickedSourceIsStored ==
  running /\ touched => settings.source = serialize(currentSourceConfig(mode, sourceFile))

\* A stream plays the source it was opened for or silence, and a source once
\* picked is in the settings file (workbench-app.cpp:64-91, 183-294, 356-368).
OpenedIsHeardPickedIsKept == HeardIsWhatWasOpened /\ PickedSourceIsStored
=============================================================================
