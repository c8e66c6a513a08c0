---------------------------- MODULE Host_proofs ----------------------------
(***************************************************************************)
(* Theorems of the desktop hosts: the workbench plays what its stream was  *)
(* opened for and stores what was picked last, the live readout rids       *)
(* itself of another rate's samples, and a parameter's control and effect  *)
(* agree in every adapter.                                                 *)
(***************************************************************************)
EXTENDS MCHost, SequenceTheorems, TLAPS

-----------------------------------------------------------------------------
(* The workbench's session                                                 *)

IsSource(src) == DOMAIN src = {"configured", "hasFile", "live", "fileBuffer", "playPos"}

\* A source that is set up plays o.
Plays(src, o) == (src.live \/ src.hasFile) /\ Playing(src) = o

\* While a device is open the source is the one its stream was opened for or
\* marked as not ready, and without a device nothing has been heard since it went.
SourceInStep ==
  /\ IsSource(source) /\ mode \in {"live", "file"}
  /\ ~running => active = None
  /\ active # None /\ sourceReady => Plays(source, opened)
  /\ active = None => heard = Nothing

\* The settings file holds a source there is, and the preference is the one in it.
SettingsInStep ==
  /\ settings = [readable |-> settings.readable, device |-> settings.device, source |-> settings.source]
  /\ settings.source.mode \in {"live", "file"}
  /\ running /\ settings.readable =>
       /\ preferred.state = settings.device
       /\ preferred.state # None => preferred.name = preferred.state

\* What is heard is not inductive: it needs to know what the source plays.
AppInv == SourceInStep /\ SettingsInStep /\ HeardIsWhatWasOpened /\ PickedSourceIsStored

\* What the operations of the source make of it.
LEMMA SourceEdits ==
  ASSUME NEW src, IsSource(src), NEW f
  PROVE  /\ IsSource(release(src)) /\ IsSource(prepare(src))
         /\ IsSource(useFilePlayer(src, f)) /\ IsSource(useLiveInput(src))
         /\ Plays(useFilePlayer(src, f), f) /\ Plays(useLiveInput(src), "live")
         /\ \A o : Plays(prepare(src), o) <=> Plays(src, o)
<1>1. IsSource(release(src)) /\ IsSource(prepare(src))
  BY DEF IsSource, release, prepare
<1>2. IsSource(useFilePlayer(src, f)) /\ Plays(useFilePlayer(src, f), f)
  BY DEF IsSource, useFilePlayer, Plays, Playing
<1>3. IsSource(useLiveInput(src)) /\ Plays(useLiveInput(src), "live")
  BY DEF IsSource, useLiveInput, Plays, Playing
<1>4. \A o : Plays(prepare(src), o) <=> Plays(src, o)
  BY DEF IsSource, prepare, Plays, Playing
<1> QED
  BY <1>1, <1>2, <1>3, <1>4

\* A stream that starts plays the selection or is not ready, and is not heard yet.
LEMMA StreamStarts ==
  ASSUME IsSource(source), NEW m \in {"live", "file"}, NEW f, prepareToPlay(m, f)
  PROVE  IsSource(source)' /\ heard' = Nothing /\ (sourceReady' => Plays(source, opened)')
<1> DEFINE can == IF m = "file" THEN CanPlay(release(source), f) ELSE CanListen(release(source), active')
           took == IF m = "file" THEN useFilePlayer(release(source), f) ELSE useLiveInput(release(source))
<1>1. /\ heard' = Nothing /\ sourceReady' = can /\ source' = IF can THEN prepare(took) ELSE release(source)
      /\ opened' = Selected(m, f)
  BY DEF prepareToPlay, Ready
<1>2. IsSource(release(source)) /\ IsSource(took) /\ Plays(took, Selected(m, f))
  <2>1. IsSource(release(source))
    BY SourceEdits
  <2>2. CASE m = "file"
    BY <2>1, <2>2, SourceEdits DEF Selected
  <2>3. CASE m = "live"
    BY <2>1, <2>3, SourceEdits DEF Selected
  <2> QED
    BY <2>1, <2>2, <2>3
<1> HIDE DEF can, took
<1>3. IsSource(prepare(took)) /\ Plays(prepare(took), Selected(m, f))
  BY <1>2, SourceEdits
<1> QED
  BY <1>1, <1>2, <1>3 DEF IsSource, Plays, Playing

\* A save stores the selection, and the preference it stores is the one it keeps.
LEMMA SaveStores ==
  ASSUME NEW m \in {"live", "file"}, NEW f, saveSettings(m, f)
  PROVE  /\ settings'.source = serialize(currentSourceConfig(m, f))
         /\ settings' = [readable |-> settings'.readable, device |-> settings'.device, source |-> settings'.source]
         /\ settings'.source.mode \in {"live", "file"}
         /\ preferred'.state = settings'.device
         /\ preferred'.state # None => preferred'.name = preferred'.state
<1>1. PICK state : /\ settings' = Written(state, m, f)
                   /\ preferred' = [state |-> state, name |-> IF state = None THEN preferred.name ELSE state]
  BY DEF saveSettings
<1> QED
  BY <1>1 DEF Written, serialize, currentSourceConfig, OfFile, Live

LEMMA BlockKeeps == ASSUME AppInv, getNextAudioBlock PROVE AppInv'
<1>1. /\ running /\ active # None
      /\ UNCHANGED <<active, settings, running, mode, sourceFile, sourceReady, opened, preferred, touched>>
  BY DEF getNextAudioBlock, world
<1>2. source' = source \/ source' = [source EXCEPT !.playPos = Advanced(source)]
  BY DEF getNextAudioBlock
<1>3. IsSource(source)' /\ \A o : Plays(source', o) <=> Plays(source, o)
  BY <1>2 DEF AppInv, SourceInStep, IsSource, Plays, Playing
<1>4. heard'.from = IF sourceReady THEN opened ELSE "silence"
  BY <1>1 DEF getNextAudioBlock, Filled, AppInv, SourceInStep, Plays, Playing
<1>5. SourceInStep'
  BY <1>1, <1>3 DEF AppInv, SourceInStep
<1>6. HeardIsWhatWasOpened'
  BY <1>1, <1>4 DEF HeardIsWhatWasOpened
<1> QED
  BY <1>1, <1>5, <1>6 DEF AppInv, SettingsInStep, PickedSourceIsStored

LEMMA PickKeeps ==
  ASSUME AppInv, running, NEW m \in {"live", "file"}, NEW f, Pick(m, f)
  PROVE  AppInv'
<1>1. /\ restartAudio(m, f) /\ saveSettings(m, f)
      /\ mode' = m /\ sourceFile' = f /\ running' = running
  BY DEF Pick
<1>2. SourceInStep' /\ HeardIsWhatWasOpened'
  <2>1. CASE UNCHANGED <<active, stream>>
    BY <1>1, <2>1 DEF stream, AppInv, SourceInStep, IsSource, Plays, Playing, HeardIsWhatWasOpened
  <2>2. CASE active' # None /\ prepareToPlay(m, f)
    <3>1. IsSource(source)' /\ heard' = Nothing /\ (sourceReady' => Plays(source, opened)')
      BY <2>2, StreamStarts DEF AppInv, SourceInStep
    <3> QED
      BY <1>1, <2>2, <3>1 DEF SourceInStep, Plays, Playing, HeardIsWhatWasOpened, Nothing
  <2>3. \/ UNCHANGED <<active, stream>>
        \/ lastOpen \in plugged /\ active' = lastOpen /\ prepareToPlay(m, f)
    BY <1>1 DEF restartAudio
  <2>4. CASE active' = None /\ prepareToPlay(m, f)
    <3>1. IsSource(source)' /\ heard' = Nothing
      BY <2>4, StreamStarts DEF AppInv, SourceInStep
    <3> QED
      BY <1>1, <2>4, <3>1 DEF SourceInStep, HeardIsWhatWasOpened, Nothing
  <2> QED
    BY <2>1, <2>2, <2>3, <2>4
<1>3. SettingsInStep' /\ PickedSourceIsStored'
  BY <1>1, SaveStores DEF SettingsInStep, PickedSourceIsStored, serialize, currentSourceConfig
<1> QED
  BY <1>2, <1>3 DEF AppInv

LEMMA OpenedKeeps ==
  ASSUME AppInv, NEW d, NEW anew \in BOOLEAN, Opened(d, anew), ~running \/ ~anew => d = active
  PROVE  AppInv'
<1>1. active' = d
  BY DEF Opened
<1>2. CASE ~running
  <2>1. UNCHANGED <<session, settings>> /\ active' = active
    BY <1>1, <1>2 DEF Opened
  <2> QED
    BY <2>1 DEF session, AppInv, SourceInStep, IsSource, Plays, Playing, SettingsInStep, HeardIsWhatWasOpened,
       PickedSourceIsStored, serialize, currentSourceConfig
<1>3. CASE running
  <2>1. saveSettings(mode, sourceFile) /\ UNCHANGED <<running, mode, sourceFile, touched>>
    BY <1>3 DEF Opened
  <2>2. SettingsInStep' /\ PickedSourceIsStored'
    BY <2>1, SaveStores
       DEF AppInv, SourceInStep, SettingsInStep, PickedSourceIsStored, serialize,
           currentSourceConfig
  <2>3. SourceInStep' /\ HeardIsWhatWasOpened'
    <3>1. CASE ~anew
      <4>1. UNCHANGED stream
        BY <1>3, <3>1 DEF Opened
      <4> QED
        BY <1>1, <2>1, <3>1, <4>1
           DEF stream, AppInv, SourceInStep, IsSource, Plays, Playing, HeardIsWhatWasOpened
    <3>2. CASE anew /\ d = None
      <4>1. source' = release(source) /\ heard' = Nothing
        BY <1>3, <3>2 DEF Opened
      <4> QED
        BY <1>1, <1>3, <2>1, <3>2, <4>1
           DEF AppInv, SourceInStep, IsSource, release, HeardIsWhatWasOpened, Nothing
    <3>3. CASE anew /\ d # None
      <4>1. prepareToPlay(mode, sourceFile)
        BY <1>3, <3>3 DEF Opened
      <4>2. IsSource(source)' /\ heard' = Nothing /\ (sourceReady' => Plays(source, opened)')
        BY <4>1, StreamStarts DEF AppInv, SourceInStep
      <4> QED
        BY <1>1, <1>3, <2>1, <3>3, <4>2
           DEF AppInv, SourceInStep, Plays, Playing, HeardIsWhatWasOpened, Nothing
    <3> QED
      BY <3>1, <3>2, <3>3
  <2> QED
    BY <2>2, <2>3 DEF AppInv
<1> QED
  BY <1>2, <1>3

LEMMA DevicesKeep ==
  ASSUME AppInv, NEW d \in Devices, Select(d) \/ Unplug(d) \/ Plug(d)
  PROVE  AppInv'
<1>1. CASE Select(d)
  BY <1>1, OpenedKeeps DEF Select
<1>2. CASE Unplug(d)
  <2>1. PICK next \in IF active = d THEN Fallback(plugged') ELSE {active} : Opened(next, next # active)
    BY <1>2 DEF Unplug
  <2>2. ~running => next = active
    BY <2>1, WorkbenchAssumption DEF WorkbenchConstants, AppInv, SourceInStep
  <2> QED
    BY <2>1, <2>2, OpenedKeeps
<1>3. CASE Plug(d)
  <2>1. PICK next \in IF running /\ active = None THEN {None, d} ELSE {active} : Opened(next, next # active)
    BY <1>3 DEF Plug
  <2> QED
    BY <2>1, OpenedKeeps
<1> QED
  BY <1>1, <1>2, <1>3

LEMMA LaunchKeeps == ASSUME AppInv, Launch PROVE AppInv'
<1> DEFINE F(seed) == IF load.source.mode = "file" THEN load.source.filePath ELSE seed
           There(seed) == F(seed) # None /\ disk[F(seed)] # "absent"
           M(seed) == IF There(seed) THEN "file" ELSE "live"
           Kept(seed) == IF There(seed) THEN F(seed) ELSE None
           Can(seed) == IF There(seed) THEN CanPlay(NoSource, F(seed)) ELSE CanListen(NoSource, active')
<1>1. /\ running' /\ settings' = settings
      /\ preferred' = [state |-> load.device, name |-> load.device]
      /\ heard' = Nothing /\ ~touched' /\ sourceReady' = source'.configured
  BY DEF Launch
<1>2. PICK seed \in Files \cup {None} :
        /\ mode' = M(seed) /\ sourceFile' = Kept(seed)
        /\ source' = IF active' # None /\ Can(seed)
                     THEN prepare(IF There(seed) THEN useFilePlayer(NoSource, F(seed)) ELSE useLiveInput(NoSource))
                     ELSE NoSource
        /\ opened' = IF active' # None THEN Selected(M(seed), Kept(seed)) ELSE "nothing"
  BY DEF Launch
<1> HIDE DEF F, Can
<1>3. M(seed) \in {"live", "file"}
  OBVIOUS
<1>4. IsSource(source') /\ (sourceReady' => Plays(source', opened'))
  <2>1. IsSource(NoSource) /\ ~NoSource.configured
    BY DEF IsSource, NoSource
  <2>2. CASE active' # None /\ Can(seed) /\ There(seed)
    <3>1. source' = prepare(useFilePlayer(NoSource, F(seed))) /\ opened' = F(seed)
      BY <1>2, <2>2 DEF Selected
    <3> QED
      BY <2>1, <3>1, SourceEdits
  <2>3. CASE active' # None /\ Can(seed) /\ ~There(seed)
    <3>1. source' = prepare(useLiveInput(NoSource)) /\ opened' = "live"
      BY <1>2, <2>3 DEF Selected
    <3> QED
      BY <2>1, <3>1, SourceEdits
  <2>4. CASE ~(active' # None /\ Can(seed))
    BY <1>1, <1>2, <2>1, <2>4 DEF IsSource
  <2> QED
    BY <2>2, <2>3, <2>4
<1>5. SourceInStep' /\ HeardIsWhatWasOpened'
  BY <1>1, <1>2, <1>3, <1>4 DEF SourceInStep, Plays, Playing, HeardIsWhatWasOpened, Nothing
<1>6. SettingsInStep' /\ PickedSourceIsStored'
  BY <1>1 DEF AppInv, SettingsInStep, PickedSourceIsStored, load
<1> QED
  BY <1>5, <1>6 DEF AppInv

LEMMA EndKeeps == ASSUME AppInv, Quit \/ Crash PROVE AppInv'
<1>1. Ended
  BY DEF Quit, Crash
<1>2. SourceInStep' /\ HeardIsWhatWasOpened'
  BY <1>1 DEF Ended, SourceInStep, HeardIsWhatWasOpened, IsSource, NoSource, Nothing
<1>3. SettingsInStep'
  <2>1. CASE Quit
    BY <1>1, <2>1
       DEF Quit, Ended, SettingsInStep, Written, serialize, currentSourceConfig, OfFile, Live
  <2>2. CASE Crash
    BY <1>1, <2>2 DEF Crash, Ended, AppInv, SettingsInStep
  <2> QED
    BY <2>1, <2>2
<1> QED
  BY <1>1, <1>2, <1>3 DEF Ended, AppInv, PickedSourceIsStored

\* The workbench's session through picks, device changes, failures, crashes and
\* restarts (workbench-app.cpp:200-400).
THEOREM SessionHolds == AppSpec => []AppInv
<1>1. ASSUME AppInit PROVE AppInv
  <2>1. /\ Start.settings = [readable |-> Start.settings.readable, device |-> Start.settings.device,
                            source |-> Start.settings.source]
        /\ Start.settings.source \in SourceConfigs
    BY WorkbenchAssumption DEF WorkbenchConstants
  <2>2. Start.settings.source.mode \in {"live", "file"}
    BY <2>1 DEF SourceConfigs, Live, OfFile
  <2> QED
    BY <1>1, <2>1, <2>2 DEF AppInit, AppInv, SourceInStep, SettingsInStep, IsSource,
       NoSource, HeardIsWhatWasOpened, Nothing, PickedSourceIsStored
<1>2. AppInv /\ [AppNext]_appVars => AppInv'
  <2> SUFFICES ASSUME AppInv, [AppNext]_appVars PROVE AppInv'
    OBVIOUS
  <2>1. CASE onSelectLive
    BY <2>1, PickKeeps DEF onSelectLive
  <2>2. ASSUME NEW f \in Files, onChooseFile(f) PROVE AppInv'
    BY <2>2, PickKeeps DEF onChooseFile
  <2>3. CASE onChooseCancelled
    BY <2>3, PickKeeps DEF onChooseCancelled
  <2>4. ASSUME UNCHANGED <<active, settings, session>> PROVE AppInv'
    BY <2>4 DEF session, AppInv, SourceInStep, IsSource, Plays, Playing, SettingsInStep, HeardIsWhatWasOpened,
       PickedSourceIsStored, serialize, currentSourceConfig
  <2>5. ASSUME NEW f \in Files, Tamper(f) PROVE AppInv'
    BY <2>4, <2>5 DEF Tamper
  <2>6. CASE UNCHANGED appVars
    BY <2>4, <2>6 DEF appVars, session
  <2> QED
    BY <2>1, <2>2, <2>3, <2>5, <2>6, BlockKeeps, DevicesKeep, LaunchKeeps, EndKeeps DEF AppNext
<1> QED
  BY <1>1, <1>2, PTL DEF AppSpec

\* The types of the session, and what they take to be kept: a source with a file
\* plays one that there is, and the preference is of a device that there was.
SomeDevice == Devices \cup {None}

SourceInRange ==
  /\ source.playPos \in Nat
  /\ source.hasFile => source.fileBuffer \in Files /\ source.playPos < Length[source.fileBuffer]

SessionInRange ==
  /\ disk \in [Files -> {"absent", "corrupt", "good"}] /\ plugged \subseteq Devices
  /\ settings.device \in SomeDevice /\ settings.source \in SourceConfigs
  /\ preferred.state \in SomeDevice /\ chosen \in SomeDevice /\ active \in plugged \cup {None}
  /\ lastOpen \in SomeDevice /\ opened \in Files \cup {"nothing", "live"}
  /\ mode \in {"live", "file"} /\ (mode = "file" => sourceFile \in Files)
  /\ SourceInRange

LEMMA SourceIsStored ==
  ASSUME NEW m \in {"live", "file"}, NEW f, m = "file" => f \in Files
  PROVE  serialize(currentSourceConfig(m, f)) \in SourceConfigs
<1>1. None \notin Files
  BY WorkbenchAssumption DEF WorkbenchConstants
<1> QED
  BY <1>1 DEF serialize, currentSourceConfig, SourceConfigs, OfFile, Live

\* A stream that starts leaves the source within the file it plays.
LEMMA StreamInRange ==
  ASSUME IsSource(source), SourceInRange, NEW m \in {"live", "file"}, NEW f,
         m = "file" => f \in Files, prepareToPlay(m, f)
  PROVE  SourceInRange' /\ opened' \in Files \cup {"nothing", "live"}
<1>1. Length \in [Files -> Nat \ {0}]
  BY WorkbenchAssumption DEF WorkbenchConstants
<1>2. \/ source' = release(source)
      \/ m = "file" /\ source' = prepare(useFilePlayer(release(source), f))
      \/ source' = prepare(useLiveInput(release(source)))
  BY DEF prepareToPlay
<1>3. ASSUME source' = release(source) PROVE SourceInRange'
  BY <1>3 DEF SourceInRange, IsSource, release
<1>4. ASSUME m = "file", source' = prepare(useFilePlayer(release(source), f))
      PROVE  SourceInRange'
  <2>1. source'.playPos = 0 /\ source'.fileBuffer = f
    BY <1>4 DEF IsSource, release, prepare, useFilePlayer
  <2>2. f \in Files /\ Length[f] \in Nat \ {0}
    BY <1>1, <1>4
  <2> QED
    BY <2>1, <2>2 DEF SourceInRange
<1>5. ASSUME source' = prepare(useLiveInput(release(source))) PROVE SourceInRange'
  BY <1>5 DEF SourceInRange, IsSource, release, prepare, useLiveInput
<1>6. opened' \in Files \cup {"nothing", "live"}
  BY DEF prepareToPlay, Selected
<1> QED
  BY <1>2, <1>3, <1>4, <1>5, <1>6

\* A save stores a source there is, and a device that was asked for, is open, or
\* was stored before.
LEMMA SaveInRange ==
  ASSUME NEW m \in {"live", "file"}, NEW f, m = "file" => f \in Files, saveSettings(m, f),
         preferred.state \in SomeDevice, chosen' \in SomeDevice, active' \in SomeDevice
  PROVE  /\ settings'.device \in SomeDevice /\ settings'.source \in SourceConfigs
         /\ preferred'.state \in SomeDevice
<1>1. PICK state \in Stored(plugged', chosen', active') :
        /\ settings' = Written(state, m, f)
        /\ preferred' = [state |-> state, name |-> IF state = None THEN preferred.name ELSE state]
  BY DEF saveSettings
<1>2. state \in SomeDevice
  BY <1>1 DEF Stored
<1>3. serialize(currentSourceConfig(m, f)) \in SourceConfigs
  BY SourceIsStored
<1> QED
  BY <1>1, <1>2, <1>3 DEF Written

LEMMA PickInRange ==
  ASSUME AppInv, SessionInRange, NEW m \in {"live", "file"}, NEW f, m = "file" => f \in Files, Pick(m, f)
  PROVE  SessionInRange'
<1>1. UNCHANGED <<disk, plugged, chosen, lastOpen>> /\ mode' = m /\ sourceFile' = f
      /\ restartAudio(m, f) /\ saveSettings(m, f)
  BY DEF Pick
<1>2. active' \in plugged' \cup {None}
  BY <1>1 DEF restartAudio, SessionInRange
<1>3. /\ settings'.device \in SomeDevice /\ settings'.source \in SourceConfigs
      /\ preferred'.state \in SomeDevice
  BY <1>1, <1>2, SaveInRange DEF SessionInRange, SomeDevice
<1>4. SourceInRange' /\ opened' \in Files \cup {"nothing", "live"}
  BY <1>1, StreamInRange DEF restartAudio, stream, AppInv, SourceInStep, SessionInRange, SourceInRange
<1> QED
  BY <1>1, <1>2, <1>3, <1>4 DEF SessionInRange

LEMMA OpenedInRange ==
  ASSUME AppInv, SessionInRange, NEW d, d \in plugged' \cup {None}, plugged' \subseteq Devices,
         chosen' \in SomeDevice, NEW anew \in BOOLEAN, Opened(d, anew)
  PROVE  SessionInRange'
<1>1. active' = d /\ disk' = disk /\ lastOpen' \in SomeDevice
  BY DEF Opened, SessionInRange, SomeDevice
<1>2. CASE ~running
  BY <1>1, <1>2 DEF Opened, session, SessionInRange, SourceInRange
<1>3. CASE running
  <2>1. saveSettings(mode, sourceFile) /\ UNCHANGED <<mode, sourceFile>>
    BY <1>3 DEF Opened
  <2>2. /\ settings'.device \in SomeDevice /\ settings'.source \in SourceConfigs
        /\ preferred'.state \in SomeDevice
    BY <1>1, <2>1, SaveInRange DEF SessionInRange, SomeDevice
  <2>3. SourceInRange' /\ opened' \in Files \cup {"nothing", "live"}
    <3>1. CASE UNCHANGED stream
      BY <3>1 DEF stream, SessionInRange, SourceInRange
    <3>2. CASE source' = release(source) /\ opened' = opened
      BY <3>2 DEF SessionInRange, SourceInRange, AppInv, SourceInStep, IsSource, release
    <3>3. CASE prepareToPlay(mode, sourceFile)
      BY <3>3, StreamInRange DEF AppInv, SourceInStep, SessionInRange
    <3> QED
      BY <1>3, <3>1, <3>2, <3>3 DEF Opened
  <2> QED
    BY <1>1, <2>1, <2>2, <2>3 DEF SessionInRange
<1> QED
  BY <1>2, <1>3

LEMMA DevicesInRange ==
  ASSUME AppInv, SessionInRange, NEW d \in Devices, Select(d) \/ Unplug(d) \/ Plug(d)
  PROVE  SessionInRange'
<1>1. CASE Select(d)
  <2>1. d \in plugged' \cup {None} /\ plugged' \subseteq Devices /\ chosen' \in SomeDevice
        /\ Opened(d, TRUE)
    BY <1>1 DEF Select, SessionInRange, SomeDevice
  <2> QED
    BY <2>1, OpenedInRange
<1>2. CASE Unplug(d)
  <2>1. PICK next \in IF active = d THEN Fallback(plugged') ELSE {active} : Opened(next, next # active)
    BY <1>2 DEF Unplug
  <2>2. plugged' = plugged \ {d} /\ chosen' = chosen
    BY <1>2 DEF Unplug
  <2>3. next \in plugged' \cup {None} /\ plugged' \subseteq Devices /\ chosen' \in SomeDevice
    BY <2>1, <2>2 DEF Fallback, SessionInRange
  <2> QED
    BY <2>1, <2>3, OpenedInRange
<1>3. CASE Plug(d)
  <2>1. PICK next \in IF running /\ active = None THEN {None, d} ELSE {active} : Opened(next, next # active)
    BY <1>3 DEF Plug
  <2>2. plugged' = plugged \cup {d} /\ chosen' = chosen
    BY <1>3 DEF Plug
  <2>3. next \in plugged' \cup {None} /\ plugged' \subseteq Devices /\ chosen' \in SomeDevice
    BY <2>1, <2>2 DEF SessionInRange
  <2> QED
    BY <2>1, <2>3, OpenedInRange
<1> QED
  BY <1>1, <1>2, <1>3

LEMMA BlockInRange == ASSUME AppInv, SessionInRange, getNextAudioBlock PROVE SessionInRange'
<1>1. UNCHANGED <<disk, plugged, chosen, active, lastOpen, settings, mode, sourceFile, opened, preferred>>
  BY DEF getNextAudioBlock, world
<1>2. SourceInRange'
  <2>1. CASE source' = source
    BY <2>1 DEF SessionInRange, SourceInRange
  <2>2. CASE source.hasFile /\ source' = [source EXCEPT !.playPos = Advanced(source)]
    <3>1. Length[source.fileBuffer] \in Nat \ {0} /\ source.playPos \in Nat /\ BlockSize \in Nat
      BY <2>2, WorkbenchAssumption DEF WorkbenchConstants, SessionInRange, SourceInRange
    <3>2. Advanced(source) \in Nat /\ Advanced(source) < Length[source.fileBuffer]
      BY <3>1 DEF Advanced
    <3>3. source'.playPos = Advanced(source) /\ source'.hasFile = source.hasFile
          /\ source'.fileBuffer = source.fileBuffer
      BY <2>2 DEF AppInv, SourceInStep, IsSource
    <3> QED
      BY <2>2, <3>2, <3>3 DEF SessionInRange, SourceInRange
  <2> QED
    BY <2>1, <2>2 DEF getNextAudioBlock
<1> QED
  BY <1>1, <1>2 DEF SessionInRange

LEMMA LaunchInRange == ASSUME AppInv, SessionInRange, Launch PROVE SessionInRange'
<1> DEFINE F(seed) == IF load.source.mode = "file" THEN load.source.filePath ELSE seed
           There(seed) == F(seed) # None /\ disk[F(seed)] # "absent"
           M(seed) == IF There(seed) THEN "file" ELSE "live"
           Kept(seed) == IF There(seed) THEN F(seed) ELSE None
<1>1. load.device \in SomeDevice /\ load.source \in SourceConfigs
  BY DEF load, SessionInRange, SomeDevice, SourceConfigs
<1>2. PICK seed \in Files \cup {None} :
        /\ mode' = M(seed) /\ sourceFile' = Kept(seed)
        /\ chosen' = load.device
        /\ active' \in IF load.device \in plugged THEN {load.device} ELSE Fallback(plugged)
        /\ lastOpen' = active'
        /\ source' \in {NoSource, prepare(IF There(seed) THEN useFilePlayer(NoSource, F(seed))
                                          ELSE useLiveInput(NoSource))}
        /\ opened' = IF active' # None THEN Selected(M(seed), Kept(seed)) ELSE "nothing"
  BY DEF Launch
<1>3. There(seed) => F(seed) \in Files
  BY <1>1 DEF SourceConfigs, Live, OfFile
<1> HIDE DEF F
<1>4. /\ UNCHANGED <<disk, plugged, settings>>
      /\ preferred' = [state |-> load.device, name |-> load.device]
  BY DEF Launch
<1>5. active' \in plugged \cup {None}
  BY <1>2 DEF Fallback
<1>6. SourceInRange'
  <2>1. CASE source' = NoSource
    BY <2>1 DEF SourceInRange, NoSource
  <2>2. CASE source' = prepare(useLiveInput(NoSource))
    BY <2>2 DEF SourceInRange, NoSource, prepare, useLiveInput
  <2>3. CASE There(seed) /\ source' = prepare(useFilePlayer(NoSource, F(seed)))
    <3>1. source'.playPos = 0 /\ source'.fileBuffer = F(seed)
      BY <2>3 DEF NoSource, prepare, useFilePlayer
    <3>2. F(seed) \in Files /\ Length[F(seed)] \in Nat \ {0}
      BY <1>3, <2>3, WorkbenchAssumption DEF WorkbenchConstants
    <3> QED
      BY <3>1, <3>2 DEF SourceInRange
  <2> QED
    BY <1>2, <2>1, <2>2, <2>3
<1>7. /\ mode' \in {"live", "file"} /\ (mode' = "file" => sourceFile' \in Files)
      /\ opened' \in Files \cup {"nothing", "live"}
  BY <1>2, <1>3 DEF Selected
<1>8. lastOpen' \in SomeDevice
  BY <1>2, <1>5 DEF SessionInRange, SomeDevice
<1> QED
  BY <1>1, <1>2, <1>4, <1>5, <1>6, <1>7, <1>8 DEF SessionInRange

LEMMA EndInRange == ASSUME AppInv, SessionInRange, Quit \/ Crash PROVE SessionInRange'
<1>1. /\ UNCHANGED <<disk, plugged>> /\ active' = None /\ lastOpen' = None /\ chosen' = None
      /\ mode' = "live" /\ opened' = "nothing"
      /\ source' = NoSource /\ preferred'.state = None
  BY DEF Quit, Crash, Ended
<1>2. settings'.device \in SomeDevice /\ settings'.source \in SourceConfigs
  <2>1. CASE Quit
    <3>1. PICK state \in Stored(plugged, chosen, active) : settings' = Written(state, mode, sourceFile)
      BY <2>1 DEF Quit
    <3>2. state \in SomeDevice
      BY <3>1 DEF Stored, SessionInRange, SomeDevice
    <3>3. serialize(currentSourceConfig(mode, sourceFile)) \in SourceConfigs
      BY SourceIsStored DEF SessionInRange
    <3> QED
      BY <3>1, <3>2, <3>3 DEF Written
  <2>2. CASE Crash
    BY <2>2 DEF Crash, SessionInRange, AppInv, SettingsInStep
  <2> QED
    BY <2>1, <2>2
<1> QED
  BY <1>1, <1>2 DEF SessionInRange, SourceInRange, NoSource, SomeDevice

\* Through failed opens, unplugged devices, crashes and restarts, whatever is
\* written can be read back, and no position is outside its file.
THEOREM SessionTypes == AppSpec => []AppTypeOK
<1>1. AppInit => SessionInRange
  BY WorkbenchAssumption
     DEF AppInit, WorkbenchConstants, SessionInRange, SomeDevice, SourceInRange, NoSource
<1>2. AppInv /\ SessionInRange /\ [AppNext]_appVars => SessionInRange'
  <2> SUFFICES ASSUME AppInv, SessionInRange, [AppNext]_appVars PROVE SessionInRange'
    OBVIOUS
  <2>1. CASE onSelectLive
    BY <2>1, PickInRange DEF onSelectLive
  <2>2. ASSUME NEW f \in Files, onChooseFile(f) PROVE SessionInRange'
    BY <2>2, PickInRange DEF onChooseFile
  <2>3. CASE onChooseCancelled
    BY <2>3, PickInRange DEF onChooseCancelled
  <2>4. ASSUME NEW f \in Files, Tamper(f) PROVE SessionInRange'
    BY <2>4 DEF Tamper, session, SessionInRange, SourceInRange
  <2>5. CASE UNCHANGED appVars
    BY <2>5 DEF appVars, SessionInRange, SourceInRange
  <2> QED
    BY <2>1, <2>2, <2>3, <2>4, <2>5, BlockInRange, DevicesInRange, LaunchInRange, EndInRange DEF AppNext
<1>3. SessionInRange => AppTypeOK
  <2> SUFFICES ASSUME SessionInRange PROVE AppTypeOK
    OBVIOUS
  <2>1. source.hasFile => Length[source.fileBuffer] \in Nat
    BY WorkbenchAssumption DEF WorkbenchConstants, SessionInRange, SourceInRange
  <2>2. source.playPos \in 0..(IF source.hasFile THEN Length[source.fileBuffer] - 1 ELSE source.playPos)
    BY <2>1 DEF SessionInRange, SourceInRange
  <2> QED
    BY <2>2 DEF SessionInRange, SomeDevice, AppTypeOK
<1> QED
  BY <1>1, <1>2, <1>3, SessionHolds, PTL DEF AppSpec

\* Whatever fails in between, what is heard is what the stream was opened for, and
\* what was picked is what the settings file holds (workbench-app.cpp:64-91, 183-294, 356-368).
THEOREM StreamAndSettingsHold == AppSpec => []OpenedIsHeardPickedIsKept
<1>1. AppInv => OpenedIsHeardPickedIsKept
  BY DEF AppInv, OpenedIsHeardPickedIsKept
<1> QED
  BY <1>1, SessionHolds, PTL

\* A save while the preferred device is away writes its name, not the name of
\* the device that stands in for it (workbench-app.cpp:335-368).
THEOREM PreferenceOutlastsTheDevice == AppSpec => PreferenceSurvives
<1>1. AppInv /\ [AppNext]_appVars =>
        (settings.readable /\ settings.device \notin plugged' \cup {None} => settings'.device = settings.device)
  <2> SUFFICES ASSUME AppInv, [AppNext]_appVars, settings.readable, settings.device \notin plugged' \cup {None}
               PROVE  settings'.device = settings.device
    OBVIOUS
  <2>1. ASSUME running, NEW asked, NEW open_, NEW state \in Stored(plugged', asked, open_)
        PROVE  state = settings.device
    BY <2>1 DEF Stored, preferredDeviceUnavailable, AppInv, SettingsInStep
  <2>2. ASSUME running, NEW m, NEW f, saveSettings(m, f) PROVE settings'.device = settings.device
    BY <2>1, <2>2 DEF saveSettings, Written
  <2>3. ASSUME NEW d, NEW anew, Opened(d, anew) PROVE settings'.device = settings.device
    BY <2>2, <2>3 DEF Opened
  <2>4. CASE onSelectLive \/ onChooseCancelled \/ \E f \in Files : onChooseFile(f)
    BY <2>2, <2>4 DEF onSelectLive, onChooseCancelled, onChooseFile, Pick
  <2>5. CASE \E d \in Devices : Select(d) \/ Unplug(d) \/ Plug(d)
    BY <2>3, <2>5 DEF Select, Unplug, Plug
  <2>6. CASE Quit
    BY <2>1, <2>6 DEF Quit, Ended, Written
  <2>7. CASE Crash
    BY <2>7 DEF Crash, AppInv, SettingsInStep
  <2>8. CASE getNextAudioBlock \/ Launch \/ (\E f \in Files : Tamper(f)) \/ UNCHANGED appVars
    BY <2>8 DEF getNextAudioBlock, Launch, Tamper, appVars
  <2> QED
    BY <2>4, <2>5, <2>6, <2>7, <2>8 DEF AppNext
<1> QED
  BY <1>1, SessionHolds, PTL DEF AppSpec, PreferenceSurvives

\* The file that was heard last is the one in the source, at the place after it.
LoopInStep ==
  heard.from \in Files =>
    /\ sourceReady /\ ~source.live /\ source.hasFile /\ source.fileBuffer = heard.from
    /\ source.playPos = (heard.first + BlockSize) % Length[heard.from]

\* A block goes on where the one before ended, also when it was longer than the file
\* (audio-source.cpp:82-95).
THEOREM LoopsAreSeamless == AppSpec => LoopIsSeamless
<1>1. Nothing.from \notin Files /\ "silence" \notin Files /\ "live" \notin Files
  BY WorkbenchAssumption DEF WorkbenchConstants, Nothing
<1>2. AppInit => LoopInStep
  BY <1>1 DEF AppInit, LoopInStep
<1>3. ASSUME AppInv, LoopInStep, [AppNext]_appVars PROVE LoopInStep'
  <2>1. CASE getNextAudioBlock
    <3>1. CASE sourceReady /\ ~source.live /\ source.hasFile
      <4>1. /\ heard' = [from |-> source.fileBuffer, first |-> source.playPos]
            /\ source' = [source EXCEPT !.playPos = Advanced(source)] /\ sourceReady' = sourceReady
        BY <2>1, <3>1 DEF getNextAudioBlock, Filled
      <4> QED
        BY <1>3, <3>1, <4>1 DEF AppInv, SourceInStep, IsSource, Advanced, LoopInStep
    <3>2. CASE ~(sourceReady /\ ~source.live /\ source.hasFile)
      <4>1. heard'.from \in {"live", "silence"}
        BY <2>1, <3>2 DEF getNextAudioBlock, Filled
      <4> QED
        BY <1>1, <4>1 DEF LoopInStep
    <3> QED
      BY <3>1, <3>2
  <2>2. ASSUME heard' = Nothing PROVE LoopInStep'
    BY <1>1, <2>2 DEF LoopInStep
  <2>3. ASSUME UNCHANGED <<source, sourceReady, heard>> PROVE LoopInStep'
    BY <1>3, <2>3 DEF LoopInStep
  <2>4. ASSUME NEW m, NEW f, restartAudio(m, f) PROVE LoopInStep'
    BY <2>2, <2>3, <2>4 DEF restartAudio, stream, prepareToPlay
  <2>5. ASSUME NEW d, NEW anew, Opened(d, anew) PROVE LoopInStep'
    BY <2>2, <2>3, <2>5 DEF Opened, session, stream, prepareToPlay
  <2>6. CASE onSelectLive \/ onChooseCancelled \/ \E f \in Files : onChooseFile(f)
    BY <2>4, <2>6 DEF onSelectLive, onChooseCancelled, onChooseFile, Pick
  <2>7. CASE \E d \in Devices : Select(d) \/ Unplug(d) \/ Plug(d)
    BY <2>5, <2>7 DEF Select, Unplug, Plug
  <2>8. CASE Launch \/ Quit \/ Crash
    BY <2>2, <2>8 DEF Launch, Quit, Crash, Ended
  <2>9. CASE (\E f \in Files : Tamper(f)) \/ UNCHANGED appVars
    BY <2>3, <2>9 DEF Tamper, session, appVars
  <2> QED
    BY <1>3, <2>1, <2>6, <2>7, <2>8, <2>9 DEF AppNext
<1>4. ASSUME LoopInStep, getNextAudioBlock, heard.from \in Files
      PROVE  heard'.first = (heard.first + BlockSize) % Length[heard.from]
  BY <1>4 DEF LoopInStep, getNextAudioBlock, Filled
<1> QED
  BY <1>2, <1>3, <1>4, SessionHolds, PTL DEF AppSpec, LoopIsSeamless

-----------------------------------------------------------------------------
(* The live readout                                                        *)

\* The ring never exceeds its capacity, and the readout has its two fields.
DisplayTypes ==
  /\ ring \in Seq(Rates) /\ Len(ring) <= Capacity
  /\ deviceRate \in Rates /\ fresh \in 0..Capacity
  /\ DOMAIN readout = {"rate", "result"}
  /\ host \in {"workbench", "plugin"} /\ (host = "workbench" => open)

\* What is stale is at the front, and every result since the last device change
\* took a window of it away.
StaleIsInFront ==
  \A i \in 1..Len(ring) : i > Capacity - fresh * Window => ring[i] = deviceRate

\* The plugin asks for the rate in every tick, so only the first update after a
\* device change can still go by the old one.
RateIsPulled ==
  /\ fresh >= 2 => readout.rate = deviceRate
  /\ fresh >= 1 /\ pulled => readout.rate = deviceRate

\* Neither of the two promises is inductive without what is left in the ring.
DisplayInv == DisplayTypes /\ StaleIsInFront /\ RateIsPulled /\ ReadoutIsTheDevices

LEMMA Sizes == Window \in Nat \ {0} /\ Capacity \in Nat /\ Capacity >= Window
BY DisplayAssumption DEF DisplayConstants

LEMMA NewestIsSuffix ==
  ASSUME NEW S, NEW s \in Seq(S), NEW n \in Nat
  PROVE  /\ Newest(n, s) \in Seq(S) /\ Len(Newest(n, s)) = IF Len(s) > n THEN n ELSE Len(s)
         /\ \A i \in 1..Len(Newest(n, s)) :
              Newest(n, s)[i] = s[i + (IF Len(s) > n THEN Len(s) - n ELSE 0)]
<1>1. CASE Len(s) > n
  <2>1. Newest(n, s) = SubSeq(s, Len(s) - n + 1, Len(s)) /\ Len(s) \in Nat
    BY <1>1 DEF Newest
  <2>2. /\ Newest(n, s) \in Seq(S) /\ Len(Newest(n, s)) = n
        /\ \A i \in 1..n : Newest(n, s)[i] = s[(Len(s) - n + 1) + i - 1]
    BY <1>1, <2>1, SubSeqProperties
  <2> QED
    BY <1>1, <2>1, <2>2
<1>2. CASE ~(Len(s) > n)
  <2>1. Newest(n, s) = SubSeq(s, 1, Len(s)) /\ Len(s) \in Nat
    BY <1>2 DEF Newest
  <2> QED
    BY <1>2, <2>1
<1> QED
  BY <1>1, <1>2

LEMMA PushKeeps == ASSUME DisplayInv, push PROVE DisplayInv'
<1> DEFINE longer == Append(ring, deviceRate)
           cut == IF Len(longer) > Capacity THEN Len(longer) - Capacity ELSE 0
<1>1. /\ longer \in Seq(Rates) /\ Len(longer) = Len(ring) + 1 /\ Len(ring) \in Nat
      /\ \A i \in 1..Len(ring) : longer[i] = ring[i]
      /\ longer[Len(ring) + 1] = deviceRate
  BY DEF DisplayInv, DisplayTypes
<1>2. ring' = Newest(Capacity, longer)
      /\ UNCHANGED <<host, open, deviceRate, readout, pulled, fresh, prepares>>
  BY DEF push, Pushed
<1> HIDE DEF longer
<1>3. /\ ring' \in Seq(Rates) /\ Len(ring') = Len(longer) - cut
      /\ \A i \in 1..Len(ring') : ring'[i] = longer[i + cut]
  <2>1. Capacity \in Nat
    BY Sizes
  <2> HIDE DEF cut
  <2>2. /\ Newest(Capacity, longer) \in Seq(Rates)
        /\ Len(Newest(Capacity, longer)) = IF Len(longer) > Capacity THEN Capacity ELSE Len(longer)
        /\ \A i \in 1..Len(Newest(Capacity, longer)) : Newest(Capacity, longer)[i]
             = longer[i + (IF Len(longer) > Capacity THEN Len(longer) - Capacity ELSE 0)]
    BY <1>1, <2>1, NewestIsSuffix
  <2>3. Len(longer) \in Nat
    BY <1>1
  <2>4. cut = IF Len(longer) > Capacity THEN Len(longer) - Capacity ELSE 0
    BY DEF cut
  <2>5. CASE Len(longer) > Capacity
    BY <1>2, <2>1, <2>2, <2>3, <2>4, <2>5
  <2>6. CASE ~(Len(longer) > Capacity)
    BY <1>2, <2>1, <2>2, <2>3, <2>4, <2>6
  <2> QED
    BY <2>5, <2>6
<1>4. cut \in 0..1 /\ Len(ring') <= Capacity
  BY <1>1, <1>3, Sizes DEF DisplayInv, DisplayTypes
<1> HIDE DEF cut
<1>5. DisplayTypes'
  BY <1>2, <1>3, <1>4 DEF DisplayInv, DisplayTypes
<1>6. StaleIsInFront'
  <2> SUFFICES ASSUME NEW i \in 1..Len(ring'), i > Capacity - fresh * Window
               PROVE  ring'[i] = deviceRate
    BY <1>2 DEF StaleIsInFront
  <2>1. fresh \in Nat /\ Window \in Nat /\ Capacity \in Nat
    BY Sizes DEF DisplayInv, DisplayTypes
  <2> DEFINE gone == fresh * Window
  <2>2. gone \in Nat
    BY <2>1
  <2> HIDE DEF gone
  <2>3. i + cut \in 1..Len(longer) /\ i + cut > Capacity - gone
    BY <1>1, <1>3, <1>4, <2>1, <2>2 DEF gone
  <2>4. CASE i + cut = Len(ring) + 1
    BY <1>1, <1>3, <2>4
  <2>5. CASE i + cut \in 1..Len(ring)
    BY <1>1, <1>3, <2>3, <2>5 DEF DisplayInv, StaleIsInFront, gone
  <2> QED
    BY <1>1, <2>3, <2>4, <2>5
<1> QED
  BY <1>2, <1>5, <1>6
     DEF DisplayInv, RateIsPulled, ReadoutIsTheDevices, StaleAgesOut, ResultIsOfItsRate

\* A result after another: the window that is analysed, and what stays.
LEMMA UpdateKeeps == ASSUME DisplayInv, update PROVE DisplayInv'
<1>1. open /\ (host = "plugin" => pulled) /\ ~pulled' /\ UNCHANGED <<host, open, deviceRate, prepares>>
  BY DEF update
<1>2. CASE Len(ring) < Window
  <2>1. UNCHANGED <<ring, readout, fresh>>
    BY <1>2 DEF update
  <2> QED
    BY <1>1, <2>1 DEF DisplayInv, DisplayTypes, StaleIsInFront, RateIsPulled, ReadoutIsTheDevices,
       StaleAgesOut, ResultIsOfItsRate
<1>3. CASE Len(ring) >= Window
  <2> DEFINE gone == fresh * Window
             gone2 == fresh' * Window
  <2>1. /\ readout' = [readout EXCEPT !.result =
          [computed |-> TRUE, of |-> ToSet(SubSeq(ring, 1, Window))]]
        /\ ring' = SubSeq(ring, Window + 1, Len(ring))
        /\ fresh' = IF fresh < Capacity THEN fresh + 1 ELSE fresh
    BY <1>3, Sizes DEF update, Drained, DisplayInv, DisplayTypes
  <2>2. /\ readout'.rate = readout.rate /\ readout'.result.computed
        /\ readout'.result.of = ToSet(SubSeq(ring, 1, Window))
        /\ DOMAIN readout' = {"rate", "result"}
    BY <2>1 DEF DisplayInv, DisplayTypes
  <2>3. /\ ring' \in Seq(Rates) /\ Len(ring') = Len(ring) - Window
        /\ \A i \in 1..Len(ring') : ring'[i] = ring[i + Window]
    BY <1>3, <2>1, Sizes DEF DisplayInv, DisplayTypes
  <2>4. fresh' \in 1..Capacity /\ fresh \in Nat
    BY <2>1, Sizes DEF DisplayInv, DisplayTypes
  <2>5. gone \in Nat /\ gone2 \in Nat /\ (fresh = Capacity => gone >= Capacity)
        /\ gone2 = (IF fresh < Capacity THEN gone + Window ELSE gone)
    <3>1. \A a, b \in Nat : a * b \in Nat /\ (a + 1) * b = a * b + b /\ (b >= 1 => a * b >= a)
      BY Z3
    <3>2. fresh \in Nat /\ fresh' \in Nat /\ Window \in Nat /\ Window >= 1
      BY <2>4, Sizes
    <3>3. gone \in Nat /\ gone2 \in Nat /\ gone >= fresh
      BY <3>1, <3>2
    <3>4. fresh' = fresh + 1 => gone2 = gone + Window
      BY <3>1, <3>2
    <3> HIDE DEF gone, gone2
    <3>5. fresh' = fresh => gone2 = gone
      BY DEF gone, gone2
    <3> QED
      BY <2>1, <3>2, <3>3, <3>4, <3>5, Sizes
  <2>6. DisplayTypes'
    BY <1>1, <2>2, <2>3, <2>4, Sizes DEF DisplayInv, DisplayTypes
  <2>7. \A i \in 1..Len(ring) : i > Capacity - gone => ring[i] = deviceRate
    BY DEF DisplayInv, StaleIsInFront
  <2> HIDE DEF gone, gone2
  <2>8. StaleIsInFront'
    <3> SUFFICES ASSUME NEW i \in 1..Len(ring'), i > Capacity - gone2 PROVE ring'[i] = deviceRate
      BY <1>1 DEF StaleIsInFront, gone2
    <3>1. i + Window \in 1..Len(ring) /\ i + Window > Capacity - gone
      BY <2>3, <2>4, <2>5, Sizes DEF DisplayInv, DisplayTypes
    <3> QED
      BY <2>3, <2>7, <3>1
  <2>9. readout'.rate = deviceRate \/ (host = "plugin" /\ fresh' < 2)
    <3>1. CASE host = "workbench"
      BY <2>2, <3>1 DEF DisplayInv, ReadoutIsTheDevices, ResultIsOfItsRate
    <3>2. CASE host = "plugin" /\ fresh >= 1
      BY <1>1, <2>2, <3>2 DEF DisplayInv, RateIsPulled
    <3>3. CASE host = "plugin" /\ ~(fresh >= 1)
      BY <2>1, <2>4, <3>3, Sizes
    <3> QED
      BY <3>1, <3>2, <3>3 DEF DisplayInv, DisplayTypes
  <2>10. gone2 >= Capacity + Window => ToSet(SubSeq(ring, 1, Window)) = {deviceRate}
    <3> SUFFICES ASSUME gone2 >= Capacity + Window PROVE ToSet(SubSeq(ring, 1, Window)) = {deviceRate}
      OBVIOUS
    <3>1. gone >= Capacity
      BY <2>4, <2>5, Sizes
    <3>2. \A i \in 1..Window : SubSeq(ring, 1, Window)[i] = deviceRate
      BY <1>3, <2>5, <2>7, <3>1, Sizes DEF DisplayInv, DisplayTypes
    <3>3. DOMAIN SubSeq(ring, 1, Window) = 1..Window /\ 1 \in 1..Window
      BY <1>3, Sizes DEF DisplayInv, DisplayTypes
    <3> QED
      BY <3>2, <3>3 DEF ToSet
  <2>11. gone2 >= Capacity + Window => fresh' >= 2
    <3> SUFFICES ASSUME fresh' = 1 PROVE ~(gone2 >= Capacity + Window)
      BY <2>4
    <3>1. gone2 = Window
      BY Sizes DEF gone2
    <3> QED
      BY <3>1, Sizes
  <2>12. ReadoutIsTheDevices'
    BY <1>1, <2>2, <2>4, <2>9, <2>10, <2>11
       DEF ReadoutIsTheDevices, StaleAgesOut, ResultIsOfItsRate, gone2
  <2>13. RateIsPulled'
    BY <1>1, <2>4, <2>9, Sizes DEF RateIsPulled, DisplayInv, ReadoutIsTheDevices, ResultIsOfItsRate
  <2> QED
    BY <2>6, <2>8, <2>12, <2>13 DEF DisplayInv
<1> QED
  BY <1>2, <1>3, Sizes DEF DisplayInv, DisplayTypes

LEMMA NewRateKeeps == ASSUME DisplayInv, NEW hz \in Rates, newRate(hz) PROVE DisplayInv'
<1>1. /\ deviceRate' = hz /\ fresh' = 0 /\ UNCHANGED <<host, open, ring, pulled>>
      /\ readout' = IF host = "workbench" THEN rebuildReadout(hz) ELSE readout
  BY DEF newRate
<1>2. DisplayTypes' /\ RateIsPulled'
  BY <1>1, Sizes DEF DisplayInv, DisplayTypes, RateIsPulled, rebuildReadout
<1>3. StaleIsInFront'
  <2>1. 0 * Window = 0
    BY Sizes
  <2> QED
    BY <1>1, <2>1, Sizes DEF DisplayInv, DisplayTypes, StaleIsInFront
<1>4. ReadoutIsTheDevices'
  <2>1. ~(0 * Window >= Capacity + Window)
    BY Sizes
  <2> QED
    BY <1>1, <2>1 DEF ReadoutIsTheDevices, StaleAgesOut, ResultIsOfItsRate, rebuildReadout, NoResult
<1> QED
  BY <1>2, <1>3, <1>4 DEF DisplayInv

\* A readout that is rebuilt has no result, and the hz it is given.
LEMMA RebuiltKeeps ==
  ASSUME DisplayInv, NEW hz, readout' = rebuildReadout(hz),
         hz = deviceRate \/ (hz = readout.rate /\ pulled' = pulled),
         UNCHANGED <<host, deviceRate, ring, fresh>>, host = "workbench" => open'
  PROVE  DisplayInv'
<1>1. readout'.rate = hz /\ ~readout'.result.computed /\ DOMAIN readout' = {"rate", "result"}
  BY DEF rebuildReadout, NoResult
<1>2. hz = deviceRate \/ (hz = readout.rate /\ pulled' = pulled)
  OBVIOUS
<1>3. DisplayTypes' /\ StaleIsInFront'
  BY <1>1 DEF DisplayInv, DisplayTypes, StaleIsInFront
<1>4. RateIsPulled'
  BY <1>1, <1>2 DEF DisplayInv, RateIsPulled
<1>5. ReadoutIsTheDevices'
  BY <1>1, <1>2 DEF DisplayInv, ReadoutIsTheDevices, StaleAgesOut, ResultIsOfItsRate
<1> QED
  BY <1>3, <1>4, <1>5 DEF DisplayInv

LEMMA PullKeeps == ASSUME DisplayInv, pullRate PROVE DisplayInv'
<1>1. CASE deviceRate # readout.rate
  <2>1. readout' = rebuildReadout(deviceRate) /\ UNCHANGED <<host, deviceRate, ring, fresh>>
        /\ (host = "workbench" => open')
    BY <1>1 DEF pullRate
  <2> QED
    BY <2>1, RebuiltKeeps
<1>2. CASE deviceRate = readout.rate
  BY <1>2 DEF pullRate, DisplayInv, DisplayTypes, StaleIsInFront, RateIsPulled, ReadoutIsTheDevices,
     StaleAgesOut, ResultIsOfItsRate
<1> QED
  BY <1>1, <1>2

\* For any window, ring and rates: after a device change two results at most show
\* what is left of the old rate (harmonic-readout.cpp:39-66).
THEOREM StaleResultsAgeOut == DisplaySpec => []ReadoutIsTheDevices
<1>1. DisplayInit => DisplayInv
  <2> SUFFICES ASSUME DisplayInit PROVE DisplayInv
    OBVIOUS
  <2>1. FirstRate \in Rates
    BY DisplayAssumption DEF DisplayConstants
  <2>2. DisplayTypes
    <3>1. ring \in Seq(Rates) /\ Len(ring) = 0 /\ deviceRate \in Rates
      BY <2>1 DEF DisplayInit
    <3>2. fresh \in 0..Capacity
      BY Sizes DEF DisplayInit
    <3>3. DOMAIN readout = {"rate", "result"}
      BY DEF DisplayInit
    <3>4. host \in {"workbench", "plugin"} /\ (host = "workbench" => open)
      BY DEF DisplayInit
    <3> QED
      BY <3>1, <3>2, <3>3, <3>4, Sizes DEF DisplayTypes
  <2>4. StaleIsInFront /\ RateIsPulled
    BY DEF DisplayInit, StaleIsInFront, RateIsPulled
  <2>3. ReadoutIsTheDevices
    BY DEF DisplayInit, ReadoutIsTheDevices, StaleAgesOut, ResultIsOfItsRate, NoResult
  <2> QED
    BY <2>2, <2>3, <2>4 DEF DisplayInv
<1>2. DisplayInv /\ [DisplayNext]_displayVars => DisplayInv'
  <2> SUFFICES ASSUME DisplayInv, [DisplayNext]_displayVars PROVE DisplayInv'
    OBVIOUS
  <2>1. CASE setFundamental \/ openEditor \/ closeEditor
    BY <2>1, RebuiltKeeps DEF setFundamental, openEditor, closeEditor
  <2>2. CASE UNCHANGED displayVars
    BY <2>2 DEF displayVars, DisplayInv, DisplayTypes, StaleIsInFront, RateIsPulled,
       ReadoutIsTheDevices, StaleAgesOut, ResultIsOfItsRate
  <2> QED
    BY <2>1, <2>2, NewRateKeeps, PushKeeps, PullKeeps, UpdateKeeps DEF DisplayNext
<1>3. DisplayInv => ReadoutIsTheDevices
  BY DEF DisplayInv
<1> QED
  BY <1>1, <1>2, <1>3, PTL DEF DisplaySpec

-----------------------------------------------------------------------------
(* A parameter's controls                                                  *)

LEMMA GridRange == /\ Grid \in Nat \ {0} /\ MidiTop \in Nat \ {0}
               /\ Controllers \subseteq 0..MidiTop /\ KnobPositions \subseteq 0..Grid
               /\ Deadband \in 0..Grid-1
BY ControlAssumption DEF ControlConstants

LEMMA Quotient ==
  \A a \in Nat, m \in Nat \ {0} : /\ a \div m \in Nat
                                  /\ (a \div m) * m <= a /\ a < (a \div m) * m + m
BY Z3

LEMMA QuotientIs == \A a, q \in Nat, m \in Nat \ {0} : q * m <= a /\ a < q * m + m => a \div m = q
BY Z3

LEMMA Larger == \A a, b \in Nat, m \in Nat \ {0} : a * m < b * m => a < b
BY Z3

LEMMA Counts ==
  ASSUME NEW d \in Descriptors, IsDiscrete(d)
  PROVE  d.discreteCount \in Nat \ {0} /\ 2 * d.discreteCount <= Grid
<1>1. d.discreteCount \in 2..Grid \div 2
  BY ControlAssumption DEF ControlConstants, isValidDescriptor, IsDiscrete
<1>2. (Grid \div 2) * 2 <= Grid /\ Grid \div 2 \in Nat
  BY GridRange, Quotient
<1> QED
  BY <1>1, <1>2, GridRange

\* What a choice publishes comes back as the choice, for any number of choices
\* the range can hold: rounding the centre down leaves it in its bucket.
LEMMA CentreIsInItsBucket ==
  ASSUME NEW d \in Descriptors, IsDiscrete(d), NEW i \in 0..d.discreteCount-1
  PROVE  BucketCentre(d, i) \in 0..Grid /\ BucketOf(d, BucketCentre(d, i)) = i
<1> DEFINE n == d.discreteCount
           c == BucketCentre(d, i)
           cn == c * n
           iG == i * Grid
           nG == n * Grid
<1>1. n \in Nat \ {0} /\ 2 * n <= Grid /\ Grid \in Nat \ {0} /\ i \in Nat /\ i < n
  BY Counts, GridRange
<1> HIDE DEF n
<1>2. c = ((2 * i + 1) * Grid) \div (2 * n)
  BY DEF BucketCentre, n
<1>3. (2 * i + 1) * Grid \in Nat /\ 2 * n \in Nat \ {0}
  BY <1>1
<1>4. c \in Nat /\ c * (2 * n) <= (2 * i + 1) * Grid /\ (2 * i + 1) * Grid < c * (2 * n) + 2 * n
  BY <1>2, <1>3, Quotient
<1> HIDE DEF c
<1>5. /\ c * (2 * n) = 2 * cn /\ (2 * i + 1) * Grid = 2 * iG + Grid
      /\ cn \in Nat /\ iG \in Nat /\ nG \in Nat
  BY <1>1, <1>4
<1>6. iG + Grid <= nG
  BY <1>1
<1> HIDE DEF cn, iG, nG
<1>7. iG <= cn /\ cn < iG + Grid /\ cn < nG
  BY <1>1, <1>4, <1>5, <1>6
<1>8. cn \div Grid = i
  BY <1>1, <1>5, <1>7, QuotientIs DEF iG
<1>9. c < Grid
  <2>1. c * n < Grid * n
    BY <1>1, <1>4, <1>7 DEF cn, nG
  <2> QED
    BY <1>1, <1>4, <2>1, Larger
<1>10. BucketOf(d, c) = Clamp(cn \div Grid, 0, n - 1)
  BY DEF BucketOf, cn, n
<1> QED
  BY <1>1, <1>4, <1>8, <1>9, <1>10 DEF Clamp, c

LEMMA BucketRange ==
  ASSUME NEW d \in Descriptors, IsDiscrete(d), NEW norm \in 0..Grid
  PROVE  BucketOf(d, norm) \in 0..d.discreteCount-1
<1> DEFINE n == d.discreteCount
           q == (norm * n) \div Grid
<1>1. n \in Nat \ {0} /\ Grid \in Nat \ {0}
  BY Counts, GridRange
<1> HIDE DEF n
<1>2. norm * n \in Nat
  BY <1>1
<1>3. q \in Nat
  BY <1>1, <1>2, Quotient
<1>4. BucketOf(d, norm) = Clamp(q, 0, n - 1)
  BY DEF BucketOf, n
<1> HIDE DEF q
<1>5. BucketOf(d, norm) \in 0..n-1
  BY <1>1, <1>3, <1>4 DEF Clamp
<1> QED
  BY <1>5 DEF n

\* Where a control may stand.
Stands(d) == IF IsDiscrete(d) THEN 0..d.discreteCount-1 ELSE 0..Grid

\* A control's position survives publishing and mapping back; a published value
\* stands where the effect maps it.
LEMMA ThereAndBack ==
  ASSUME NEW d \in Descriptors
  PROVE  /\ \A x \in Stands(d) : Published(d, x) \in 0..Grid /\ denormalize(d, Published(d, x)) = x
         /\ \A norm \in 0..Grid : Standing(d, norm) \in Stands(d) /\ Standing(d, norm) = denormalize(d, norm)
<1>1. \A norm \in 0..Grid : Clamp(norm, 0, Grid) = norm
  BY GridRange DEF Clamp
<1>2. CASE IsDiscrete(d)
  <2>1. ASSUME NEW x \in Stands(d)
        PROVE  Published(d, x) \in 0..Grid /\ denormalize(d, Published(d, x)) = x
    <3>1. BucketCentre(d, x) \in 0..Grid /\ BucketOf(d, BucketCentre(d, x)) = x
      BY <1>2, CentreIsInItsBucket DEF Stands
    <3> QED
      BY <1>1, <1>2, <3>1 DEF Published, denormalize
  <2>2. ASSUME NEW norm \in 0..Grid
        PROVE  Standing(d, norm) \in Stands(d) /\ Standing(d, norm) = denormalize(d, norm)
    <3>1. BucketOf(d, norm) \in 0..d.discreteCount-1
      BY <1>2, BucketRange
    <3> QED
      BY <1>1, <1>2, <3>1 DEF Standing, Stands, denormalize
  <2> QED
    BY <2>1, <2>2
<1>3. CASE ~IsDiscrete(d)
  BY <1>1, <1>3 DEF Published, Standing, Stands, denormalize
<1> QED
  BY <1>2, <1>3

LEMMA ControllerRange ==
  ASSUME NEW value \in Controllers PROVE (value * Grid) \div MidiTop \in 0..Grid
<1> DEFINE a == value * Grid
           q == a \div MidiTop
<1>1. value \in Nat /\ value <= MidiTop /\ Grid \in Nat \ {0} /\ MidiTop \in Nat \ {0}
  BY GridRange
<1>2. a \in Nat /\ a <= Grid * MidiTop
  BY <1>1
<1> HIDE DEF a
<1>3. q \in Nat /\ q * MidiTop <= a
  BY <1>1, <1>2, Quotient
<1> HIDE DEF q
<1>4. q <= Grid
  <2> SUFFICES ASSUME Grid < q PROVE FALSE
    BY <1>1, <1>3
  <2>1. Grid * MidiTop < q * MidiTop
    BY <1>1, <1>3
  <2>2. q * MidiTop \in Nat /\ Grid * MidiTop \in Nat
    BY <1>1, <1>3
  <2> QED
    BY <1>2, <1>3, <2>1, <2>2
<1> QED
  BY <1>1, <1>3, <1>4 DEF a, q

ControlShapes ==
  /\ desc \in Descriptors /\ pending \in 0..Grid /\ dirty \in BOOLEAN /\ shown \in Stands(desc)
  /\ posted \in Seq(0..Grid) /\ knob \in KnobPositions /\ lastKnob \in -Grid..Grid

\* The workbench: a control's own edit is what is pending until a reflection
\* overruns it; of a controller's the last reflection still to come is, and
\* once all are shown the control stands for it.
WorkbenchFollows ==
  adapter = "workbench" =>
    /\ lastEdit = "control" => pending = Published(desc, shown)
    /\ lastEdit = "midi" => IF posted = <<>> THEN shown = Standing(desc, pending)
                            ELSE posted[Len(posted)] = pending

\* The Daisy publishes and consumes in one block: between blocks nothing waits,
\* and the effect runs with the reading remembered.
DaisyRemembers ==
  adapter = "daisy" =>
    ~dirty /\ (lastKnob = -Grid \/ (lastKnob \in 0..Grid /\ applied = denormalize(desc, lastKnob)))

ControlsInv == ControlShapes /\ WorkbenchFollows /\ DaisyRemembers

LEMMA ControlStep == ControlsInv /\ [ControlNext]_controlVars => ControlsInv'
<1> SUFFICES ASSUME ControlsInv, [ControlNext]_controlVars PROVE ControlsInv'
  OBVIOUS
<1>1. ASSUME NEW x \in Positions(desc), TurnControl(x) PROVE ControlsInv'
  <2>1. x \in Stands(desc)
    BY GridRange DEF Positions, Stands
  <2>2. /\ adapter = "workbench" /\ shown' = x /\ pending' = Published(desc, x) /\ dirty' = TRUE
        /\ lastEdit' = "control" /\ UNCHANGED <<adapter, desc, applied, posted, knob, lastKnob>>
    BY <1>1 DEF TurnControl, setParameter
  <2>3. pending' \in 0..Grid
    BY <2>1, <2>2, ThereAndBack DEF ControlsInv, ControlShapes
  <2>4. ControlShapes'
    BY <2>1, <2>2, <2>3 DEF ControlsInv, ControlShapes
  <2> QED
    BY <2>2, <2>4 DEF ControlsInv, WorkbenchFollows, DaisyRemembers
<1>2. ASSUME NEW x \in Positions(desc), Automate(x) PROVE ControlsInv'
  <2>1. x \in Stands(desc)
    BY GridRange DEF Positions, Stands
  <2> QED
    BY <1>2, <2>1 DEF Automate, ControlsInv, ControlShapes, WorkbenchFollows, DaisyRemembers
<1>3. ASSUME NEW value \in Controllers, handleIncomingMidiMessage(value) PROVE ControlsInv'
  <2> DEFINE norm == (value * Grid) \div MidiTop
  <2>1. norm \in 0..Grid
    BY ControllerRange
  <2>2. /\ adapter = "workbench" /\ pending' = norm /\ dirty' = TRUE /\ posted' = Append(posted, norm)
        /\ lastEdit' = "midi" /\ UNCHANGED <<adapter, desc, applied, shown, knob, lastKnob>>
    BY <1>3 DEF handleIncomingMidiMessage, setParameter
  <2> HIDE DEF norm
  <2>3. posted' \in Seq(0..Grid) /\ posted' # <<>> /\ posted'[Len(posted')] = norm
    BY <2>1, <2>2 DEF ControlsInv, ControlShapes
  <2>4. ControlShapes'
    BY <2>1, <2>2, <2>3 DEF ControlsInv, ControlShapes
  <2> QED
    BY <2>2, <2>3, <2>4 DEF ControlsInv, WorkbenchFollows, DaisyRemembers
<1>4. ASSUME setNormalized PROVE ControlsInv'
  <2>1. /\ posted # <<>> /\ posted' = Tail(posted) /\ shown' = Standing(desc, Head(posted))
        /\ lastEdit' = (IF lastEdit = "control" THEN "crossed" ELSE lastEdit)
        /\ UNCHANGED <<adapter, desc, pending, dirty, applied, knob, lastKnob>>
    BY <1>4 DEF setNormalized
  <2>2. /\ posted \in Seq(0..Grid) /\ Len(posted) >= 1 /\ Head(posted) = posted[1]
        /\ Head(posted) \in 0..Grid /\ posted' \in Seq(0..Grid) /\ Len(posted') = Len(posted) - 1
    <3>1. posted \in Seq(0..Grid)
      BY DEF ControlsInv, ControlShapes
    <3>2. posted # <<>> => Len(posted) >= 1
      BY <3>1
    <3>3. Tail(posted) \in Seq(0..Grid) /\ Len(Tail(posted)) = Len(posted) - 1
      BY <2>1, <3>1, HeadTailProperties
    <3>4. Head(posted) \in 0..Grid
      BY <2>1, <3>1, HeadTailProperties
    <3>5. Head(posted) = posted[1]
      BY <3>1
    <3> QED
      BY <2>1, <3>1, <3>2, <3>3, <3>4, <3>5
  <2>3. IF posted' = <<>> THEN Len(posted) = 1 ELSE posted'[Len(posted')] = posted[Len(posted)]
    <3>1. \A i \in 1..Len(posted'): posted'[i] = posted[i + 1]
      BY <2>1, <2>2
    <3>2. CASE posted' = <<>>
      <4>1. Len(posted') = 0
        BY <3>2
      <4> QED
        BY <2>2, <3>2, <4>1
    <3>3. CASE posted' # <<>>
      <4>1. Len(posted') >= 1
        BY <2>2, <3>3
      <4> QED
        BY <2>2, <3>1, <3>3, <4>1
    <3> QED
      BY <3>2, <3>3
  <2>4. shown' \in Stands(desc)
    BY <2>1, <2>2, ThereAndBack DEF ControlsInv, ControlShapes
  <2>5. ControlShapes'
    BY <2>1, <2>2, <2>4 DEF ControlsInv, ControlShapes
  <2>6. WorkbenchFollows'
    BY <2>1, <2>2, <2>3 DEF ControlsInv, WorkbenchFollows
  <2> QED
    BY <2>1, <2>5, <2>6 DEF ControlsInv, DaisyRemembers
<1>5. ASSUME NEW v \in KnobPositions, TurnKnob(v) PROVE ControlsInv'
  BY <1>5 DEF TurnKnob, ControlsInv, ControlShapes, WorkbenchFollows, DaisyRemembers
<1>6. ASSUME loop PROVE ControlsInv'
  BY <1>6, GridRange
     DEF loop, setParameter, ControlsInv, ControlShapes, WorkbenchFollows, DaisyRemembers
<1>7. ASSUME process PROVE ControlsInv'
  <2>1. UNCHANGED <<adapter, desc, shown, posted, knob, lastEdit>> /\ dirty' = FALSE
    BY <1>7 DEF process
  <2>2. CASE adapter = "plugin"
    <3>1. pending' = Published(desc, shown) /\ lastKnob' = lastKnob
      BY <1>7, <2>2 DEF process, PublishedByBlock
    <3>2. pending' \in 0..Grid
      BY <3>1, ThereAndBack DEF ControlsInv, ControlShapes
    <3> QED
      BY <2>1, <2>2, <3>1, <3>2 DEF ControlsInv, ControlShapes, WorkbenchFollows, DaisyRemembers
  <2>3. CASE adapter = "daisy" /\ Moved
    <3>1. pending' = knob /\ lastKnob' = knob /\ applied' = denormalize(desc, knob)
      BY <1>7, <2>3 DEF process, PublishedByBlock, Remembered
    <3> QED
      <4>1. knob \in 0..Grid /\ knob \in -Grid..Grid
        BY GridRange DEF ControlsInv, ControlShapes
      <4>2. ControlShapes'
        BY <2>1, <3>1, <4>1 DEF ControlsInv, ControlShapes
      <4>3. WorkbenchFollows' /\ DaisyRemembers'
        BY <2>1, <2>3, <3>1, <4>1 DEF WorkbenchFollows, DaisyRemembers
      <4> QED
        BY <4>2, <4>3 DEF ControlsInv
  <2>4. CASE adapter = "daisy" /\ ~Moved
    <3>1. pending' = pending /\ lastKnob' = lastKnob /\ applied' = applied
      BY <1>7, <2>4 DEF process, PublishedByBlock, Remembered, ControlsInv, DaisyRemembers
    <3> QED
      BY <2>1, <2>4, <3>1 DEF ControlsInv, ControlShapes, WorkbenchFollows, DaisyRemembers
  <2>5. CASE adapter \notin {"plugin", "daisy"}
    <3>1. pending' = pending /\ lastKnob' = lastKnob
      BY <1>7, <2>5 DEF process, PublishedByBlock
    <3> QED
      BY <2>1, <2>5, <3>1 DEF ControlsInv, ControlShapes, WorkbenchFollows, DaisyRemembers
  <2> QED
    BY <2>2, <2>3, <2>4, <2>5
<1>8. CASE UNCHANGED controlVars
  BY <1>8 DEF controlVars, ControlsInv, ControlShapes, WorkbenchFollows, DaisyRemembers
<1> QED
  BY <1>1, <1>2, <1>3, <1>4, <1>5, <1>6, <1>7, <1>8 DEF ControlNext

\* Positions, published values and posted reflections stay in range, and every
\* adapter's cell holds what its own control left there.
THEOREM ControlsHold == ControlSpec => []ControlsInv
<1>1. ControlInit => ControlsInv
  <2> SUFFICES ASSUME ControlInit PROVE ControlsInv
    OBVIOUS
  <2>1. /\ desc \in Descriptors /\ pending = 0 /\ dirty = FALSE /\ posted = <<>> /\ knob \in KnobPositions
        /\ lastKnob = -Grid /\ lastEdit = "none"
        /\ shown = IF adapter = "workbench" /\ IsDiscrete(desc) THEN 0
                   ELSE Standing(desc, normalize(desc, desc.defaultValue))
    BY DEF ControlInit
  <2>2. normalize(desc, desc.defaultValue) \in 0..Grid
    <3>1. CASE IsDiscrete(desc)
      <4> DEFINE i == Clamp(desc.defaultValue, 0, desc.discreteCount - 1)
      <4>1. i \in 0..desc.discreteCount-1
        <5>1. desc.defaultValue \in 0..desc.discreteCount-1
          BY <2>1, <3>1, ControlAssumption DEF ControlConstants, isValidDescriptor, IsDiscrete
        <5>2. desc.discreteCount \in Nat
          BY <2>1, <3>1, Counts
        <5> QED
          BY <5>1, <5>2 DEF Clamp
      <4> HIDE DEF i
      <4>2. BucketCentre(desc, i) \in 0..Grid
        BY <2>1, <3>1, <4>1, CentreIsInItsBucket
      <4> QED
        BY <3>1, <4>2 DEF normalize, i
    <3>2. CASE ~IsDiscrete(desc)
      BY <2>1, <3>2, GridRange, ControlAssumption
         DEF ControlConstants, isValidDescriptor, IsDiscrete, normalize, Clamp
    <3> QED
      BY <3>1, <3>2
  <2>3. shown \in Stands(desc)
    <3>1. Standing(desc, normalize(desc, desc.defaultValue)) \in Stands(desc)
      BY <2>1, <2>2, ThereAndBack
    <3>2. IsDiscrete(desc) => 0 \in Stands(desc)
      BY <2>1, Counts DEF Stands
    <3> QED
      BY <2>1, <3>1, <3>2
  <2>4. ControlShapes
    <3>1. posted \in Seq(0..Grid)
      BY <2>1
    <3>2. pending \in 0..Grid /\ lastKnob \in -Grid..Grid
      BY <2>1, GridRange
    <3> QED
      BY <2>1, <2>3, <3>1, <3>2 DEF ControlShapes
  <2> QED
    BY <2>1, <2>4 DEF ControlsInv, WorkbenchFollows, DaisyRemembers
<1> QED
  BY <1>1, ControlStep, PTL DEF ControlSpec

\* For any descriptor, any number of choices the range can hold, and any number of
\* reflections on their way: a control that has caught up shows what the effect
\* makes of the value published last (parameter-view.cpp:55-71, parameter.h:58-115).
THEOREM ControlsStandForTheEffect == ControlSpec => []ControlStandsForTheEffect
<1>1. ControlsInv => ControlStandsForTheEffect
  <2> SUFFICES ASSUME ControlsInv, adapter = "workbench", posted = <<>>, lastEdit \in {"control", "midi"}
               PROVE  denormalize(desc, pending) = denormalize(desc, Published(desc, shown))
    BY DEF ControlStandsForTheEffect
  <2>1. CASE lastEdit = "control"
    BY <2>1 DEF ControlsInv, WorkbenchFollows
  <2>2. CASE lastEdit = "midi"
    <3>1. shown = Standing(desc, pending)
      BY <2>2 DEF ControlsInv, WorkbenchFollows
    <3>2. shown = denormalize(desc, pending) /\ denormalize(desc, Published(desc, shown)) = shown
      BY <3>1, ThereAndBack DEF ControlsInv, ControlShapes
    <3> QED
      BY <3>2
  <2> QED
    BY <2>1, <2>2
<1> QED
  BY <1>1, ControlsHold, PTL

\* A plugin's block runs with the choice its host shows, a Daisy's within the dead
\* band of its knob (plugin-parameters.h:28-40, daisy-main.cpp:51-57).
THEOREM BlocksFollowTheirControls == ControlSpec => BlockFollowsTheControl
<1>1. ControlsInv /\ [ControlNext]_controlVars =>
        [process => /\ adapter = "plugin" => applied' = shown
                    /\ adapter = "daisy" => /\ knob - lastKnob' \in -Deadband..Deadband
                                            /\ applied' = denormalize(desc, lastKnob')]_controlVars
  <2> SUFFICES ASSUME ControlsInv, process
               PROVE  /\ adapter = "plugin" => applied' = shown
                      /\ adapter = "daisy" => /\ knob - lastKnob' \in -Deadband..Deadband
                                              /\ applied' = denormalize(desc, lastKnob')
    OBVIOUS
  <2>1. ASSUME adapter = "plugin" PROVE applied' = shown
    <3>1. applied' = denormalize(desc, Published(desc, shown))
      BY <2>1 DEF process, PublishedByBlock
    <3> QED
      BY <3>1, ThereAndBack DEF ControlsInv, ControlShapes
  <2>2. CASE adapter = "daisy" /\ Moved
    <3>1. lastKnob' = knob /\ applied' = denormalize(desc, knob) /\ knob \in 0..Grid
      BY <2>2, GridRange DEF process, PublishedByBlock, Remembered, ControlsInv, ControlShapes
    <3> QED
      BY <2>2, <3>1, GridRange
  <2>3. CASE adapter = "daisy" /\ ~Moved
    <3>1. lastKnob' = lastKnob /\ applied' = applied /\ knob \in 0..Grid
      BY <2>3, GridRange
         DEF process, PublishedByBlock, Remembered, ControlsInv, ControlShapes, DaisyRemembers
    <3>2. lastKnob \in -Grid..Grid /\ ~(knob < lastKnob - Deadband) /\ ~(knob > lastKnob + Deadband)
      BY <2>3 DEF Moved, ControlsInv, ControlShapes
    <3>3. lastKnob # -Grid
      BY <3>1, <3>2, GridRange
    <3>4. applied = denormalize(desc, lastKnob)
      BY <2>3, <3>3 DEF ControlsInv, DaisyRemembers
    <3> QED
      BY <2>3, <3>1, <3>2, <3>4, GridRange
  <2> QED
    BY <2>1, <2>2, <2>3
<1> QED
  BY <1>1, ControlsHold, PTL DEF ControlSpec, BlockFollowsTheControl

\* What the effect runs with is a position, and no more reflections wait than may.
AppliedInRange == applied \in Stands(desc) /\ Len(posted) <= MaxPosted

LEMMA AppliedStays ==
  ASSUME ControlsInv, ControlsInv', AppliedInRange, [ControlNext]_controlVars
  PROVE  AppliedInRange'
<1>1. ASSUME UNCHANGED <<desc, applied, posted>> PROVE AppliedInRange'
  BY <1>1 DEF AppliedInRange
<1>2. ASSUME NEW value \in Controllers, handleIncomingMidiMessage(value) PROVE AppliedInRange'
  <2>1. /\ Len(posted) < MaxPosted /\ UNCHANGED <<desc, applied>>
        /\ posted' = Append(posted, (value * Grid) \div MidiTop)
    BY <1>2 DEF handleIncomingMidiMessage
  <2>2. posted \in Seq(0..Grid) /\ (value * Grid) \div MidiTop \in 0..Grid /\ MaxPosted \in Nat
    BY ControllerRange, ControlAssumption DEF ControlsInv, ControlShapes, ControlConstants
  <2>3. Len(posted') = Len(posted) + 1
    BY <2>1, <2>2
  <2> QED
    BY <2>1, <2>2, <2>3 DEF AppliedInRange
<1>3. CASE setNormalized
  <2>1. posted # <<>> /\ posted' = Tail(posted) /\ UNCHANGED <<desc, applied>>
    BY <1>3 DEF setNormalized
  <2>2. posted \in Seq(0..Grid) /\ MaxPosted \in Nat
    BY ControlAssumption DEF ControlsInv, ControlShapes, ControlConstants
  <2>3. Len(posted') = Len(posted) - 1 /\ Len(posted) \in Nat
    BY <2>1, <2>2, HeadTailProperties
  <2> QED
    BY <2>1, <2>2, <2>3 DEF AppliedInRange
<1>4. CASE process
  <2>1. /\ UNCHANGED <<desc, posted>> /\ applied' \in {applied, denormalize(desc, pending')}
    BY <1>4 DEF process
  <2>2. pending' \in 0..Grid /\ desc \in Descriptors
    BY DEF ControlsInv, ControlShapes
  <2>3. denormalize(desc, pending') \in Stands(desc)
    BY <2>2, ThereAndBack
  <2> QED
    BY <2>1, <2>3 DEF AppliedInRange
<1> QED
  BY <1>1, <1>2, <1>3, <1>4 DEF ControlNext, controlVars, TurnControl, Automate, TurnKnob, loop

\* Whatever a control, a controller, a knob or a host does, what is published is a
\* position of the range, and what the effect runs with a choice there is.
THEOREM ControlTypes == ControlSpec => []ControlTypeOK
<1>1. ControlInit => AppliedInRange
  <2> SUFFICES ASSUME ControlInit PROVE AppliedInRange
    OBVIOUS
  <2>1. desc \in Descriptors /\ applied = desc.defaultValue /\ Len(posted) = 0 /\ MaxPosted \in Nat
    BY ControlAssumption DEF ControlInit, ControlConstants
  <2>2. desc.defaultValue \in Stands(desc)
    BY <2>1, ControlAssumption DEF ControlConstants, isValidDescriptor, IsDiscrete, Stands
  <2> QED
    BY <2>1, <2>2 DEF AppliedInRange
<1>2. ControlsInv /\ ControlsInv' /\ AppliedInRange /\ [ControlNext]_controlVars => AppliedInRange'
  BY AppliedStays
<1>3. ControlsInv /\ AppliedInRange => ControlTypeOK
  BY DEF ControlsInv, ControlShapes, AppliedInRange, ControlTypeOK, Stands
<1> QED
  BY <1>1, <1>2, <1>3, ControlsHold, PTL DEF ControlSpec

-----------------------------------------------------------------------------
(* The run of all parts                                                    *)

\* A part that rests takes no step of its own, so a behaviour of the run is one
\* of each part.
LEMMA EveryPartIsItself == HostSpec => ControlSpec /\ AppSpec
<1>1. HostInit => ControlInit /\ AppInit
  BY DEF HostInit
<1>2. [HostNext]_hostVars => [ControlNext]_controlVars /\ [AppNext]_appVars
  BY DEF HostNext, hostVars
<1> QED
  BY <1>1, <1>2, PTL DEF HostSpec, ControlSpec, AppSpec

\* No step of a control or of the workbench takes a value out of its range, for
\* any files, lengths, devices and blocks, any descriptors, controllers and dead
\* band: what is published is a position, a choice shown is one there is, a source
\* plays within its file, and what is stored can be read back.
THEOREM HostTypesHold == HostSpec => []HostTypeOK
<1>1. ControlSpec => []ControlTypeOK
  BY ControlTypes
<1>2. AppSpec => []AppTypeOK
  BY SessionTypes
<1> QED
  BY <1>1, <1>2, EveryPartIsItself, PTL DEF HostTypeOK

\* In the run of all parts: a block runs on the value the control shows, a save
\* never replaces the device that is away, a looped file has no seam.
THEOREM HostStepsHold == HostSpec => HostSteps
BY EveryPartIsItself, BlocksFollowTheirControls, PreferenceOutlastsTheDevice, LoopsAreSeamless, PTL
   DEF HostSteps

=============================================================================
