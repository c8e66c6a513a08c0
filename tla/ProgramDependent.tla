-------------------------- MODULE ProgramDependent ---------------------------
(***************************************************************************)
(* The signal path of core/effects/program-dependent-saturation: one core  *)
(* per channel (program-dependent-saturation-core.h) whose saturator is    *)
(* moved by the level it detects, and the routing that links channels.     *)
(*                                                                         *)
(* A level is already clamped to the detection window: norm, in 0..Top.    *)
(* The level a detector stands at is any level, whatever it listens to: an *)
(* input, a key, or an output fed back, which may itself be anything.  Two *)
(* of the four targets are kept: drive, pushed on every sample as bias and *)
(* mix are, and tone, pushed when a block starts; the drive's base stays.  *)
(* How edits reach the walk of applyPending() is ParamHandoff's; here a    *)
(* walk finds any few of them.                                             *)
(***************************************************************************)
EXTENDS Integers, FiniteSets

CONSTANTS
  PdsChannel,  \* the channels of the widest context, 0 the designated one
  MaxNorm,     \* the upper end of the detection window
  ToneBases,   \* values of the tone, on the scale of a level
  DriveDepths, \* and of the depths of its modulation and of the drive's,
  ToneDepths,  \* of any sign
  MaxFound,    \* bounds of the model: edits one walk finds
  MaxPrepares  \* and prepare() and reset() calls

VARIABLES
  pdsCores,      \* cores_
  pdsChannels,
  pdsSettings,   \* the applied values: base, depth, link
  width,         \* channels of the buffer in progress, 0 while the stream is stopped
  sampled,       \* a sample of it has been processed
  heardNorm,     \* per channel: the level that moved its last sample
  tonedBy,       \* per channel: that level when the block started
  prepares
pdsVars == <<pdsCores, pdsChannels, pdsSettings, width, sampled, heardNorm, tonedBy, prepares>>

PdsConstants == /\ IsFiniteSet(PdsChannel) /\ PdsChannel = 0..Cardinality(PdsChannel) - 1 /\ 0 \in PdsChannel
                /\ {MaxNorm, MaxFound, MaxPrepares} \subseteq Nat
                /\ ToneBases \subseteq 0..MaxNorm /\ DriveDepths \cup ToneDepths \subseteq Int

Target == {"drive", "tone"}

\* The parameters kept, and the values they can be given.
Values ==
  [preset |-> {"none", "variMu"}, toneBase |-> ToneBases, driveDepth |-> DriveDepths,
   toneDepth |-> ToneDepths, link |-> {"perChannel", "linked"}]
Parameter == DOMAIN Values

\* What a walk can find: for each parameter one value, or none.
Found(parameter) == {{}} \cup {{v} : v \in Values[parameter]}
Findings ==
  {found \in [preset : Found("preset"), toneBase : Found("toneBase"), link : Found("link"),
              driveDepth : Found("driveDepth"), toneDepth : Found("toneDepth")] :
     Cardinality({p \in Parameter : found[p] # {}}) <= MaxFound}

\* kPdsPresetConfigs, the depths of the neutral row and of one that moves; a
\* row names both targets, so it ends a tone modulation dialled in by hand.
PresetConfig(preset) == [drive |-> IF preset = "none" THEN 0 ELSE 1, tone |-> 0]

Still == [t \in Target |-> 0]
FreshCore == [base |-> Still, depth |-> Still, saturator |-> Still, lastNorm |-> 0]

---------------------------------------------------------------------------
(* The core's setters.                                                     *)

SetStaticTone(core, value) == [core EXCEPT !.base.tone = value, !.saturator.tone = value]

\* MUTANT of SetDepth: a tone depth of zero leaves the tone where it was moved to.
SetDepthFrozen(core, target, depth) == [core EXCEPT !.depth[target] = depth]

\* Without a depth newBlock() leaves the tone alone, so it is put back here.
SetDepth(core, target, depth) ==
  LET set == [core EXCEPT !.depth[target] = depth]
  IN  IF target = "tone" /\ depth = 0 THEN [set EXCEPT !.saturator.tone = core.base.tone] ELSE set

\* What one found parameter writes into the settings, a preset its row.
Noted(s, parameter, value) ==
  CASE parameter = "preset" -> [s EXCEPT !.depth = PresetConfig(value)]
    [] parameter = "toneBase" -> [s EXCEPT !.base.tone = value]
    [] parameter = "driveDepth" -> [s EXCEPT !.depth.drive = value]
    [] parameter = "toneDepth" -> [s EXCEPT !.depth.tone = value]
    [] OTHER -> [s EXCEPT !.link = value]

\* And what it pushes to a core.
Pushed(core, parameter, value) ==
  CASE parameter = "preset" ->
         LET row == PresetConfig(value)
         IN  SetDepth(SetDepth(core, "drive", row.drive), "tone", row.tone)
    [] parameter = "toneBase" -> SetStaticTone(core, value)
    [] parameter = "driveDepth" -> SetDepth(core, "drive", value)
    [] parameter = "toneDepth" -> SetDepth(core, "tone", value)
    [] OTHER -> core

Prepared(n) == {c \in PdsChannel : c < n}
OnChannels(n, all, Do(_)) == [c \in PdsChannel |-> IF c < n THEN Do(all[c]) ELSE all[c]]

\* A visit of the walk: a parameter for which nothing was found is passed by.
NotedFrom(s, found, parameter) ==
  IF found[parameter] = {} THEN s
  ELSE Noted(s, parameter, CHOOSE v \in found[parameter] : TRUE)
PushedFrom(core, found, parameter) ==
  IF found[parameter] = {} THEN core
  ELSE Pushed(core, parameter, CHOOSE v \in found[parameter] : TRUE)

\* applyPending() takes the parameters in this order: the preset first, so that
\* what is edited beside it overrides it.
Walk(x, Visit(_, _)) ==
  Visit(Visit(Visit(Visit(Visit(x, "preset"), "toneBase"), "driveDepth"), "toneDepth"), "link")

ApplyPending(found) ==
  [settings |-> Walk(pdsSettings, LAMBDA s, parameter : NotedFrom(s, found, parameter)),
   cores |-> OnChannels(pdsChannels, pdsCores,
               LAMBDA core : Walk(core, LAMBDA k, parameter : PushedFrom(k, found, parameter)))]

\* applyAll(): every applied value, pushed to a core.
ApplyAll(core) ==
  LET based == SetStaticTone(core, pdsSettings.base.tone)
  IN  SetDepth(SetDepth(based, "drive", pdsSettings.depth.drive), "tone", pdsSettings.depth.tone)

---------------------------------------------------------------------------
PdsInit ==
  /\ pdsCores = [c \in PdsChannel |-> FreshCore] /\ pdsChannels = 0
  /\ pdsSettings = [base |-> Still, depth |-> Still, link |-> "perChannel"]
  /\ width = 0 /\ sampled = FALSE /\ prepares = 0
  /\ heardNorm = [c \in PdsChannel |-> 0] /\ tonedBy = [c \in PdsChannel |-> 0]

ClearedCores(n) ==
  /\ prepares < MaxPrepares /\ prepares' = prepares + 1
  /\ pdsCores' = OnChannels(n, pdsCores, LAMBDA core : ApplyAll([core EXCEPT !.lastNorm = 0]))
  /\ pdsChannels' = n /\ width' = 0 /\ sampled' = FALSE
  /\ heardNorm' = [c \in PdsChannel |-> IF c < n THEN 0 ELSE heardNorm[c]]
  /\ tonedBy' = [c \in PdsChannel |-> IF c < n THEN 0 ELSE tonedBy[c]]
  /\ UNCHANGED pdsSettings

\* prepare() and reset(), the stream stopped.
PreparePds == \E n \in 1..Cardinality(PdsChannel) : ClearedCores(n)
ResetPds == pdsChannels > 0 /\ ClearedCores(pdsChannels)

\* modulate(): depth times a curve through (0, 0) and (1, 1).
Modulate(depth, norm) == depth * norm
Clamp(v) == IF v < 0 THEN 0 ELSE IF v > MaxNorm THEN MaxNorm ELSE v
Moved(core, target, norm) == Clamp(core.base[target] + Modulate(core.depth[target], norm))

\* newBlock(lastNorm()): the tone of the block, from the level before it.
NewBlock(core) ==
  IF core.depth.tone = 0 THEN core
  ELSE [core EXCEPT !.saturator.tone = Moved(core, "tone", core.lastNorm)]

\* process() up to its sample loop; a buffer may be narrower than prepared for.
StartBlock ==
  /\ pdsChannels > 0
  /\ \E found \in Findings, n \in 1..pdsChannels :
       /\ pdsSettings' = ApplyPending(found).settings
       /\ pdsCores' = OnChannels(n, ApplyPending(found).cores, NewBlock)
       /\ width' = n
       /\ tonedBy' = [c \in PdsChannel |-> IF c < n THEN heardNorm[c] ELSE tonedBy[c]]
  /\ sampled' = FALSE
  /\ UNCHANGED <<pdsChannels, heardNorm, prepares>>

Levels == 0..MaxNorm

\* The level each channel of the buffer is moved by: its own detector's, or the
\* one of channel 0, which hears the loudest of the linked channels.
Norms ==
  IF pdsSettings.link = "linked" THEN {[c \in Prepared(width) |-> norm] : norm \in Levels}
  ELSE [Prepared(width) -> Levels]

\* MUTANT of CarriedLevel: only the core that detected keeps the level.
CarriedLevelAlone(core, norm, detects) == IF detects THEN [core EXCEPT !.lastNorm = norm] ELSE core

\* Every core keeps the level for its next block, not only the one that detected.
CarriedLevel(core, norm, detects) == [core EXCEPT !.lastNorm = norm]

ProcessWithNorm(core, norm, detects) ==
  [CarriedLevel(core, norm, detects) EXCEPT !.saturator.drive = Moved(core, "drive", norm)]

\* One sample of processBlock().
Sample ==
  /\ width > 0
  /\ \E norms \in Norms :
       /\ pdsCores' = [c \in PdsChannel |->
                      IF c >= width THEN pdsCores[c]
                      ELSE ProcessWithNorm(pdsCores[c], norms[c],
                                           pdsSettings.link = "perChannel" \/ c = 0)]
       /\ heardNorm' = [c \in PdsChannel |-> IF c < width THEN norms[c] ELSE heardNorm[c]]
  /\ sampled' = TRUE
  /\ UNCHANGED <<pdsChannels, pdsSettings, width, tonedBy, prepares>>

PdsNext == PreparePds \/ ResetPds \/ StartBlock \/ Sample

PdsSpec == PdsInit /\ [][PdsNext]_pdsVars
---------------------------------------------------------------------------
PdsTypeOK ==
  /\ pdsChannels \in 0..Cardinality(PdsChannel) /\ width \in 0..pdsChannels
  /\ \A c \in PdsChannel : pdsCores[c].saturator \in [Target -> Levels]

Base(target, norm) == Clamp(pdsSettings.base[target] + pdsSettings.depth[target] * norm)

\* FR-007 and SC-003: what a running saturator works with is the effect's base
\* plus the depth times a level, the base itself where the depth is zero, and no
\* other target moves: for the tone the level that moved the channel's last
\* sample before the block, for the drive the one of this sample.  Whatever was
\* edited, preset, linked, narrowed, prepared or reset on the way.
ModulationIsBasePlusOffset ==
  \A c \in Prepared(width) :
    /\ pdsCores[c].saturator.tone = Base("tone", tonedBy[c])
    /\ sampled => pdsCores[c].saturator.drive = Base("drive", heardNorm[c])

\* A stopped effect is at its bases: nothing it moved before a prepare() or a
\* reset() is left in a saturator's tone.
StoppedIsStatic ==
  width = 0 => \A c \in Prepared(pdsChannels) : pdsCores[c].saturator.tone = pdsSettings.base.tone
=============================================================================
