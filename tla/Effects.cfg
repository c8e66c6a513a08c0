SPECIFICATION EffectsSpec
CONSTANTS
  \* A sample is eight ticks: enough for the halves of an oversampled stream.
  Ticks = 8
  Horizon = 128
  \* Compressor: two channels, and a lookahead that the higher rate takes over the budget.
  Channel = {0, 1}
  Rates = {1, 2}
  MaxSeconds = 2
  Budget = 3
  MaxEdits = 4
  \* A halfband of four dense taps: twice in the saturation core, a group
  \* delay of 4.5 samples; once, twice or three times in the tape effect.
  Center = 3
  Stages = 2
  DryCapacity = 8
  Voicing = {"softClip", "tape"}
  MaxSaturationEdits = 3
  TapeValues = {0, 1}
  TapeDryCapacity = 8
  MaxTapeEdits = 2
  \* ModulatedDelay: lines of two and three samples; delays of none, one, and
  \* beyond the line.
  Capacities = {2, 3}
  Delays = {0, 1, 5}
  Divisors = {1, 2, 4}
  Nominal = 2
  WowRange = 1
  WowGuard = 1
  MaxCalls = 2
  \* Dynamics: three levels, and a hold of none, one or two samples, so that one
  \* hold may outlive a shorter one; the curve is read 8 dB each way.
  Top = 2
  HoldTimes = {1, 2}
  Reach = 8
  Curves <- CurveSettings
  \* ProgramDependent: two channels, prepared as one and as two; a walk finds up
  \* to two edits.
  PdsChannel = {0, 1}
  MaxNorm = 1
  ToneBases = {0, 1}
  DriveDepths = {0, 1}
  ToneDepths <- DownOrNot
  MaxFound = 2
  MaxPrepares = 2
INVARIANTS
  EffectsTypeOK
  LatenessIsKnown
  LatencyIsDelay
  NothingStale
  ParametersReach
