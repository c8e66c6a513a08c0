SPECIFICATION ParametersSpec
CONSTANTS
  NumParams = 3
  Preset = 1
  Shaped = {2}
  Settings = {s, u}
  Rows = {r}
  Default = init
  Threads = {ui, midi}
  ParamCount = 2
  Binding <- SvfBinding
  Level = {low, high}
  Other = note
  FifoPackets = 3
  RingSlots = 4
  Nothing = nothing
INVARIANTS
  ParametersTypeOK
  NoEditStranded
  ControllersArrive
PROPERTIES
  PrepareKeepsParameters
  EditsLand
  BlockRunsOnLatest
