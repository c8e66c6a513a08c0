SPECIFICATION Spec
CONSTANTS
  NumParams = 3
  Preset = 1
  Shaped = {2}
  Settings = {s, u}
  Rows = {r}
  Default = init
  Threads = {ui}
INVARIANTS
  EditOverridesPreset
