SPECIFICATION HostSpec
CONSTANTS
  Parts = {"measure"}
  AnySweep = TRUE
  MaxOrder = 3
\* A parameter of 64 steps and the controls that drive it.
  Grid = 64
  Descriptors <- TheDescriptors
  Controllers = {0, 1, 42, 64, 126, 127}
  MidiTop = 127
  KnobPositions = {0, 3, 21, 22, 40, 64}
  Deadband = 3
  MaxPosted = 2
\* One file shorter than two blocks, one longer; a device without inputs.
  Files = {"riff", "song"}
  Devices = {"mic", "dac"}
  None = "none"
  Inputless = {"dac"}
  Length <- TheLength
  BlockSize = 2
  Start <- FirstLaunch
  MaxUpsets = 3
\* A window of 8192 in a ring of 12288, in blocks of 4096.
  Rates = {44, 48}
  FirstRate = 48
  Window = 2
  Capacity = 3
  MaxPrepares = 3
CHECK_DEADLOCK FALSE
INVARIANTS
  SweepReadsAnyFrequency
