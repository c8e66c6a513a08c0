SPECIFICATION Spec
CONSTANTS
  Capacity = 2
  Silence = silence
  Garbled = garbled
  Pcm = pcm
  Block = 1
  MaxPacket = 2
  StartupFill = 1
  FifoDepth = 6
  ShortAccepts = FALSE
  CountLimit = 1
  MaxEvents = 1
  Alts = {1, 2}
  CleanSwitch = FALSE
  BusResets = FALSE
INVARIANTS
  NothingGarbled
