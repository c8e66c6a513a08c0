SPECIFICATION FairNucleo
CONSTANTS
  Silence = silence
  Garbled = garbled
  Pcm = pcm
  Capacity = 3
  Block = 1
  MaxPacket = 1
  StartupFill = 2
  FifoDepth = 4
  ShortAccepts = FALSE
  CountLimit = 1
  MaxEvents = 1
  Alts = {1, 2}
  CleanSwitch = TRUE
  BusResets = FALSE
CHECK_DEADLOCK FALSE
INVARIANTS
  TypeOK
  NothingGarbled
  RingsRestart
PROPERTIES
  SilenceIsAttributed
  StreamsSettle
