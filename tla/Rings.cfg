SPECIFICATION RingsSpec
CONSTANTS
  Capacity = 3
  MaxRequest = 4
  Frame = {f1, f2}
  Silence = silence
  ProbeCapacity = 3
  PushSizes = {1, 2}
  DrainSizes = {0, 2, 3}
  MaxAttempts = 2
  MaxSamples = 7
  Reordered = FALSE
  Garbled = garbled
  Block = 2
  MaxPacket = 3
  StartupFill = 2
  FifoDepth = 8
  ShortAccepts = TRUE
  CountLimit = 1
  StreamFormat = "Pcm16"
  MaxFrames = 6
  Tears = {0, 1}
INVARIANTS
  RingsTypeOK
  RingIsExact
  DrainIsCoherent
  LossIsAccounted
  StreamIsFaithful
PROPERTIES
  ImplementsContract
  StreamDrains
