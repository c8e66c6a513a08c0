SPECIFICATION FairBoard
CONSTANTS
  Requested = {44100, 48000, 96000}
  MaxResets = 1
  PollLimit = 2
  MaxCycles = 1
  MaxEvents = 2
\* Three-bit words, two cycles a microsecond, and a FIFO for one record of small
\* numbers; a block of five cycles wraps the counter.
  Wrap = 8
  CyclesPerUs = 2
  Base = 2
  Fields = {"bp"}
  TxBytes = 20
  EpBytes = 8
  Costs = {1, 5}
  MaxOpens = 1
\* A stream at a twelfth of its real sizes.
  Silence = silence
  Garbled = garbled
  Tone = tone
  Capacity = 20
  Block = 4
  MaxPacket = 5
  StartupFill = 10
  FifoDepth = 60
  ShortAccepts = FALSE
  CountLimit = 1
  StreamFormat = "Pcm16"
  Rates <- BothRates
  MaxJitter = 0
  MinPasses = 2
CHECK_DEADLOCK FALSE
INVARIANTS
  BoardTypeOK
  EnumerationIsRight
  BoardComesUpWhole
  TelemetryIsHonest
  PaceIsKept
PROPERTIES
  BoardSettles
