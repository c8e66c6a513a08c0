SPECIFICATION CircuitSpec
CONSTANTS
  MaxNodes = 7
  MaxBranches = 2
  MaxComponents = 12
  MaxIterations = 6
  VoltageTol <- Millivolt
  Dt <- One
  Rule = "BackwardEuler"
  Circuits <- BuiltCircuits
  Amplifies <- GainOf
  Parts <- Pool
  HandNodes = 3
  HandParts = 3
  Drives <- TheDrives
  Seeds <- TheSeeds
  Replacements <- TheSpares
  MaxWork = 2
  Shared = FALSE
  Elements <- TheElements
  Waves <- TheWaves
  LeafDrives <- TheSources
  MaxSamples = 4
CHECK_DEADLOCK FALSE
INVARIANTS
  CircuitTypeOK
  TopologiesAreRight
  AnswersObeyTheCircuit
  LabsAgree
PROPERTIES
  StateCarriesTheLaw
