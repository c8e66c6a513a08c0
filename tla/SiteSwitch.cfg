SPECIFICATION Spec
CONSTANTS
  Ticks = 1
  Horizon = 6
  Channel = {0, 1}
  Rates = {1, 2}
  MaxSeconds = 2
  Budget = 3
  MaxEdits = 4
INVARIANTS SiteSwitchIsClean
