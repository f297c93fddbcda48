CONSTANTS
  NumChannels = 3
  First367 = 1
  Mask = {0, 2}
  MaxAttempts = 1
  MaxFaults = 1
  Start = 2
  Stop = 5
  Step = 4
  Fixed = 2
  Waveforms = 1
  Dirs = {1, 2}
  MaxStarts = 2
  MaxCrashes = 1
  N = 4
  MaxHeight = 2
  Bounds <- SomeBounds
  Shifts <- SomeShifts
  MinBase = 1
  MinLen = 2
  Tasks = {1, 2, 3}
  Jobs = 2
SPECIFICATION FairSpec
INVARIANTS
  DirectoriesAreTrue
  WindowsHoldPulse
PROPERTIES
  LedIsAsAsked
  FitsAreSound
CHECK_DEADLOCK FALSE
