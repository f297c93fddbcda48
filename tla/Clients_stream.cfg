CONSTANTS
  Capacity = 2
  Modulus = 8
  MaxChunk = 3
  Requests <- MCRequests
  Afes = 2
  MaxRuns = 2
  MaxPending = 1
  MaxRestarts = 1
  MaxOthers = 1
  MaxPoints = 2
  Items = 2
  MaxList = 2
  Top = 1
  MaxProcesses = 2
  MaxWaveforms = 2
  MaxLosses = 1
SPECIFICATION AllSpec
INVARIANT StreamIsSaved
