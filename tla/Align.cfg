CONSTANTS
  NAfe = 2
  Taps = 4
  Slips = 3
  Reads = 3
  MaxPolls = 2
  Words = {x, y, z}
  Expected = x
  MaxTaps = 7
  RunWords = {w0, w1, w2}
  Ids = {1, 2, 5}
  AddressSpace = 4
  MaxClockPolls = 2
  DmAfes = 2
  DmTaps = 4
  DmSlips = 2
  DmWords = {p, q}
  DmPattern = p
  MezzLists <- MCMezzLists
  OutputRoles <- MCOutputRoles
  InputRoles <- MCInputRoles
  PulseCount = 1
SPECIFICATION AllSpec
INVARIANTS
  AlignedIsVerified
  ReturnsFirstLongestRun
  ClockIsConfigured
  ScriptReportsAreTrue
PROPERTIES
  ClaimsUnderOverlay
  BringUpEnds
