CONSTANTS
  NumBlocks = 2
  Settings = {s0}
  Factory = s0
  MaxRequests = 3
  MaxFaults = 0
SPECIFICATION Spec
PROPERTIES AlertedBlockIsOff
