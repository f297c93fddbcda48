CONSTANTS
  ChipChannels = 2
  FullScale = 2
  Values = {0, 1, 2}
  ConfigLists <- MCConfigLists
  NumTriggers = 3
  LowChannels = 1
  ThresholdTop = 1
  TrigRequests <- MCTrigRequests
  NumCounters = 2
  ReadLists <- MCReadLists
  WordSize = 2
  MaxCount = 5
  CmChannels = {0, 1, 2}
  CmMux <- MCCmMux
SPECIFICATION AllSpec
INVARIANTS
  SweptDacIsReported
  TriggersAreAsAsked
  CountIsNotBehind
PROPERTIES
  CurrentsAreRead
