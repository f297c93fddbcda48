CONSTANTS
  Width = 16
  Unknown <- MCUnknown
  Reg = {1, 51}
  Requested <- ConfigRequested
  Function <- ConfigFunction
  RegOf <- ConfigReg
  MsbOf <- ConfigMsb
  LsbOf <- ConfigLsb
  Options <- ConfigOptions
  MaxTimeouts = 1
  AFE = {0, 1}
  Values = {0, 1, 3}
  FullScale = 3
  AfeLists <- MCAfeLists
  MaxWrites = 2
  MaxRestarts = 1
SPECIFICATION AllSpec
INVARIANTS
  OtherBitsStay
  ReadoutIsLeft
  AnswerIsTrue
  ConfigIsReported
