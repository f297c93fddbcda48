CONSTANTS
  AFE = {0, 1}
  Values = {0, 1, 3}
  FullScale = 3
  AfeLists <- MCAfeLists
  MaxWrites = 2
  MaxRestarts = 1
SPECIFICATION ConfigSpec
INVARIANT UnsetControlIsDefaulted
