SPECIFICATION Spec
CONSTANTS
  NumChannels = 2
  QueueFrames = 1
  MaxWaveforms = 2
  AvgCount = 1
  EmitEvery = 1
  RmsWindows = {2}
  Transforms = {"plain", "log"}
  DefaultView = "plain"
  Power <- MCPower
  MaxFrames = 2
  MaxCommands = 1
INVARIANTS
  RecordingIsFaithful
  ShownIsTrue
PROPERTIES
  OscEnds
CHECK_DEADLOCK FALSE
