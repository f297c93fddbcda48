CONSTANTS
  NumBlocks = 1
  Settings = {s0}
  Factory = s0
  MaxRequests = 3
  MaxFaults = 0
  Blocks = 2
  Top = 2
  Steps = 1
  Published <- MCPublished
  MaxBacklog = 1
  MaxRestarts = 1
SPECIFICATION AllSpec
PROPERTIES
  AlertsAreActedOn
  PanelShowsServer
  PanelAnswers
