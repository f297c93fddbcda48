CONSTANTS
  NumBlocks = 2
  Settings = {s0}
  Factory = s0
  MaxRequests = 2
  MaxFaults = 1
SPECIFICATION Spec
INVARIANTS BusExclusive NoLostUpdate
PROPERTIES SuccessIsTrue AlertStaysLatched ImplementsPowerControl
