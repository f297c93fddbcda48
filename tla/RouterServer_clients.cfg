CONSTANTS
  Keepers = {k}
  Reopeners = {r}
  MaxRequests = 2
  MaxTimeouts = 2
  MaxCrashes = 1
SPECIFICATION Spec
INVARIANTS
  OutcomesAreTrue
  BacklogIsBounded
PROPERTIES
  AnswersArrive
\* the clients send no more than MaxRequests
CHECK_DEADLOCK FALSE
