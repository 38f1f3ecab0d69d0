\* One generation by two agents of which one fails.
SPECIFICATION Spec

CONSTANTS
  AgentWorkers = 2
  MaxRetries = 0
  MaxCount = 2
  MaxCalls = 1

INVARIANTS
  BoundToRequested

\* A run may end after any call.
CHECK_DEADLOCK FALSE
