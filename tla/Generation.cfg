\* Two agents, one retry, three slots, one call after the preflight.
SPECIFICATION Spec

CONSTANTS
  AgentWorkers = 2
  MaxRetries = 1
  MaxCount = 3
  MaxCalls = 1

INVARIANTS
  TypeOK
  RequestsBounded
  AttemptsCounted
  UniformBinding

PROPERTIES
  CallsReturn

\* A run may end after any call.
CHECK_DEADLOCK FALSE
