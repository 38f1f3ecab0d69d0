\* Three calls, at most two requests to a worker, one text of its own.
SPECIFICATION Spec

CONSTANTS
  WorkerMaxRequests = 2
  MaxCalls = 3
  MaxChatter = 1

INVARIANTS
  TypeOK
  WorkerIsQuiet
  RequestBudget
  NoStrayWorker

PROPERTIES
  CallsEnd
  ServesAsPromised

\* The controller makes no call after close().
CHECK_DEADLOCK FALSE
