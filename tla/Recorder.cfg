\* The seed and one candidate, two latencies; a due slot every two seconds;
\* one fault: an append that raises, or a stopped run that is resumed.
SPECIFICATION Spec

CONSTANTS
  Cand <- TwoKernels
  Seed = 2
  Lat <- TwoLatencies
  Interval = 2
  Finalizes = TRUE
  MaxClock = 2
  MaxEvents = 1
  MaxFaults = 1

INVARIANTS
  TypeOK
  ClosingRowFinal

PROPERTIES
  HistoryContinues
  SlotsSampledOnce
  SnapshotsNeverRegress
  ChangesRecorded

\* A run may be over and not resumed.
CHECK_DEADLOCK FALSE
