\* A process that may die between any two steps and is resumed once: two
\* rounds of one proposal and one repair, final validation of the incumbent.
SPECIFICATION Spec

CONSTANTS
  Cand <- ThreeSources
  Seed = 1
  Rounds = 2
  Proposals = 1
  BeamWidth = 1
  MaxRepairs = 1
  MaxRepairDepth = 1
  FinalCount = 1
  Lat <- TwoLatencies
  Hash <- OneIdentity
  Category <- NoOutage
  Policy = "tilesight"
  Dedup = TRUE
  UntilTimeBudget = FALSE
  TimeLimited = FALSE
  ProfilesSeed = FALSE
  Adaptive = FALSE
  Crashes = TRUE
  MaxRestarts = 1

INVARIANTS
  TypeOK
  GraphBound
  CheckpointLoadable
  ExportPassedFinal

PROPERTIES
  EvaluatedOnce
  StageKept
