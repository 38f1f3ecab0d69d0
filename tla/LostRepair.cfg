\* A crash after a measured repair and before the stage's checkpoint.
SPECIFICATION Spec

CONSTANTS
  Cand <- ThreeSources
  Seed = 1
  Rounds = 1
  Proposals = 1
  BeamWidth = 1
  MaxRepairs = 1
  MaxRepairDepth = 1
  FinalCount = 0
  Lat <- TwoLatencies
  Hash <- OneIdentity
  Category <- NoOutage
  Policy = "tilesight"
  Dedup = TRUE
  UntilTimeBudget = FALSE
  TimeLimited = FALSE
  ProfilesSeed = FALSE
  Adaptive = FALSE
  Crashes = TRUE
  MaxRestarts = 1

INVARIANTS
  BeamHoldsBest
