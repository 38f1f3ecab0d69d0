\* A wide round (two proposals, a beam of two) with evaluator outages, crashes
\* and one resume; the input kernel may be profiled.
SPECIFICATION FairSpec

CONSTANTS
  Cand <- ThreeSources
  Seed = 1
  Rounds = 1
  Proposals = 2
  BeamWidth = 2
  MaxRepairs = 1
  MaxRepairDepth = 1
  FinalCount = 0
  Lat <- OneLatency
  Hash <- OneIdentity
  Category <- GpuOutage
  Policy = "tilesight"
  Dedup = TRUE
  UntilTimeBudget = FALSE
  TimeLimited = FALSE
  ProfilesSeed = TRUE
  Adaptive = FALSE
  Crashes = TRUE
  MaxRestarts = 1

INVARIANTS
  BeamSound
  OneOwnerPerIdentity
  HardwareAfterModel

PROPERTIES
  EventuallyEnds
