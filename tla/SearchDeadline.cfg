\* The NCU policy and a quality-diverse beam of two; the deadline may pass at any
\* moment, rounds go on until it does, and the stopped run is resumed twice with
\* the same or a larger limit; nothing dies.
SPECIFICATION Spec

CONSTANTS
  Cand <- ThreeSources
  Seed = 1
  Rounds = 2
  Proposals = 1
  BeamWidth = 2
  MaxRepairs = 1
  MaxRepairDepth = 1
  FinalCount = 0
  Lat <- TwoLatencies
  Hash <- NoIdentity
  Category <- NoOutage
  Policy = "ncu"
  Dedup = FALSE
  UntilTimeBudget = TRUE
  TimeLimited = TRUE
  ProfilesSeed = FALSE
  Adaptive = TRUE
  Crashes = FALSE
  MaxRestarts = 2

INVARIANTS
  BeamKeepsBest

PROPERTIES
  NoLateRoundWork
