\* Three rounds of at most two kernels, profiles two rounds apart that are stale
\* after three, one resume.
SPECIFICATION Spec

CONSTANTS
  Policies <- AllPolicies
  SeedKernel <- TheSeed
  Outcomes <- SomeOutcomes
  BatchSize = 2
  Rounds = 3
  ImprovementPct = 5
  BreakthroughPct = 15
  MinInterval = 2
  MaxStaleness = 3
  PlateauRounds = 2
  MaxRestarts = 1

INVARIANTS
  TypeOK
  EvidenceFresh

PROPERTIES
  SpacedMilestones

\* A run may be over and not resumed.
CHECK_DEADLOCK FALSE
