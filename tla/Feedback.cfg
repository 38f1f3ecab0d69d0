\* One round of two proposals and a repair under both policies, with one
\* regime; two processes crash or run out of time.
SPECIFICATION Spec

CONSTANTS
  Low = Low
  Policies = {"tilesight", "ncu"}
  Predicted = {1}
  Regimes <- OneRegime
  Latencies = {2, 4}
  MinSamples = 1
  Rounds = 1
  Proposals = 2
  MaxRepairs = 1
  MaxEnds = 2

INVARIANTS
  TypeOK
  TrustOfArchive
  MeasurementsLearned
  OneScale

CHECK_DEADLOCK FALSE
