\* One model per candidate of one regime: the run looks for a step that model
\* and GPU order alike and trust counts as a wrong direction.
SPECIFICATION Spec

CONSTANTS
  Low = Low
  Policies = {"tilesight"}
  Predicted = {1, 2}
  Regimes <- OneRegime
  Latencies = {2, 4}
  MinSamples = 2
  Rounds = 2
  Proposals = 1
  MaxRepairs = 0
  MaxEnds = 0

INVARIANT
  OrderCounted

CHECK_DEADLOCK FALSE
