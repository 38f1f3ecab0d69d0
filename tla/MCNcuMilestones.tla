-------------------------- MODULE MCNcuMilestones --------------------------
(* Instances of the profile policies.  Against a seed of 20, a latency of  *)
(* 18 is an improvement, 16 is a breakthrough and 21 is a regression.      *)
EXTENDS NcuMilestones

AllPolicies == {"milestone", "every-round", "none"}

Measured(name, lat, predicted, sure, onSeed) ==
  [name |-> name, lat |-> lat, predicted |-> predicted, sure |-> sure,
   onSeed |-> onSeed]

TheSeed == Measured(1, 20, 20, TRUE, TRUE)

\* The two regressions are equally fast, and their names are in the other order
\* than their places may be.
SomeOutcomes == {
  Measured(1, 16, 16, TRUE, TRUE),    \* a breakthrough
  Measured(1, 18, 19, TRUE, FALSE),   \* an improvement
  Measured(2, 21, 19, TRUE, FALSE),   \* a regression the model did not expect
  Measured(1, 21, 23, FALSE, TRUE) }  \* a regression, with low confidence
=============================================================================
