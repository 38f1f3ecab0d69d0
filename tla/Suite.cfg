\* One kernel in two styles, two budgets of one and three operations, one
\* failure, one change of the presets.
SPECIFICATION Spec

CONSTANTS
  Kernels <- OneKernel
  Styles <- TwoStyles
  Treatment <- TwoCells
  Task = {"basic", "large"}
  Driver <- AllDrivers
  Options <- AllOptions
  Rounds = 1
  MaxSpent = 3
  MaxFaults = 1
  MaxUpgrades = 1
  Legacy = TRUE

INVARIANTS
  TypeOK
  ComparableResults
  ExitZeroMeansDone

PROPERTIES
  RerunsSettle
