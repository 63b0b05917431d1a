\* Four days, with a crash and a manual recalculation during the runs.
SPECIFICATION Spec
CONSTANTS
  Stores = {s1, s2}
  LastDay = 3
  Window = 2
  MaxRetries = 1
  MaxFaults = 2
  MaxCrashes = 1
  MaxManual = 1
SYMMETRY Symmetry
INVARIANTS
  SuccessMeansAllStores
PROPERTIES
  CleanRunLeavesNoGap
\* The last day may be over.
CHECK_DEADLOCK FALSE
