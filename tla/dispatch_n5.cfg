CONSTANTS
  N = 5
  OracleChoices <- MCOracles5
  OptimumLeftDeep <- MCOptimumLeftDeep
  OptimumBushy <- MCOptimumBushy
  NoWorker = NoWorker
  Failed = Failed
SPECIFICATION Spec
INVARIANT TypeOK
PROPERTY DispatchRefined
CHECK_DEADLOCK FALSE
