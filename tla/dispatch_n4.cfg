CONSTANTS
  N = 4
  OracleChoices <- MCOracles4
  OptimumLeftDeep <- MCOptimumLeftDeep
  OptimumBushy <- MCOptimumBushy
  NoWorker = NoWorker
  Failed = Failed
SPECIFICATION Spec
PROPERTY DispatchRefined
CHECK_DEADLOCK FALSE
