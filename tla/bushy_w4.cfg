\* Bushy plans, six tables, four partitions: both triples constrained.
CONSTANTS
  N = 6
  W = 4
  PType = 3
  NoWorker = NoWorker
  OracleChoices <- MCBushyOracle
  Optimum <- MCOptimum
SPECIFICATION Spec
CHECK_DEADLOCK FALSE
PROPERTY JoinSearchRefined
