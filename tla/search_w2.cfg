\* Two partitions, every join legal: the end-to-end result of the search.
CONSTANTS
  N = 4
  W = 2
  PType = 2
  NoWorker = NoWorker
  OracleChoices <- MCLegalOracles
  Optimum <- MCOptimum
SPECIFICATION Spec
CHECK_DEADLOCK FALSE
INVARIANT TypeOK
PROPERTY JoinSearchRefined
