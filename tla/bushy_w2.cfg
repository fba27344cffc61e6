\* Bushy plans (p_type = 3), six tables, two partitions, every join legal.
CONSTANTS
  N = 6
  W = 2
  PType = 3
  NoWorker = NoWorker
  OracleChoices <- MCBushyOracles
  Optimum <- MCOptimum
SPECIFICATION Spec
CHECK_DEADLOCK FALSE
INVARIANT DPEntriesOptimal
PROPERTY JoinSearchRefined
