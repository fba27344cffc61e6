\* Bushy plans, two partitions, oracles that refuse joins: the NULL paths
\* of try_splits_b.
CONSTANTS
  N = 6
  W = 2
  PType = 3
  NoWorker = NoWorker
  OracleChoices <- MCBushyRestrictedOracles
  Optimum <- MCOptimum
SPECIFICATION Spec
CHECK_DEADLOCK FALSE
INVARIANT DPEntriesOptimal
