\* Oracles that refuse joins: the search should still return the cheapest
\* legal plan or NoLegalJoinOrder.
CONSTANTS
  N = 4
  W = 1
  PType = 2
  NoWorker = NoWorker
  OracleChoices <- MCRestrictedOracles
  Optimum <- MCOptimum
SPECIFICATION Spec
CHECK_DEADLOCK FALSE
PROPERTY JoinSearchRefined
