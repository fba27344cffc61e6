\* Bushy plans with the chain oracle of spec section 8: the search should
\* return the cheapest bushy tree over the chain's legal joins.
CONSTANTS
  N = 6
  W = 2
  PType = 3
  NoWorker = NoWorker
  OracleChoices <- MCBushyChainOracles
  Optimum <- MCOptimum
SPECIFICATION Spec
CHECK_DEADLOCK FALSE
PROPERTY JoinSearchRefined
