\* Four partitions, oracles that accept every join and ones that refuse some
\* (chain, none, noFull): the work of each worker, and both crash paths.
CONSTANTS
  N = 4
  W = 4
  PType = 2
  NoWorker = NoWorker
  OracleChoices <- MCPartOracles
  Optimum <- MCOptimum
SPECIFICATION Spec
CHECK_DEADLOCK FALSE
INVARIANT AdmissibleListsExact
INVARIANT DPEntriesOptimal
PROPERTY Termination
