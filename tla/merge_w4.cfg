\* Four partitions: the merge compares each thread with thread 0 only.
CONSTANTS
  N = 4
  W = 4
  PType = 2
  NoWorker = NoWorker
  OracleChoices <- MCLegalOracles
  Optimum <- MCOptimum
SPECIFICATION Spec
CHECK_DEADLOCK FALSE
INVARIANT AdoptsCheapest
