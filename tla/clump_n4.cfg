CONSTANTS
  N = 4
  OracleChoices <- MCOracles
  EarlierJoinRels <- MCEarlierJoinRels
  DblMax = DblMax
SPECIFICATION Spec
INVARIANTS
  TypeOK
  ClumpsPartitionTables
  ClumpsSizeDescending
  AssemblesIffJoinable
CHECK_DEADLOCK FALSE
