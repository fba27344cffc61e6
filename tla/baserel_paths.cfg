\* Three range-table slots: every kind of RTE the two passes distinguish,
\* and append rels with one or two members.
\* min_parallel_table_scan_size 2, max_parallel_workers_per_gather 4, and
\* an 8-bit int, so that the threshold loop reaches its overflow guard.
CONSTANTS
  NumSlots = 3
  SlotChoices <- MCSlotChoices
  JoinInfoChoices <- MCJoinInfoChoices
  MaxWorkers = 4
  MinTableScanSize = 2
  IntWidth = 8
  SubWorkers = 2
SPECIFICATION Spec
\* make_one_rel goes on to make_rel_from_joinlist (JoinDispatch).
CHECK_DEADLOCK FALSE
INVARIANT TypeOK
INVARIANT NoParallelPathOverUnsafeRel
INVARIANT DummyRelsStayDummy
INVARIANT SubqueryPartialPathsKept
INVARIANT PartialScanWorkersLogarithmic
INVARIANT AppendDummyIffNoLiveMember
INVARIANT UnsafeAppendMembersStaySerial
INVARIANT ParallelAppendScansEveryMember
