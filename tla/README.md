# Model checking the parallel join-order search

TLA+ models of the parallel join-order search that this repository adds to
the PostgreSQL planner (`src/src/backend/optimizer/path/allpaths.c`, with
copies of the worker code in `optimizer/parallel/parallel_worker.c`), checked
with TLC.

## The system and its parts

| Part | Code | What it does |
|---|---|---|
| Join search dispatch | `make_rel_from_joinlist` (allpaths.c 3334-3413) | Even table counts go to `parallel_join_search(root, N, rels, 1, 2)`. Odd counts go to `standard_join_search`. |
| Worker orchestrator | `parallel_join_search` (734-790) | Copies `root` for each of the W workers and starts a pthread for each. Joins thread 0, then threads 1..W-1, and adopts a worker's plan and `PlannerInfo` when it is cheaper than `best`. |
| Constraint partitioner | `part_constraints` (179-197), `_b` (200-221) | Constraint i orders tables 2i and 2i+1. Bit i of the worker id picks which one comes first. |
| Admissible-set generator | `constrained_power_set` (96-123), `cartesian_product` (250-271), `adm_join_results` (273-282), `_b` variants | Lists the intermediate results allowed by a worker's constraints. |
| Splitter | `try_splits` (305-388), `try_splits_b` (392-636) | Fills the DP entry `P[S]` from the ways of splitting S. |
| Worker | `worker` (639-731) | Runs under one global mutex: sets up `P`, sorts the admissible list by size, calls `try_splits` on each entry and copies `P[full]`. |
| Cost oracle | `make_join_rel`, `set_cheapest` (not in this repository) | Decides whether a join is legal and what it costs. |
| Standard DP | `standard_join_search` (3445-3527) | PostgreSQL's level-by-level DP. |
| Clump assembler | `parallel_eval.c` (`parallel_eval` 40-81, `construct_rel_based_on_plan` 83-113, `try_merge_clump` 115-159, `force_merge_clump` 161-215, `desirable_join` 220-234) | Builds the relation a guide tree describes: joins along the tree where a clause makes it desirable, then force-merges the leftover clumps, and restores `join_rel_list`. No code of this repository calls it, and its header `parallel_tree.h` is missing. |
| Base-relation paths | `make_one_rel` (879-926), `set_base_rel_sizes` (982-1016), `set_base_rel_pathlists` (1025-1045), `set_rel_size`, `set_rel_consider_parallel`, `set_rel_pathlist` and the per-kind pathlist functions, `compute_parallel_worker` (4177-4253), `generate_gather_paths` (3278-3324), and for append rels `set_append_rel_size` (1601-2027), `set_append_rel_pathlist` (2034-2095) and `add_paths_to_append_rel` (2110-2498) | Before the join search, marks each base rel as parallel-safe or not, estimates its size, and builds its scan paths, partial paths and gather paths. An append rel (an inheritance or partitioning parent, or a flattened UNION ALL) does this for each of its members in turn, then builds Append paths over the live ones. `make_rel_from_joinlist` then joins them. |

How the parts interact:

- Workers share nothing but the mutex, the `initial_rels` list and the fields of the shallow `root` copy.
- The orchestrator reads each worker's output only after `pthread_join`.
- The worker lock spans the whole of `worker()`, so worker runs are serialised. The order in which workers take the lock is up to the scheduler.

## Modules

- **JoinConstraints** models `part_constraints`, `constrained_power_set`, `cartesian_product` and `adm_join_results` as pure operators.
  - Lists keep the code's order. The order of ordinals inside an admissible set is the order in which `try_splits` tries right sides.
  - It also has reference definitions, taken from the comment of `adm_join_results`: the admissible sets are the nonempty sets of paired tables that are closed under the constraints.
- **JoinCostModel** is the cost oracle, modelled from the spec's interface because its code is not here.
  - An oracle is `[weight, legal]`. Rows are the sum of the weights, and a join costs `costL + costR + rows` (C_out).
  - `legal` is one of: all joins legal; the chain 0-1-2-3 (spec section 8); no joins; every join except the full set.
  - `CheapestLeftDeep` is the reference optimum. It is the minimum over the legal orders of S that follow the constraints, and is computed by the RECURSIVE `LeftDeepCost`.
- **JoinConstraints** also models the bushy variant (p_type 3): `PartConstraintsB`, `ConstrainedPowerSetB`, `AdmJoinResultsB`, and, from `try_splits_b`, `GroupTripleB` (the triple of group i), `SplitPiecesB` (the `Spower` list of a triple, in the code's append order) and `LeftSidesB` (their product `A`). For a constraint `<<a, b, c>>`, `constrained_power_set_b` drops only `{b, c}` and keeps `{a, b}` and `{a, c}`. The comment of `part_constraints_b` (parallel_worker.c:172-173) says that a is joined with c before the result is joined with b. Read literally, that would also drop `{a, b}`. Then neither orientation of a triple would let the search join its first two tables first, and `bushy_w2`'s completeness check (`JoinSearchRefined`) would fail. The code's reading is the one that keeps the partitioning complete, so the model follows the code, and no property checks the lists against the comment.
- **JoinCostModel** has `CheapestBushy`, the reference optimum over all bushy trees, computed by `BushyTable`, a DP over subset size that is independent of the code.
- **EagerFold** has `FoldInOrder`, a left fold that evaluates each intermediate value once. `FoldLeft` of SequencesExt hands its operator the accumulator unevaluated. The DP steps read the accumulator many times, so they would re-evaluate the whole fold at every read.
- **JoinSearch** is the abstract specification. In one step, `result` becomes the cheapest legal plan of all N tables (left-deep for `PType = 2`, bushy for `PType = 3`), or `NoLegalJoinOrder`. The table of optima is the constant `Optimum`, so that a model evaluates it once. `Returns` is its liveness: under `SafetySpec` it is equivalent to `WF_vars(Search)`, because `Search` is enabled exactly while no result has been returned.
- **ParallelJoinSearch** is the detailed specification of the orchestrator and the workers (p_type 2 and 3).
  - Orchestrator state: `opc` (create/join/done), `nextThread`, `optimal`.
  - Worker state: `wpc` (unborn/waiting/running/finished), `mutex`, `constr`, `todo`, `P`, `cost`, `output`.
  - `crashed` records a NULL dereference. After it no further step happens.
  - `P[w]` is the set of subsets with a non-NULL entry. `cost[w][S]` is the cost of the cheapest path of that entry. `make_join_rel` returns the same relation for the same relid set, so `add_path` keeps the minimum.
  - Actions:
    - `CreateThread` is one iteration of the creation loop.
    - `WorkerStart` covers lock, `part_constraints`, `adm_join_results`, the DP setup and the sort.
    - `WorkerSkip` and `WorkerTrySplits` visit the next list entry of least size. The sort is not stable, so every entry of least size is a choice.
    - `WorkerTrySplitsLevelB` (p_type 3) runs `try_splits_b` on all admissible results of the next size in one step. `try_splits_b` for S reads only entries of strict subsets of S and writes only `P[S]`, so the order within one size cannot matter. One step per size keeps the six-table state space small. The DP states a worker passes through depend only on the oracle and the worker, so `DPLevelsOf` computes them once (by `TrySplitsLevelB`, the fold over one size), and the step checks that the worker's table is the one the sizes below reached before it takes the next one.
    - `TrySplitsB` folds `JoinIntoEntry` over the list `A`, skipping the empty and the full left side. `JoinIntoEntry` is the shared body of both splitters: `make_join_rel` (a NULL input crashes), then keep the cheaper relation (a NULL `join_rel` crashes when `P[S]` is set).
    - `JoinResultsOf` and `LeftSidesOf` tabulate the admissible lists and the lists `A`. Both depend only on constants, so TLC evaluates them once.
    - `WorkerFinish` copies `P[full]` and unlocks. `WorkerNoPlan` is the crash at line 721.
    - `JoinFirst` and `JoinNext` are the merge loop. `JoinNext` uses `CheaperThanBest`, the comparison with the never-updated `best`.
  - `TrySplits` is a FoldLeft over the right sides, so that an early `try_splits` entry influences a later one exactly as in the loop.
  - A NULL `P[S \ {u}]` (line 362) crashes. So does a NULL `join_rel` when `P[S]` is already set (line 380).
- **MCParallelJoinSearch** instantiates the detailed specification for TLC with small oracle sets.
- **ClumpAssembler** models `parallel_eval.c`.
  - A clump is a record `[relids, cost]`. `join_rel_list` is a sequence of them. A guide tree is a leaf `[relid]` or a node `[left, right]`, and `GuideTrees` enumerates all of them.
  - `TryMergeClump` and `ForceMergeClump` are RECURSIVE operators that follow the C recursion. They thread `join_rel_list` through every `make_join_rel`.
  - `InsertBySize` is the insertion at lines 198-214. `DesirableJoin` uses the oracle's clause predicate `HaveJoinClause`.
  - Actions: `Begin` saves `savelength` and walks the tree. `ForceMergeStep` is one iteration of the foreach at 102-106. `Finish` returns the cost or `DBL_MAX` and truncates `join_rel_list`.
  - The memory context and `join_rel_hash` are not modelled: no step reads them.
- **JoinCostModel** has a fifth legality kind for the assembler, `clauseChain`: every join is legal, but join clauses link only chain neighbours. It also has `HaveJoinClause`, the spec's `desirable` predicate (`have_relevant_joinclause` is not in this repository).
- **StandardJoinSearch** models `standard_join_search`.
  - `Init` is the allocation of `join_rel_level` with level 1.
  - `JoinLevel` is one iteration over `lev`. `Finish` is the final check and its `elog(ERROR)`.
  - `join_search_one_level` (joinrels.c, not here) is modelled from spec section 4.1: every disjoint legal pair of levels k and lev-k.
- **JoinDispatch** models `make_rel_from_joinlist` as the composition of `ParallelJoinSearch` (W = 1, p_type 2) and `StandardJoinSearch` over shared variables. `ParallelStep` runs for an even item count and `StandardStep` for an odd one. It refines `JoinSearch`, left-deep for even counts and bushy for odd ones. `elog(ERROR)` of the standard search maps to `NoLegalJoinOrder`.

- **BaseRelPaths** models the first half of `make_one_rel`: everything before `make_rel_from_joinlist`.
  - The range table is `slot`: each slot is empty, an other rel, or a base rel with an RTE record. The RTE record holds the kind, the relkind, the tablesample method, the temp flag, the parallel safety of its functions, quals and target list, the lateral flag, the page count and the `parallel_workers` option.
  - `phase` and `rti` are the program counter of the two loops. `Begin` builds `all_baserels` and `set_base_rel_consider_startup`. `SetBaseRelSize` is one iteration of `set_base_rel_sizes`: `set_rel_consider_parallel` when `parallelModeOK`, then `set_rel_size`. `SetBaseRelPathlist` is one iteration of `set_base_rel_pathlists`, with the whole of `set_rel_pathlist`, including the gather decision. `SkipSlot` is the `continue` of both loops.
  - A path is a record `[type, workers, sorted]`. `add_path` is set union, and `set_cheapest` picks one path. Costs are left out, because no property compares them.
  - `HeapParallelWorkers` is the RECURSIVE form of the threshold loop, with `% 2^IntWidth` for the `BlockNumber` cast and the `INT_MAX / 3` break, in an integer width scaled down to `IntWidth` bits.
  - The subquery kinds (`partial`, `sortedPartial`, `serial`, `empty`) stand for what planning the subquery returns. The pushdown machinery of `set_subquery_pathlist` is not modelled.
  - Append rels: a slot's `parent` names the append rel whose member it is; `ChildrenOf` lists the members in `append_rel_list` order. `AppendChildSizes` is the loop of `set_append_rel_size`: a member whose quals reduce to FALSE, that pruning removed or that constraint exclusion refutes (one flag, `excluded`: all three make it dummy and skip it) gets no flag and no size. Otherwise it gets its own flag, if the parent may still go parallel, and `set_rel_size`. A live member that is not parallel-safe clears the parent's flag, but the flags of the members before it stay set. `AppendChildPathlists` is the loop of `set_append_rel_pathlist`, which clears those stale flags (`ChildFlag`) before `set_rel_pathlist` of each member. `AddPathsToAppendRel` builds a plain Append, a partial Append when every live member has a partial path, and a parallel-aware Append when some member takes a whole, parallel-safe path. Whether a member gives a parallel-aware Append its partial or its whole path is a cost comparison, so `PaChoices` enumerates both. Members have no pathkeys and no parameterization, so `generate_mergeappend_paths` and the parameterized Append loop add nothing.
  - `RelSize` and `RelPathlists` return the rels one call of `set_rel_size` or `set_rel_pathlist` writes, the parent and its members. `SetRels` writes them.
- **MCBaseRelPaths** gives 26 RTE variants, each chosen to reach one test of `set_rel_consider_parallel` or one branch of `set_rel_pathlist`. It also gives append rels in slot 1: four inheritance or partitioning parents (plain, partitioned, excluded, with a parallel-restricted qual) with two of eight relation members, a UNION ALL with two of seven relation or subquery members, and each parent with one member next to a plain base rel. A member has its parent's quals.

## Runs

The left-deep runs use N = 4 tables. The bushy runs use N = 6, two triples.

| Run | W | Oracles | Checks | Result |
|---|---|---|---|---|
| search_w2 | 2 | 4 weight vectors, all legal | TypeOK, JoinSearchRefined | pass |
| partitions_w4 | 4 | the weight vectors, all legal, and chain / none / noFull | AdmissibleListsExact, DPEntriesOptimal, Termination | pass; reaches both crash paths |
| merge_w4 | 4 | all legal | AdoptsCheapest | **violation**: worker costs 23, 23, 20, 21; the orchestrator adopts 21 because `best` is never reassigned (line 783) |
| chain_refusal | 1 | chain | JoinSearchRefined | **violation**: visiting {0,1,2} passes the NULL `P[{0,2}]` to `make_join_rel` (line 364) instead of returning the plan |
| bushy_w2 | 2 | 2 weight vectors, all legal | DPEntriesOptimal, JoinSearchRefined | pass: the bushy partitions together reach the cheapest bushy tree |
| bushy_w4 | 4 (both triples constrained) | 1 weight vector, all legal | JoinSearchRefined | pass |
| bushy_w2_restricted | 2 | chain / noFull | DPEntriesOptimal | pass; reaches the crash paths of `try_splits_b` |
| bushy_chain_refusal | 2 | chain | JoinSearchRefined | **violation**: `try_splits_b` passes the NULL `P[{0,2}]` to `make_join_rel` (line 614) |
| clump_n4 | - | 4 tables, every guide tree (120), five legality kinds, `join_rel_list` empty or not | TypeOK, ClumpsPartitionTables, ClumpsSizeDescending, AssemblesIffJoinable | pass |
| dispatch_n4 | 1 | 4 items, weights where bushy beats left-deep, `all` / `clauseChain` | DispatchRefined | pass |
| baserel_paths | - | 3 slots: two base rels of 26 RTE kinds, or an append rel with its members; semi join or none, parallel mode and parallel append on or off, query level 1 or 2 | TypeOK, NoParallelPathOverUnsafeRel, DummyRelsStayDummy, SubqueryPartialPathsKept, PartialScanWorkersLogarithmic, AppendDummyIffNoLiveMember, UnsafeAppendMembersStaySerial, ParallelAppendScansEveryMember | pass (129968 states) |
| dispatch_n5 | - | 5 items, 4 weight vectors, five legality kinds | TypeOK (of the standard search), DispatchRefined | pass |

What the properties say:

- **DPEntriesOptimal**: every DP entry of a set already visited holds the constrained optimum of that set. It is the inductive core of the DP, and it depends on the visit order, on the validity test and on the keep-minimum.
- **AdmissibleListsExact**: for left-deep plans, the generated list equals the reference set, with no duplicates and no repeated ordinals.
- **AdoptsCheapest**: the adopted plan is no costlier than any worker's. It is checked only at W = 4 (`merge_w4`): with two workers, the stale `best` is always worker 0's output, so the check would only repeat the comparison at line 783.
- **JoinSearchRefined**: the whole search implements `JoinSearch`, under the mapping `result <- IF opc = "done" THEN output[optimal] ELSE -1`. It is stated in `MCParallelJoinSearch` over the table `MCOptimum` of that module, because TLC evaluates a definition of the root module once but re-evaluates a substituted constant inside the instance at every step. For bushy plans this answers the spec's open question (section 8) for the instances checked: the partitions of `part_constraints_b` lose no optimal tree. The weight vector `<<5,1,1,3,4,5>>` makes a tree through the pair {1,2} strictly cheapest, and partition 0 excludes that pair, so a partitioner that gave both partitions the same orientation fails.
- **Termination**: the search ends or crashes.
- **ClumpsPartitionTables**: while merging, the pending clumps (the rest of `relList` and `frelList`) partition the tables. No merge or list deletion loses or duplicates a table.
- **ClumpsSizeDescending**: `frelList` is size-descending (spec section 8).
- **AssemblesIffJoinable**: `parallel_eval` returns a cost exactly when a legal join tree of all the tables exists. The greedy force-merge is exhaustive because it retries with every enlarged clump.
  - This holds for the legality kinds modelled, which are all connectivity-like.
  - An oracle whose legal joins can lead into a dead end (such as the outer-join restrictions of real queries) is outside them. For such oracles the spec calls the assembler a heuristic.
- **DispatchRefined**: the dispatch returns the plan its mode promises. For odd counts the standard DP returns the cheapest bushy plan, and fails exactly when there is none. A DP that offered only joins with a base relation would miss the bushy optimum at N = 5.
  - The flipped parity mutant shows what the dispatch protects. At an odd count, `adm_join_results` leaves the last table out (line 275), and the parallel search never builds a plan.
  - `dispatch_n4` uses only oracles under which the one-worker search does not crash. The chain oracle's crash is the `chain_refusal` finding.

- **NoParallelPathOverUnsafeRel**: a rel that cannot run in a worker has no partial path and no gather path. A worker must not scan a temporary table, a parallel-restricted function, a foreign table without parallel support, or quals that only the leader may evaluate.
- **AppendDummyIffNoLiveMember**: an append rel is dummy exactly when none of its members is live. This includes a member that only its own `set_rel_size` finds empty, such as an empty UNION ALL arm.
- **UnsafeAppendMembersStaySerial**: once the pathlist pass is over, no member of a parallel-unsafe append rel is still marked `consider_parallel`, and none has a partial scan. This covers members that were sized before the member that made the parent unsafe. A subquery member sized in that window keeps the partial paths its `set_rel_size` built. These are useless, though harmless, contrary to the comment at line 2065, so the property speaks of partial scans only.
- **ParallelAppendScansEveryMember**: a partial Append has a partial path for every live member, because every worker runs it. A parallel-aware Append has, for every live member, a partial path or a parallel-safe whole path. Both ask for between 1 and `max_parallel_workers_per_gather` workers.
- **DummyRelsStayDummy**: a rel proved empty in the size pass leaves the pathlist pass with only the dummy append path.
- **SubqueryPartialPathsKept**: a parallel-safe subquery whose plan has partial paths keeps them. This depends on `set_rel_consider_parallel` running before `set_rel_size`.
- **PartialScanWorkersLogarithmic**: the worker count of a parallel plain scan is 1 + floor(log3(pages / threshold)), capped by the `parallel_workers` option and `max_parallel_workers_per_gather`. This is the reference for page counts up to INT_MAX. Only a base rel gets no workers below `min_parallel_table_scan_size` (line 4198). An inheritance child always gets at least one worker, because the comment at 4190-4196 wants its partial path for the parent's Parallel Append. The 1-page member `Plain1` exercises this.

Every property of a passing run has a mutant in `PROJECT.json`: a plausible bug in the mapped code that TLC finds.

**Bounds.**
- N = 4 is the smallest even count with two constrained pairs. With W = 4 it gives two constraint groups and four distinct partitions, so every bit of `part_constraints` matters.
- N = 6 is the smallest count with two triples for the bushy variant. W = 4 constrains both triples.
- The clump assembler runs with N = 4, the smallest count with a guide tree whose two halves each hold two tables, which is what the force-merge retry needs. Every one of the 120 guide trees is an initial state.
- N = 5 is the smallest odd count at which a bushy tree can beat every left-deep order.
- The weight vectors are chosen so that different orders have different costs and different partitions have different optima. That is what makes the merge order and the refinement meaningful.

- `baserel_paths` uses three slots. Two base rels are enough for both values of "only base rel". An append rel with two members is the least that lets one member be sized before another clears the parent's flag. An append rel with one member next to a base rel has its Append gathered. `IntWidth = 8` and `MinTableScanSize = 2` put the tables of 1, 2, 6 and 54 pages below, at and above the threshold and its powers of three, and `MaxWorkers = 4` caps some counts but not others.

**Fairness.** `WF_vars(Next)`.
- Every thread takes the mutex exactly once and releases it on its normal return path.
- Once the other threads have finished, a waiting thread is continuously enabled. The scheduler does not starve a runnable thread forever.

`baserel_paths` also assumes `WF_vars(Next)`: the two loops are sequential code. It sets `CHECK_DEADLOCK FALSE` because the model stops where `make_rel_from_joinlist` begins.

The runs that use the restricted oracles (chain, none, noFull) at W = 4 are merged into `partitions_w4`, which checks the same properties over the legal and the restricted oracles.

`CHECK_DEADLOCK FALSE` is set because the search terminates, or stops at a crash. `standard_join_search` is sequential, so `WF_vars(Next)` only says that the loop is not abandoned. The clump assembler checks only invariants and needs no fairness.

## Not modelled yet, and the plan

1. Done: left-deep partitioning, DP worker, orchestrator, and refinement of the abstract search.
2. Done: the dispatch in `make_rel_from_joinlist` and `standard_join_search`.
3. Done: the bushy variant, checked for completeness against the bushy reference at N = 6 with W = 2 and W = 4.
4. Done: the clump assembler in `parallel_eval.c`.
5. Not yet modelled: the shallow `root` copy (line 756). With a non-empty `join_rel_list` (nested join lists), the workers share the list header. A later worker then adds paths to an earlier worker's relation, and `add_path` may free the path that an earlier `best` copy (line 723) points to. This only matters for W > 1, and the only call site passes W = 1.

Out of scope:
- `1 << 31` overflow at 32 tables (the DP table is beyond TLC).
- W > N, which overflows `items` (line 742) and `present[]` (line 344). It is undefined behaviour, and the only call site (W = 1) cannot reach it. The model assumes W <= N.
- An invalid `p_type` (lines 663, 712): the only call site passes 2. The code would then read the uninitialised `constr` and `join_res`.
- `join_search_hook` and GEQO in the dispatch, `levels_needed <= 1`, and the recursion into sub-joinlists. A sub-joinlist's relation enters the search as an item, just like a base relation.
- `elog(ERROR)` inside `make_join_rel` between the save and the restore of `join_rel_list` in `parallel_eval`. It aborts the whole planning step, so the unrestored list is never read.
- Of the base-relation path construction, `BaseRelPaths` leaves out several parts:
  - MergeAppend and parameterized Append paths (`generate_mergeappend_paths`, `get_cheapest_parameterized_child_path`). Without index paths no member has pathkeys or a parameterization.
  - Nested append rels, sampled members, partitionwise joins (`generate_partitionwise_join_paths`) and the translation of the members' target lists and quals.
  - The subquery pushdown machinery (`subquery_is_pushdown_safe`, `qual_is_pushdown_safe`, `remove_unused_subquery_outputs`). These are predicates over query trees, which the model abstracts to a subquery's result kind.
  - Index, bitmap and TID paths, which are built outside this file, and the `OPTIMIZER_DEBUG` printers.
  - Costs and `add_path` pruning.
- `compute_parallel_worker` for more than INT_MAX pages: the overflow break saturates the worker count below log3 of the size. The bounds scale `int` to 8 bits, and the model's tables stay within it.
