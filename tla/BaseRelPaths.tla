---------------------------- MODULE BaseRelPaths ----------------------------
(***************************************************************************)
(* The base-relation phase of make_one_rel (allpaths.c): all_baserels,     *)
(* consider_param_startup, then one pass of set_base_rel_sizes (the        *)
(* consider_parallel flag and set_rel_size) and one of                     *)
(* set_base_rel_pathlists (set_rel_pathlist, generate_gather_paths and     *)
(* set_cheapest) over root->simple_rel_array, before                       *)
(* make_rel_from_joinlist (modelled in JoinDispatch).                      *)
(*                                                                         *)
(* A range-table slot is NULL, an "other rel" or a base rel with its RTE.  *)
(* An RTE is a record of what these functions test; a path is a record     *)
(* [type, workers, sorted]. add_path is modelled as adding the path to the *)
(* set (the dominance pruning of pathnode.c only removes paths), and the   *)
(* cost-based choices (set_cheapest, linitial of partial_pathlist) as a   *)
(* fixed choice. Relations have no indexes, so create_index_paths and      *)
(* create_tidscan_paths add nothing. An append relation (rte->inh: an      *)
(* inheritance or partitioning parent, or a flattened UNION ALL) is a base *)
(* rel whose members are the other rels naming it as parent, in the order  *)
(* of root->append_rel_list; set_append_rel_size, set_append_rel_pathlist  *)
(* and add_paths_to_append_rel visit them in that order.                   *)
(***************************************************************************)
EXTENDS Integers, FiniteSets, Sequences, Functions, TLC

CONSTANTS
  NumSlots,          \* simple_rel_array_size - 1
  SlotChoices,       \* the slots simple_rel_array may hold
  JoinInfoChoices,   \* the join_info_lists: sets of [jointype, rhs]
  MaxWorkers,        \* max_parallel_workers_per_gather
  MinTableScanSize,  \* min_parallel_table_scan_size
  IntWidth,          \* the width of int and BlockNumber
  SubWorkers         \* parallel_workers of a subquery's partial path

Rtis == 1..NumSlots
IntMax == 2 ^ (IntWidth - 1) - 1

\* (BlockNumber) x: the unsigned conversion of an int.
BlockNumberOf(x) == x % (2 ^ IntWidth)

ASSUME MinTableScanSize \in 0..(IntMax \div 3)

VARIABLES
  slot,             \* simple_rel_array / simple_rte_array, fixed
  joinInfo,         \* root->join_info_list, fixed
  parallelModeOK,   \* root->glob->parallelModeOK, fixed
  queryLevel,       \* root->query_level, fixed
  enableParallelAppend, \* the enable_parallel_append GUC, fixed
  phase,            \* "start", "sizes", "pathlists", "joinsearch"
  rti,              \* the loop index of the current pass
  allBaserels,      \* root->all_baserels
  paramStartup,     \* the rels with consider_param_startup set
  considerParallel, \* rel->consider_parallel
  size,             \* "unset", "est" (rows > 0) or "dummy" (rows = 0)
  pathlist,         \* rel->pathlist
  partial,          \* rel->partial_pathlist
  cheapest          \* rel->cheapest_total_path (NoPath before set_cheapest)

inputs == <<slot, joinInfo, parallelModeOK, queryLevel, enableParallelAppend>>
vars == <<inputs, phase, rti, allBaserels, paramStartup, considerParallel,
          size, pathlist, partial, cheapest>>

Path(t) == [type |-> t, workers |-> 0, sorted |-> FALSE]
PartialPath(t, w, s) == [type |-> t, workers |-> w, sorted |-> s]
DummyPath == Path("emptyappend")
NoPath == Path("none")

IsBaseRel(r) == slot[r].opt = "base"
Rte(r) == slot[r].rte

\* The members of append rel p, in append_rel_list order.
ChildrenOf(p) ==
  LET kids == {c \in Rtis : slot[c].opt = "other" /\ slot[c].parent = p}
  IN [i \in 1..Cardinality(kids) |->
        CHOOSE c \in kids : Cardinality({d \in kids : d < c}) = i - 1]

-----------------------------------------------------------------------------
(* compute_parallel_worker(rel, heap_pages, -1, max_workers): only a     *)
(* base rel (isBase) returns 0 below min_parallel_table_scan_size; the    *)
(* loop multiplies the threshold by 3 while the table has at least three  *)
(* times as many pages, and stops when it passes INT_MAX / 3.             *)

RECURSIVE HeapParallelWorkers(_, _, _)
HeapParallelWorkers(pages, threshold, workers) ==
  IF pages >= BlockNumberOf(threshold * 3)
  THEN IF threshold * 3 > IntMax \div 3 THEN workers + 1
       ELSE HeapParallelWorkers(pages, threshold * 3, workers + 1)
  ELSE workers

\* Mutant: the early return tests heap_pages <= min_parallel_table_scan_size.
ComputeParallelWorkerOffByOne(isBase, relWorkers, pages, maxWorkers) ==
  LET n == IF relWorkers # -1 THEN relWorkers
           ELSE IF isBase /\ pages <= MinTableScanSize THEN 0
           ELSE HeapParallelWorkers(pages, IF MinTableScanSize > 1 THEN MinTableScanSize ELSE 1, 1)
  IN IF n < maxWorkers THEN n ELSE maxWorkers

ComputeParallelWorker(isBase, relWorkers, pages, maxWorkers) ==
  LET n == IF relWorkers # -1 THEN relWorkers
           ELSE IF isBase /\ pages < MinTableScanSize THEN 0
           ELSE HeapParallelWorkers(pages, IF MinTableScanSize > 1 THEN MinTableScanSize ELSE 1, 1)
  IN IF n < maxWorkers THEN n ELSE maxWorkers

-----------------------------------------------------------------------------

\* make_one_rel up to set_base_rel_sizes: all_baserels, then
\* set_base_rel_consider_startup (the singleton RHS of a SEMI or ANTI join).
Init ==
  /\ slot \in SlotChoices
  /\ joinInfo \in {ji \in JoinInfoChoices :
                     \A j \in ji : \A r \in j.rhs : IsBaseRel(r)}
  /\ parallelModeOK \in BOOLEAN
  /\ queryLevel \in {1, 2}
  /\ enableParallelAppend \in BOOLEAN
  \* a subquery has partial paths only if its planner could go parallel
  /\ ~parallelModeOK => \A r \in Rtis : Rte(r).sub \notin {"partial", "sortedPartial"}
  /\ phase = "start"
  /\ rti = 1
  /\ allBaserels = {}
  /\ paramStartup = {}
  /\ considerParallel = [r \in Rtis |-> FALSE]
  /\ size = [r \in Rtis |-> "unset"]
  /\ pathlist = [r \in Rtis |-> {}]
  /\ partial = [r \in Rtis |-> {}]
  /\ cheapest = [r \in Rtis |-> NoPath]

\* set_base_rel_consider_startup: the rels that are the whole right-hand
\* side of a SEMI or ANTI join.
ParamStartupRels(ji) ==
  {r \in Rtis : \E j \in ji : j.jointype \in {"semi", "anti"} /\ j.rhs = {r}}

Begin ==
  /\ phase = "start"
  /\ allBaserels' = {r \in Rtis : IsBaseRel(r)}
  /\ paramStartup' = ParamStartupRels(joinInfo)
  /\ phase' = "sizes"
  /\ UNCHANGED <<inputs, rti, considerParallel, size, pathlist, partial, cheapest>>

\* The tests of set_rel_consider_parallel, by rtekind and on the rel's quals
\* and target list.
\* Mutant: temporary tables are not refused.
ConsiderParallelNoTempCheck(e) ==
  /\ CASE e.rtekind = "relation" -> e.safe
       [] e.rtekind = "subquery" -> TRUE
       [] e.rtekind \in {"function", "values"} -> e.safe
       [] e.rtekind \in {"tablefunc", "cte", "namedtuplestore"} -> FALSE
  /\ e.qualsSafe

ConsiderParallel(e) ==
  /\ CASE e.rtekind = "relation" -> ~e.temp /\ e.safe
       [] e.rtekind = "subquery" -> TRUE
       [] e.rtekind \in {"function", "values"} -> e.safe
       [] e.rtekind \in {"tablefunc", "cte", "namedtuplestore"} -> FALSE
  /\ e.qualsSafe

\* set_dummy_rel_pathlist: rows 0, the paths discarded, one empty Append,
\* set_cheapest.
DummyRel == [size |-> "dummy", pathlist |-> {DummyPath}, partial |-> {},
             cheapest |-> DummyPath]

\* A rel whose size is estimated and that has no path yet.
EstimatedRel == [size |-> "est", pathlist |-> {}, partial |-> {}, cheapest |-> NoPath]

\* set_subquery_pathlist after pushdown: a dummy rel if the subquery was
\* proved empty, else a SubqueryScan over its paths, and over its partial
\* paths when the outer rel may go parallel and is not LATERAL.
SubqueryPathlist(e, cp) ==
  IF e.sub = "empty" THEN DummyRel
  ELSE [EstimatedRel EXCEPT
          !.pathlist = {Path("subqueryscan")},
          !.partial = IF cp /\ ~e.lateral /\ e.sub \in {"partial", "sortedPartial"}
                      THEN {PartialPath("subqueryscan", SubWorkers, e.sub = "sortedPartial")}
                      ELSE {}]

\* set_cte_pathlist: the size from the CTE's plan, one CTE scan path.
CtePathlist == [EstimatedRel EXCEPT !.pathlist = {Path("ctescan")}]

\* set_worktable_pathlist: the size from the non-recursive term, one
\* WorkTableScan path.
WorktablePathlist == [EstimatedRel EXCEPT !.pathlist = {Path("worktablescan")}]

\* set_namedtuplestore_pathlist: one path, and set_cheapest right away.
NamedTuplestorePathlist ==
  [EstimatedRel EXCEPT !.pathlist = {Path("tuplestorescan")},
                       !.cheapest = Path("tuplestorescan")]

\* set_rel_size: constraint exclusion first, then by rtekind. Subqueries,
\* CTEs and tuplestores get their paths here already.
SetRelSize(e, cp) ==
  IF e.excluded THEN DummyRel
  ELSE CASE e.rtekind = "relation" ->
              IF e.relkind = "partitioned" THEN DummyRel ELSE EstimatedRel
         [] e.rtekind = "subquery" -> SubqueryPathlist(e, cp)
         [] e.rtekind \in {"function", "tablefunc", "values"} -> EstimatedRel
         [] e.rtekind = "cte" /\ e.selfRef -> WorktablePathlist
         [] e.rtekind = "cte" -> CtePathlist
         [] e.rtekind = "namedtuplestore" -> NamedTuplestorePathlist

\* The fields of a RelOptInfo that the two passes set.
WithFlag(rel, cp) ==
  [cp |-> cp, size |-> rel.size, pathlist |-> rel.pathlist,
   partial |-> rel.partial, cheapest |-> rel.cheapest]

\* Writes the rels of upd, a function from rtis to rels, and no other.
SetRels(upd) ==
  LET Get(f, fld) == [r \in Rtis |-> IF r \in DOMAIN upd THEN upd[r][fld] ELSE f[r]]
  IN /\ considerParallel' = Get(considerParallel, "cp")
     /\ size' = Get(size, "size")
     /\ pathlist' = Get(pathlist, "pathlist")
     /\ partial' = Get(partial, "partial")
     /\ cheapest' = Get(cheapest, "cheapest")

\* IS_DUMMY_REL(childrel) after set_rel_size of an append member.
\* Mutant: the test is left out, so a member found empty in its own
\* set_rel_size (an empty subquery) counts as live.
ChildIsLiveAlways(rel) == TRUE

ChildIsLive(rel) == rel.size # "dummy"

\* One iteration of the loop of set_append_rel_size. A member whose quals
\* reduce to FALSE, that partition pruning removed, or that constraint
\* exclusion refutes (all three: e.excluded) is made dummy. Otherwise it
\* gets its flag, if the parent may still go parallel, and its size; a
\* live member that may not go parallel clears the parent's flag, but
\* not the flags of the members before it.
RECURSIVE AppendChildSizes(_, _)
AppendChildSizes(kids, acc) ==
  IF kids = <<>> THEN acc
  ELSE LET c == Head(kids)
           e == Rte(c)
           ccp == parallelModeOK /\ acc.cp /\ ConsiderParallel(e)
           rel == SetRelSize(e, ccp)
           next == CASE e.excluded ->
                          [acc EXCEPT !.rels = (c :> WithFlag(DummyRel, FALSE)) @@ @]
                     [] ~ChildIsLive(rel) ->
                          [acc EXCEPT !.rels = (c :> WithFlag(rel, ccp)) @@ @]
                     [] OTHER ->
                          [acc EXCEPT !.rels = (c :> WithFlag(rel, ccp)) @@ @,
                                      !.live = TRUE, !.cp = @ /\ ccp]
       IN AppendChildSizes(Tail(kids), next)

\* set_append_rel_size: the members in order, then the parent's size, or
\* the parent made dummy when no member is live.
AppendRelSize(p, cp) ==
  LET acc == AppendChildSizes(ChildrenOf(p),
                              [cp |-> cp, live |-> FALSE, rels |-> <<>>])
  IN (p :> WithFlag(IF acc.live THEN EstimatedRel ELSE DummyRel, acc.cp)) @@ acc.rels

\* set_rel_size for base rel r, which sees the flag cp: constraint
\* exclusion first, then the append rel, then the kinds of SetRelSize.
RelSize(r, cp) ==
  IF ~Rte(r).excluded /\ Rte(r).inh THEN AppendRelSize(r, cp)
  ELSE r :> WithFlag(SetRelSize(Rte(r), cp), cp)

\* Mutant: set_rel_size runs before set_rel_consider_parallel.
SizeStepBeforeFlag(r) ==
  LET cp == parallelModeOK /\ ConsiderParallel(Rte(r))
  IN SetRels([RelSize(r, considerParallel[r]) EXCEPT ![r].cp = cp])

\* One iteration of set_base_rel_sizes for a base rel: the flag, then the
\* size, so that paths made in set_rel_size see the flag.
SizeStep(r) ==
  LET cp == parallelModeOK /\ ConsiderParallel(Rte(r))
  IN SetRels(RelSize(r, cp))

SetBaseRelSize ==
  /\ phase = "sizes"
  /\ rti \in Rtis
  /\ IsBaseRel(rti)
  /\ SizeStep(rti)
  /\ rti' = rti + 1
  /\ UNCHANGED <<inputs, phase, allBaserels, paramStartup>>

\* Both passes skip empty slots and other rels.
SkipSlot ==
  /\ phase \in {"sizes", "pathlists"}
  /\ rti \in Rtis
  /\ ~IsBaseRel(rti)
  /\ rti' = rti + 1
  /\ UNCHANGED <<inputs, phase, allBaserels, paramStartup, considerParallel,
                 size, pathlist, partial, cheapest>>

\* Mutant: the second pass starts at slot 0, which is never used.
EndSizesFromZero ==
  /\ phase = "sizes"
  /\ rti = NumSlots + 1
  /\ phase' = "pathlists"
  /\ rti' = 0
  /\ UNCHANGED <<inputs, allBaserels, paramStartup, considerParallel,
                 size, pathlist, partial, cheapest>>

\* The end of set_base_rel_sizes; set_base_rel_pathlists starts at slot 1.
EndSizes ==
  /\ phase = "sizes"
  /\ rti = NumSlots + 1
  /\ phase' = "pathlists"
  /\ rti' = 1
  /\ UNCHANGED <<inputs, allBaserels, paramStartup, considerParallel,
                 size, pathlist, partial, cheapest>>

\* IS_DUMMY_REL(rel).
\* Mutant: the test of set_rel_pathlist never fires.
IsDummyRelNever(sz) == FALSE

IsDummyRel(sz) == sz = "dummy"

\* set_tablesample_rel_pathlist: a sampling method that cannot repeat its
\* scans is wrapped in a Material node if the rel may be rescanned.
SampleNeedsMaterial(e, ab, ql) ==
  (ql > 1 \/ Cardinality(ab) # 1) /\ e.tablesample = "nonrepeatable"

\* set_plain_rel_pathlist: a sequential scan, and a partial one
\* (create_plain_partial_paths) when the rel may go parallel, is not
\* LATERAL, and compute_parallel_worker gives it workers.
PlainRelPathlist(e, cp, isBase) ==
  LET w == ComputeParallelWorker(isBase, e.relWorkers, e.pages, MaxWorkers)
  IN [paths |-> {Path("seqscan")},
      partial |-> IF cp /\ ~e.lateral /\ w > 0 THEN {PartialPath("seqscan", w, FALSE)} ELSE {}]

\* set_tablesample_rel_pathlist: the sample scan, maybe under Material.
SampleRelPathlist(e, ab, ql) ==
  [paths |-> {Path(IF SampleNeedsMaterial(e, ab, ql) THEN "material" ELSE "samplescan")},
   partial |-> {}]

\* set_function_pathlist, set_values_pathlist, set_tablefunc_pathlist: one
\* scan path each (the ordinality pathkeys are not modelled).
SingleScanPathlist(e) ==
  [paths |-> {Path([function |-> "functionscan", tablefunc |-> "tablefuncscan",
                    values |-> "valuesscan"][e.rtekind])},
   partial |-> {}]

\* set_foreign_pathlist: the FDW's GetForeignPaths adds its scan path.
ForeignPathlist == [paths |-> {Path("foreignscan")}, partial |-> {}]

\* The switch of set_rel_pathlist for a non-dummy rel; subqueries, CTEs
\* and tuplestores got their paths in set_rel_size.
ScanPaths(e, cp, ab, ql, isBase) ==
  CASE e.rtekind = "relation" /\ e.relkind = "foreign" -> ForeignPathlist
    [] e.rtekind = "relation" /\ e.tablesample # "none" -> SampleRelPathlist(e, ab, ql)
    [] e.rtekind = "relation" -> PlainRelPathlist(e, cp, isBase)
    [] e.rtekind \in {"function", "tablefunc", "values"} -> SingleScanPathlist(e)
    [] e.rtekind \in {"subquery", "cte", "namedtuplestore"} -> [paths |-> {}, partial |-> {}]

\* generate_gather_paths runs for a base rel unless it is the only one;
\* never for an append member, whose partial paths the parent gathers.
GathersBaseRel(r, ab) == IsBaseRel(r) /\ Cardinality(ab) # 1

\* linitial(rel->partial_pathlist), the cheapest partial path.
CheapestPartial(pp) == CHOOSE p \in pp : TRUE

\* generate_gather_paths: a Gather over the cheapest partial path and a
\* Gather Merge over every sorted one.
GatherPaths(pp) ==
  IF pp = {} THEN {}
  ELSE {PartialPath("gather", CheapestPartial(pp).workers, FALSE)}
       \cup {PartialPath("gathermerge", p.workers, TRUE) : p \in {q \in pp : q.sorted}}

\* The end of set_rel_pathlist: the gather paths, then set_cheapest.
FinishRelPathlist(r, rel, ab) ==
  LET paths == rel.pathlist \cup (IF GathersBaseRel(r, ab) THEN GatherPaths(rel.partial) ELSE {})
  IN [rel EXCEPT !.pathlist = paths, !.cheapest = CHOOSE p \in paths : TRUE]

\* set_rel_pathlist for rel r that is not an append rel, with flag cp.
ScanRelPathlist(r, cp, ab) ==
  LET new == IF IsDummyRel(size[r]) THEN [paths |-> {}, partial |-> {}]
             ELSE ScanPaths(Rte(r), cp, ab, queryLevel, IsBaseRel(r))
  IN FinishRelPathlist(r, [cp |-> cp, size |-> size[r],
                           pathlist |-> pathlist[r] \cup new.paths,
                           partial |-> partial[r] \cup new.partial,
                           cheapest |-> cheapest[r]], ab)

\* The flag of a member in set_append_rel_pathlist: cleared when the
\* parent was found parallel-unsafe after the member was sized.
\* Mutant: the flag is not propagated down.
ChildFlagNotPropagated(c, pcp) == considerParallel[c]

ChildFlag(c, pcp) == considerParallel[c] /\ pcp

\* The loop of set_append_rel_pathlist: set_rel_pathlist of each member,
\* and the list of the live ones.
RECURSIVE AppendChildPathlists(_, _, _, _)
AppendChildPathlists(kids, pcp, ab, acc) ==
  IF kids = <<>> THEN acc
  ELSE LET c == Head(kids)
           rel == ScanRelPathlist(c, ChildFlag(c, pcp), ab)
       IN AppendChildPathlists(Tail(kids), pcp, ab,
            [rels |-> (c :> rel) @@ acc.rels,
             live |-> IF IsDummyRel(rel.size) THEN acc.live ELSE Append(acc.live, c)])

\* get_cheapest_parallel_safe_total_inner finds a path: a path is
\* parallel-safe when its rel was consider_parallel.
HasParallelSafePath(rel) == rel.cp /\ rel.pathlist # {}

\* The per-member choice of add_paths_to_append_rel for a parallel-aware
\* append: the cheapest partial path (TRUE) or the cheapest parallel-safe
\* one (FALSE), whichever costs less; costs are not modelled, so either
\* when both exist.
PaChoices(kids, rels) ==
  {f \in [kids -> BOOLEAN] :
     \A c \in kids : /\ f[c] => rels[c].partial # {}
                     /\ ~f[c] => HasParallelSafePath(rels[c]) \/ rels[c].partial = {}}

\* partial_subpaths_valid: every live member has a partial path.
\* Mutant: the flag is cleared only when no member has one.
PartialSubpathsValidAny(kids, rels) == \E c \in kids : rels[c].partial # {}

PartialSubpathsValid(kids, rels) == \A c \in kids : rels[c].partial # {}

MaxOf(a, b) == IF a > b THEN a ELSE b
MinOf(a, b) == IF a < b THEN a ELSE b

\* The largest parallel_workers of the members' cheapest partial paths.
MaxChildWorkers(kids, rels) ==
  LET ws == {CheapestPartial(rels[c].partial).workers : c \in {d \in kids : rels[d].partial # {}}}
  IN IF ws = {} THEN 0 ELSE CHOOSE w \in ws : \A v \in ws : v <= w

\* fls(n): the position of the highest set bit of n.
RECURSIVE Fls(_)
Fls(n) == IF n = 0 THEN 0 ELSE 1 + Fls(n \div 2)

\* add_paths_to_append_rel without pathkeys or parameterization (members
\* have neither): an Append of the cheapest paths; a partial Append of the
\* cheapest partial paths; a parallel-aware Append that mixes partial and
\* non-partial members, when one member takes a non-partial path.
AddPathsToAppendRel(p, pcp, live, rels, usePartial) ==
  LET kids == Range(live)
      n == Len(live)
      paValid == /\ enableParallelAppend /\ pcp
                 /\ \A c \in kids : rels[c].partial # {} \/ HasParallelSafePath(rels[c])
      paPartial == {c \in kids : usePartial[c]}
      m == MaxChildWorkers(kids, rels)
      w1 == IF enableParallelAppend THEN MinOf(MaxOf(m, Fls(n)), MaxWorkers) ELSE m
      w2 == MinOf(MaxOf(MaxChildWorkers(paPartial, rels), Fls(n)), MaxWorkers)
  IN [cp |-> pcp, size |-> size[p], cheapest |-> cheapest[p],
      pathlist |-> pathlist[p]
                   \cup (IF \A c \in kids : rels[c].pathlist # {} THEN {Path("append")} ELSE {}),
      partial |-> partial[p]
                  \cup (IF PartialSubpathsValid(kids, rels)
                        THEN {PartialPath("append", w1, FALSE)} ELSE {})
                  \cup (IF paValid /\ paPartial # kids
                        THEN {PartialPath("parallelappend", w2, FALSE)} ELSE {})]

\* set_rel_pathlist of a live append rel: set_append_rel_pathlist, then
\* the gather paths and set_cheapest of the parent; one update per
\* choice of the members' paths.
AppendRelPathlists(p, ab) ==
  LET pcp == considerParallel[p]
      acc == AppendChildPathlists(ChildrenOf(p), pcp, ab, [rels |-> <<>>, live |-> <<>>])
  IN {(p :> FinishRelPathlist(p, AddPathsToAppendRel(p, pcp, acc.live, acc.rels, f), ab))
        @@ acc.rels : f \in PaChoices(Range(acc.live), acc.rels)}

\* The updates set_rel_pathlist may make for base rel r.
RelPathlists(r, ab) ==
  IF Rte(r).inh /\ ~IsDummyRel(size[r]) THEN AppendRelPathlists(r, ab)
  ELSE {r :> ScanRelPathlist(r, considerParallel[r], ab)}

\* One iteration of set_base_rel_pathlists.
SetBaseRelPathlist ==
  /\ phase = "pathlists"
  /\ rti \in Rtis
  /\ IsBaseRel(rti)
  /\ \E upd \in RelPathlists(rti, allBaserels) : SetRels(upd)
  /\ rti' = rti + 1
  /\ UNCHANGED <<inputs, phase, allBaserels, paramStartup>>

\* After the loop, make_one_rel goes on to make_rel_from_joinlist.
EndPathlists ==
  /\ phase = "pathlists"
  /\ rti = NumSlots + 1
  /\ phase' = "joinsearch"
  /\ UNCHANGED <<inputs, rti, allBaserels, paramStartup, considerParallel,
                 size, pathlist, partial, cheapest>>

Next ==
  \/ Begin
  \/ SetBaseRelSize
  \/ SkipSlot
  \/ EndSizes
  \/ SetBaseRelPathlist
  \/ EndPathlists

\* The planner is sequential: both loops run to their end.
Spec == Init /\ [][Next]_vars /\ WF_vars(Next)

-----------------------------------------------------------------------------

PathRecords == [type : STRING, workers : Nat, sorted : BOOLEAN]

TypeOK ==
  /\ phase \in {"start", "sizes", "pathlists", "joinsearch"}
  /\ rti \in 1..(NumSlots + 1)
  /\ allBaserels \subseteq Rtis /\ paramStartup \subseteq allBaserels
  /\ considerParallel \in [Rtis -> BOOLEAN]
  /\ size \in [Rtis -> {"unset", "est", "dummy"}]
  /\ pathlist \in [Rtis -> SUBSET PathRecords]
  /\ partial \in [Rtis -> SUBSET PathRecords]
  /\ cheapest \in [Rtis -> PathRecords]

\* Who may scan a rel inside a parallel worker, from the comments of
\* set_rel_consider_parallel: workers cannot read the leader's temporary
\* tables, CTE and named tuplestores are not shared, table functions are
\* not parallel safe, and nothing parallel-restricted may appear in the
\* RTE's own expressions (sampling function, FDW, functions, VALUES), in
\* the rel's quals or in its target list.
RunsInWorker(e) ==
  /\ ~(e.rtekind = "relation" /\ e.temp)
  /\ e.rtekind \notin {"tablefunc", "cte", "namedtuplestore"}
  /\ e.rtekind \in {"relation", "function", "values"} => e.safe
  /\ e.qualsSafe

IsGather(p) == p.type \in {"gather", "gathermerge"}

\* No partial path and no Gather is ever built over a rel that a worker
\* may not scan, or when the query may not go parallel at all: the flag
\* set_base_rel_sizes computes guards every path that set_rel_size and
\* set_rel_pathlist build later.
NoParallelPathOverUnsafeRel ==
  \A r \in Rtis :
    (partial[r] # {} \/ \E p \in pathlist[r] : IsGather(p))
      => parallelModeOK /\ RunsInWorker(Rte(r))

\* A rel proved empty in set_rel_size (constraint exclusion, a partitioned
\* table without partitions, an empty subquery) keeps its single dummy
\* path through set_rel_pathlist: IS_DUMMY_REL stays true.
DummyRelsStayDummy ==
  \A r \in Rtis : size[r] = "dummy" =>
    /\ pathlist[r] = {DummyPath} /\ partial[r] = {}
    /\ phase = "joinsearch" => cheapest[r] = DummyPath

\* The subquery's partial paths reach the outer rel (or the UNION ALL
\* member) whenever it may go
\* parallel: set_subquery_pathlist, called from set_rel_size, already
\* sees the consider_parallel flag of set_base_rel_sizes.
SubqueryPartialPathsKept ==
  \A r \in Rtis :
    /\ slot[r].opt # "none" /\ ~Rte(r).inh
    /\ Rte(r).rtekind = "subquery" /\ size[r] = "est"
    /\ considerParallel[r] /\ ~Rte(r).lateral
    /\ Rte(r).sub \in {"partial", "sortedPartial"}
    => partial[r] # {}

\* floor(log3(x)) for 1 <= x < 3 ^ (IntWidth + 1).
ILog3(x) == CHOOSE k \in 0..IntWidth : 3 ^ k <= x /\ x < 3 ^ (k + 1)

\* The worker count the comments of compute_parallel_worker describe: the
\* reloption if set; none below min_parallel_table_scan_size, unless the
\* rel is an inheritance child, which gets a parallel path anyway;
\* otherwise one more per tripling of the table beyond the threshold; at
\* most max_parallel_workers_per_gather.
WorkersReference(isBase, e) ==
  LET threshold == IF MinTableScanSize > 1 THEN MinTableScanSize ELSE 1
  IN IF e.relWorkers # -1 THEN MinOf(e.relWorkers, MaxWorkers)
     ELSE IF isBase /\ e.pages < MinTableScanSize THEN 0
     ELSE MinOf(MaxWorkers, 1 + (IF e.pages < threshold THEN 0 ELSE ILog3(e.pages \div threshold)))

\* A plain rel, or a plain member of an append rel, that may go parallel
\* gets exactly one partial sequential scan, with the reference's worker
\* count, when that count is positive: a member below the size threshold
\* still gets one worker, for the parent's Parallel Append.
PartialScanWorkersLogarithmic ==
  \A r \in Rtis :
    LET e == Rte(r) IN
    /\ phase = "joinsearch" /\ slot[r].opt # "none" /\ ~e.inh /\ size[r] = "est"
    /\ e.rtekind = "relation" /\ e.relkind = "table" /\ e.tablesample = "none"
    /\ considerParallel[r] /\ ~e.lateral
    => {p \in partial[r] : p.type = "seqscan"}
         = LET w == WorkersReference(IsBaseRel(r), e)
           IN IF w > 0 THEN {PartialPath("seqscan", w, FALSE)} ELSE {}

\* The members of append rel p that set_append_rel_pathlist hands to
\* add_paths_to_append_rel.
LiveMembers(p) == {c \in Range(ChildrenOf(p)) : size[c] = "est"}

IsAppendRel(p) == IsBaseRel(p) /\ Rte(p).inh /\ ~Rte(p).excluded

\* An append rel is proved empty exactly when all its members are: one
\* excluded, pruned or refuted member, or one found empty by its own
\* set_rel_size, must not keep the parent alive, and one live member must.
AppendDummyIffNoLiveMember ==
  \A p \in Rtis :
    IsAppendRel(p) /\ size[p] # "unset" => (size[p] = "dummy" <=> LiveMembers(p) = {})

\* When set_append_rel_size found the append rel parallel-unsafe only at a
\* later member, the members sized before it had already been marked
\* consider_parallel; after set_base_rel_pathlists no member of an unsafe
\* append rel is still marked, and none got a partial scan.
UnsafeAppendMembersStaySerial ==
  phase = "joinsearch" =>
    \A p \in Rtis : IsAppendRel(p) /\ ~considerParallel[p] =>
      \A c \in Range(ChildrenOf(p)) :
        ~considerParallel[c] /\ \A q \in partial[c] : q.type # "seqscan"

\* A partial Append runs in every worker, so each member must be split
\* across the workers: every live member has a partial path. A
\* parallel-aware Append may give a whole member to one worker, so each
\* live member has a partial path or may run in a worker. Either asks for
\* between 1 and max_parallel_workers_per_gather workers.
ParallelAppendScansEveryMember ==
  \A p \in Rtis : IsAppendRel(p) =>
    \A q \in partial[p] :
      /\ q.workers \in 1..MaxWorkers
      /\ q.type = "append" => \A c \in LiveMembers(p) : partial[c] # {}
      /\ q.type = "parallelappend" =>
           \A c \in LiveMembers(p) : partial[c] # {} \/ considerParallel[c]
====
