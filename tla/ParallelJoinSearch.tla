-------------------------- MODULE ParallelJoinSearch --------------------------
(***************************************************************************)
(* parallel_join_search (allpaths.c) with its workers (worker, try_splits, *)
(* try_splits_b; allpaths.c and its copy parallel_worker.c), for the       *)
(* left-deep (p_type = 2) and the bushy (p_type = 3) variant.              *)
(*                                                                         *)
(* The orchestrator copies the PlannerInfo for each worker and creates one *)
(* thread per partition id; every worker takes the global mutex for its    *)
(* whole run, builds its constraints and admissible join results, seeds a  *)
(* private DP table with the base relations, sorts the admissible results  *)
(* by size and calls try_splits on each non-singleton one, then copies out *)
(* P[full]. The orchestrator joins thread 0, then threads 1..W-1, keeping  *)
(* the output of a thread whose plan is cheaper than thread 0's.           *)
(*                                                                         *)
(* A DP entry P[S] is NULL or the join relation of S: make_join_rel finds  *)
(* the relation it built before for the same table set, so the variable P  *)
(* holds the sets whose entry is not NULL and cost[S] the total cost of    *)
(* the cheapest path of that relation. A NULL dereference (a segmentation  *)
(* fault of the backend) sets crashed and ends every thread.               *)
(***************************************************************************)
EXTENDS JoinConstraints, JoinCostModel

CONSTANTS
  W,              \* n_workers
  OracleChoices,  \* the cost oracles the planner may present
  PType,          \* p_type: 2 left-deep, 3 bushy
  Optimum,        \* the cheapest plan for every oracle (see JoinSearch)
  NoWorker        \* model value: nobody holds the mutex

\* items[] is allocated with levels_needed entries (allpaths.c:742) and the
\* constraints name tables 0..2*groups-1 (present[] has levels_needed entries).
ASSUME /\ W \in 1..N
       /\ PType \in {2, 3}
       /\ PType * NumConstrainedGroups(W) <= N

Workers == 0..(W - 1)

VARIABLES
  oracle,       \* the cost oracle of this planning problem (never changes)
  opc,          \* orchestrator: "create", "join" or "done"
  nextThread,   \* the loop index of parallel_join_search
  optimal,      \* the worker whose output and PlannerInfo are adopted
  wpc,          \* per worker: "unborn", "waiting", "running", "finished"
  mutex,        \* the worker holding the global mutex, or NoWorker
  constr,       \* per worker: its part constraints
  todo,         \* per worker: the admissible sets not yet visited
  P,            \* per worker: the sets whose DP entry is not NULL
  cost,         \* per worker: cheapest total cost of each built relation
  output,       \* per worker: the cost of the relation it returned
  crashed       \* a NULL pointer was dereferenced

vars == <<oracle, opc, nextThread, optimal, wpc, mutex, constr, todo, P,
          cost, output, crashed>>

Singletons == {{u} : u \in Ords}

-----------------------------------------------------------------------------
(* try_splits, one iteration of the loop over u, as a function of the DP  *)
(* state st = [P, cost, crashed] of the worker.                            *)

\* valid[u]: no constraint <<u, q2>> with u and q2 both in the set.
ValidRight(u, S, c) ==
  ~\E k \in DOMAIN c : c[k][1] = u /\ c[k][1] \in S /\ c[k][2] \in S

\* Mutant: a refused join is treated as a join (the NULL is not noticed).
JoinIntoEntryIgnoresRefusal(o, S, l, r, st) ==
  LET cand == JoinPathCost(o, st.cost[l], st.cost[r], S)
  IN  IF l \notin st.P \/ r \notin st.P THEN [st EXCEPT !.crashed = TRUE]
      ELSE [st EXCEPT !.P = @ \cup {S},
                      !.cost[S] = IF S \in st.P THEN Min({@, cand}) ELSE cand]

\* Mutant: the comparison that keeps the cheaper relation is reversed.
JoinIntoEntryKeepsCostlier(o, S, l, r, st) ==
  LET cand == JoinPathCost(o, st.cost[l], st.cost[r], S)
  IN  IF l \notin st.P \/ r \notin st.P THEN [st EXCEPT !.crashed = TRUE]
      ELSE IF ~JoinIsLegal(o, l, r)
           THEN IF S \in st.P THEN [st EXCEPT !.crashed = TRUE] ELSE st
      ELSE [st EXCEPT !.P = @ \cup {S},
                      !.cost[S] = IF S \in st.P THEN Max({@, cand}) ELSE cand]

\* make_join_rel(root, P[l], P[r]) (a NULL input is dereferenced),
\* set_cheapest, and the keep-the-cheaper update of P[S], which reads
\* join_rel->cheapest_total_path even when make_join_rel returned NULL.
JoinIntoEntry(o, S, l, r, st) ==
  LET cand == JoinPathCost(o, st.cost[l], st.cost[r], S)
  IN  IF l \notin st.P \/ r \notin st.P THEN [st EXCEPT !.crashed = TRUE]
      ELSE IF ~JoinIsLegal(o, l, r)
           THEN IF S \in st.P THEN [st EXCEPT !.crashed = TRUE] ELSE st
      ELSE [st EXCEPT !.P = @ \cup {S},
                      !.cost[S] = IF S \in st.P THEN Min({@, cand}) ELSE cand]

\* try_splits: the left input P[S \ {u}], the right input P[{u}].
SplitRight(o, S, u, st) == JoinIntoEntry(o, S, S \ {u}, {u}, st)

\* Mutant: the loop stops at the first split that produced a join.
TrySplitsFirstOnly(o, q, c, st) ==
  LET S == ToSet(q)
  IN FoldLeft(LAMBDA s, u : IF s.crashed \/ ~ValidRight(u, S, c) \/ S \in s.P
                            THEN s ELSE SplitRight(o, S, u, s),
              st, q)

\* try_splits(root, q, constr, P, levels_needed).
TrySplits(o, q, c, st) ==
  LET S == ToSet(q)
  IN FoldLeft(LAMBDA s, u : IF s.crashed \/ ~ValidRight(u, S, c) THEN s
                            ELSE SplitRight(o, S, u, s),
              st, q)

\* try_splits_b(root, q, constr, P, n): every candidate left input L of
\* the list A (LeftSidesB) other than the empty and the full set, with the
\* rest of S on the right.
TrySplitsB(o, q, A, st) ==
  LET S == ToSet(q)
  IN FoldInOrder(LAMBDA s, L : IF s.crashed \/ ToSet(L) \in {{}, S} THEN s
                               ELSE JoinIntoEntry(o, S, ToSet(L), S \ ToSet(L), s),
                 st, A)

\* list_qsort(join_res, ptr_less): the admissible results are visited in
\* ascending length; qsort leaves the order of equal lengths unspecified.
IsNextInSortOrder(w, q) == \A r \in todo[w] : Len(q) <= Len(r)

\* worker(): the constraints and admissible results of the variant.
WorkerConstraints(w) ==
  IF PType = 2 THEN PartConstraints(w, W) ELSE PartConstraintsB(w, W)

WorkerJoinResults(w) ==
  IF PType = 2 THEN AdmJoinResults(N, WorkerConstraints(w))
  ELSE AdmJoinResultsB(N, WorkerConstraints(w))

\* The admissible list of every worker, evaluated once when TLC starts
\* (t = t makes TLC evaluate the table rather than keep its definition).
JoinResultsOf ==
  LET t == [w \in Workers |-> WorkerJoinResults(w)] IN IF t = t THEN t ELSE t

\* The list A of try_splits_b for every worker and admissible result; it
\* depends on the constraints only, so it too is evaluated once.
LeftSidesOf ==
  LET t == [w \in Workers |->
              [q \in IF PType = 3 THEN Range(JoinResultsOf[w]) ELSE {} |->
                 LeftSidesB(ToSet(q), WorkerConstraints(w), N)]]
  IN IF t = t THEN t ELSE t

-----------------------------------------------------------------------------

Init ==
  /\ oracle \in OracleChoices
  /\ opc = "create"
  /\ nextThread = 0
  /\ optimal = 0
  /\ wpc = [w \in Workers |-> "unborn"]
  /\ mutex = NoWorker
  /\ constr = [w \in Workers |-> <<>>]
  /\ todo = [w \in Workers |-> {}]
  /\ P = [w \in Workers |-> {}]
  /\ cost = [w \in Workers |-> [S \in SUBSET Ords |-> 0]]
  /\ output = [w \in Workers |-> 0]
  /\ crashed = FALSE

\* One iteration of the pthread_create loop; the last one moves on to joining.
CreateThread ==
  /\ ~crashed
  /\ opc = "create"
  /\ wpc' = [wpc EXCEPT ![nextThread] = "waiting"]
  /\ nextThread' = IF nextThread + 1 = W THEN 0 ELSE nextThread + 1
  /\ opc' = IF nextThread + 1 = W THEN "join" ELSE "create"
  /\ UNCHANGED <<oracle, optimal, mutex, constr, todo, P, cost, output, crashed>>

\* worker(): lock the mutex, build constr and join_res, allocate the DP
\* table, seed the singletons and sort join_res.
WorkerStart(w) ==
  /\ ~crashed
  /\ wpc[w] = "waiting"
  /\ mutex = NoWorker
  /\ mutex' = w
  /\ wpc' = [wpc EXCEPT ![w] = "running"]
  /\ constr' = [constr EXCEPT ![w] = WorkerConstraints(w)]
  /\ todo' = [todo EXCEPT ![w] = Range(JoinResultsOf[w])]
  /\ P' = [P EXCEPT ![w] = Singletons]
  /\ cost' = [cost EXCEPT ![w] = [S \in SUBSET Ords |->
                                    IF S \in Singletons THEN Rows(oracle, S) ELSE 0]]
  /\ UNCHANGED <<oracle, opc, nextThread, optimal, output, crashed>>

\* A singleton admissible result is passed over (list_length(q) > 1 fails).
WorkerSkip(w, q) ==
  /\ ~crashed
  /\ wpc[w] = "running"
  /\ q \in todo[w]
  /\ IsNextInSortOrder(w, q)
  /\ Len(q) = 1
  /\ todo' = [todo EXCEPT ![w] = @ \ {q}]
  /\ UNCHANGED <<oracle, opc, nextThread, optimal, wpc, mutex, constr, P, cost,
                 output, crashed>>

\* try_splits on the next admissible result.
WorkerTrySplits(w, q) ==
  /\ PType = 2
  /\ ~crashed
  /\ wpc[w] = "running"
  /\ q \in todo[w]
  /\ IsNextInSortOrder(w, q)
  /\ Len(q) > 1
  /\ LET st == TrySplits(oracle, q, constr[w],
                         [P |-> P[w], cost |-> cost[w], crashed |-> FALSE])
     IN /\ todo' = [todo EXCEPT ![w] = @ \ {q}]
        /\ P' = [P EXCEPT ![w] = st.P]
        /\ cost' = [cost EXCEPT ![w] = st.cost]
        /\ crashed' = st.crashed
  /\ UNCHANGED <<oracle, opc, nextThread, optimal, wpc, mutex, constr, output>>

\* try_splits_b on all admissible results of size k, in list order, from
\* the DP state st; a crash ends the loop.
TrySplitsLevelB(o, w, k, st) ==
  FoldInOrder(LAMBDA s, q : IF s.crashed THEN s
                            ELSE TrySplitsB(o, q, LeftSidesOf[w][q], s),
              st, SelectSeq(JoinResultsOf[w], LAMBDA q : Len(q) = k))

\* The DP state of worker w under oracle o after WorkerStart (index 1) and
\* after the levels up to k (index k). A worker's DP table is private and
\* its run deterministic, so the states it passes through depend on o and
\* w only; they are evaluated once, when TLC starts.
DPLevelsOf ==
  LET start(o) == [P |-> Singletons, crashed |-> FALSE,
                   cost |-> [S \in SUBSET Ords |-> IF S \in Singletons THEN Rows(o, S) ELSE 0]]
      t == [o \in OracleChoices |-> [w \in Workers |->
              IF PType = 3
              THEN FoldInOrder(LAMBDA acc, k : Append(acc, TrySplitsLevelB(o, w, k, acc[Len(acc)])),
                               <<start(o)>>, [i \in 1..(N - 1) |-> i + 1])
              ELSE <<>>]]
  IN IF t = t THEN t ELSE t

\* try_splits_b on all admissible results of the next size k. try_splits_b
\* for S reads only the entries of strict subsets of S and writes only
\* P[S], so the results of one size are independent of each other and of
\* the order qsort leaves them in. The worker's state is the one the
\* table reached after the sizes below k (the first conjunct of the LET
\* body: only w writes P[w] and cost[w]); the step takes the next entry.
WorkerTrySplitsLevelB(w) ==
  /\ PType = 3
  /\ ~crashed
  /\ wpc[w] = "running"
  /\ todo[w] # {}
  /\ LET k == Min({Len(q) : q \in todo[w]})
         st == DPLevelsOf[oracle][w][k]
     IN /\ k > 1
        /\ P[w] = DPLevelsOf[oracle][w][k - 1].P /\ cost[w] = DPLevelsOf[oracle][w][k - 1].cost
        /\ todo' = [todo EXCEPT ![w] = {q \in @ : Len(q) # k}]
        /\ P' = [P EXCEPT ![w] = st.P]
        /\ cost' = [cost EXCEPT ![w] = st.cost]
        /\ crashed' = st.crashed
  /\ UNCHANGED <<oracle, opc, nextThread, optimal, wpc, mutex, constr, output>>

\* Mutant: the worker returns without pthread_mutex_unlock.
WorkerFinishKeepsLock(w) ==
  /\ ~crashed
  /\ wpc[w] = "running"
  /\ todo[w] = {}
  /\ Ords \in P[w]
  /\ output' = [output EXCEPT ![w] = cost[w][Ords]]
  /\ wpc' = [wpc EXCEPT ![w] = "finished"]
  /\ UNCHANGED <<oracle, opc, nextThread, optimal, mutex, constr, todo, P, cost,
                 crashed>>

\* *best = *(P[full]), free, unlock.
WorkerFinish(w) ==
  /\ ~crashed
  /\ wpc[w] = "running"
  /\ todo[w] = {}
  /\ Ords \in P[w]
  /\ output' = [output EXCEPT ![w] = cost[w][Ords]]
  /\ wpc' = [wpc EXCEPT ![w] = "finished"]
  /\ mutex' = NoWorker
  /\ UNCHANGED <<oracle, opc, nextThread, optimal, constr, todo, P, cost, crashed>>

\* *(P[full]) with P[full] still NULL.
WorkerNoPlan(w) ==
  /\ ~crashed
  /\ wpc[w] = "running"
  /\ todo[w] = {}
  /\ Ords \notin P[w]
  /\ crashed' = TRUE
  /\ UNCHANGED <<oracle, opc, nextThread, optimal, wpc, mutex, constr, todo, P,
                 cost, output>>

\* best = output of thread 0; optimal and *root are taken from it.
JoinFirst ==
  /\ ~crashed
  /\ opc = "join"
  /\ nextThread = 0
  /\ wpc[0] = "finished"
  /\ optimal' = 0
  /\ nextThread' = 1
  /\ opc' = IF W = 1 THEN "done" ELSE "join"
  /\ UNCHANGED <<oracle, wpc, mutex, constr, todo, P, cost, output, crashed>>

\* that_path->total_cost < best_path->total_cost, where best is never
\* reassigned and stays the output of thread 0.
CheaperThanBest(j) == output[j] < output[0]

JoinNext ==
  /\ ~crashed
  /\ opc = "join"
  /\ nextThread \in 1..(W - 1)
  /\ wpc[nextThread] = "finished"
  /\ optimal' = IF CheaperThanBest(nextThread) THEN nextThread ELSE optimal
  /\ nextThread' = nextThread + 1
  /\ opc' = IF nextThread + 1 = W THEN "done" ELSE "join"
  /\ UNCHANGED <<oracle, wpc, mutex, constr, todo, P, cost, output, crashed>>

Next ==
  \/ CreateThread
  \/ JoinFirst
  \/ JoinNext
  \/ \E w \in Workers :
        \/ WorkerStart(w)
        \/ WorkerFinish(w)
        \/ WorkerNoPlan(w)
        \/ WorkerTrySplitsLevelB(w)
        \/ \E q \in todo[w] : WorkerSkip(w, q) \/ WorkerTrySplits(w, q)

\* Threads are scheduled by the operating system and every step of the model
\* terminates; a waiting worker finds the mutex free once the finitely many
\* others are done, so weak fairness is enough.
Spec == Init /\ [][Next]_vars /\ WF_vars(Next)

-----------------------------------------------------------------------------
(* Properties *)

TypeOK ==
  /\ oracle \in OracleChoices
  /\ opc \in {"create", "join", "done"}
  /\ nextThread \in 0..W
  /\ optimal \in Workers
  /\ wpc \in [Workers -> {"unborn", "waiting", "running", "finished"}]
  /\ mutex \in Workers \cup {NoWorker}
  /\ todo \in [Workers -> SUBSET Seq(Ords)]
  /\ P \in [Workers -> SUBSET SUBSET Ords]
  /\ cost \in [Workers -> [SUBSET Ords -> Nat]]
  /\ output \in [Workers -> Nat]
  /\ crashed \in BOOLEAN

\* For left-deep plans, adm_join_results lists, for every partition id,
\* each admissible intermediate result exactly once (comment of
\* adm_join_results).
AdmissibleListsExact ==
  PType = 2 =>
    \A p \in Workers :
       IsExactList(WorkerJoinResults(p), AdmissibleReference(N, WorkerConstraints(p)))

\* The optimum of S in the partition of worker w: the cheapest legal
\* left-deep order that follows its constraints, or the cheapest bushy tree
\* whose intermediate results are all admissible for it.
\* (t = t makes TLC evaluate the table once, when it evaluates the constant
\* definitions, instead of at every use.)
BushyPartitionTables ==
  LET t == [o \in OracleChoices |->
              [w \in Workers |-> BushyTable(o, ListedSets(WorkerJoinResults(w)))]]
  IN IF t = t THEN t ELSE t

PartitionOptimum(w, S) ==
  IF PType = 2 THEN CheapestLeftDeep(oracle, S, constr[w])
  ELSE BushyPartitionTables[oracle][w][S]

\* Every DP entry of a visited admissible result holds the optimum of its
\* tables in the worker's partition: try_splits / try_splits_b, visiting the
\* results in ascending size, consider every admissible split and only read
\* entries that are final (spec 4.3, 4.4, 4.5). For the full set this is
\* the worker's output.
DPEntriesOptimal ==
  ~crashed =>
    \A w \in Workers : \A S \in P[w] :
       (Cardinality(S) > 1 /\ S \notin {ToSet(q) : q \in todo[w]})
         => cost[w][S] = PartitionOptimum(w, S)

\* The orchestrator adopts the cheapest of the workers' plans (spec 4.5).
AdoptsCheapest ==
  opc = "done" => \A w \in Workers : output[optimal] <= output[w]

\* Every search ends, with a plan or with the process gone.
Termination == <>(opc = "done" \/ crashed)

\* The abstract JoinSearch this search implements: its one observable result
\* is the cheapest plan over all join orders (left-deep) or all join trees
\* (bushy). The refinement property is stated in MCParallelJoinSearch.
Abstract == INSTANCE JoinSearch WITH
  result <- IF opc = "done" THEN output[optimal] ELSE -1

\* The table of optima the model gives is the one the abstract search defines.
ASSUME Optimum = [o \in OracleChoices |-> Abstract!CheapestPlan(o)]
=============================================================================
