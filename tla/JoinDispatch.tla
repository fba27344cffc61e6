----------------------------- MODULE JoinDispatch -----------------------------
(***************************************************************************)
(* make_rel_from_joinlist (allpaths.c): with no join_search_hook and GEQO  *)
(* off or below geqo_threshold, an even number of items goes to            *)
(* parallel_join_search(root, N, initial_rels, 1, 2) and an odd number to  *)
(* standard_join_search. The composition of the two searches: both are     *)
(* instantiated over shared variables, and the dispatch runs the one that  *)
(* the item count selects while the other one's variables stay put.       *)
(***************************************************************************)
EXTENDS JoinCostModel

CONSTANTS
  OracleChoices,    \* the cost oracles the planner may present
  OptimumLeftDeep,  \* the cheapest left-deep plan for every oracle
  OptimumBushy,     \* the cheapest bushy plan for every oracle
  NoWorker,         \* model value: nobody holds the worker mutex
  Failed            \* model value: elog(ERROR) of standard_join_search

VARIABLES oracle, opc, nextThread, optimal, wpc, mutex, constr, todo, P,
          cost, output, crashed, lev, joinRelLevel, relCost, result

parallelVars == <<opc, nextThread, optimal, wpc, mutex, constr, todo, P,
                  cost, output, crashed>>
standardVars == <<lev, joinRelLevel, relCost, result>>
vars == <<oracle, parallelVars, standardVars>>

Parallel == INSTANCE ParallelJoinSearch WITH W <- 1, PType <- 2, Optimum <- OptimumLeftDeep
Standard == INSTANCE StandardJoinSearch

\* Mutant: the parity test reversed.
UsesParallelSearchOdd == N % 2 = 1

\* The branch levels_needed % 2 == 0.
UsesParallelSearch == N % 2 = 0

Init == Parallel!Init /\ Standard!Init

\* The dispatch: the selected search takes its steps, the other stays put.
ParallelStep == UsesParallelSearch /\ Parallel!Next /\ UNCHANGED standardVars
StandardStep == ~UsesParallelSearch /\ Standard!Next /\ UNCHANGED parallelVars

Next == ParallelStep \/ StandardStep

\* Both searches are sequential code or threads that the OS schedules.
Spec == Init /\ [][Next]_vars /\ WF_vars(Next)

-----------------------------------------------------------------------------

\* The type invariant of the standard search: join_rel_level[k] holds
\* relations of k tables only.
TypeOK == Standard!TypeOK

\* What the planner promises of make_rel_from_joinlist for this dispatch:
\* the cheapest plan of all the items, left-deep for an even count (the
\* p_type 2 call) and bushy for an odd one, or NoLegalJoinOrder.
Abstract == INSTANCE JoinSearch WITH
  PType <- IF N % 2 = 0 THEN 2 ELSE 3,
  Optimum <- IF N % 2 = 0 THEN OptimumLeftDeep ELSE OptimumBushy,
  result <- IF N % 2 = 0
            THEN (IF opc = "done" THEN output[optimal] ELSE -1)
            ELSE (IF result = Failed THEN -2 ELSE result)

\* make_rel_from_joinlist returns the plan its mode promises (Abstract's
\* SafetySpec with its liveness, see JoinSearch).
DispatchRefined == Abstract!SafetySpec /\ Abstract!Returns
=============================================================================
