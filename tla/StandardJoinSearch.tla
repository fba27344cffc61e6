------------------------- MODULE StandardJoinSearch -------------------------
(***************************************************************************)
(* standard_join_search (allpaths.c), the level-by-level DP that           *)
(* make_rel_from_joinlist calls for an odd number of tables.               *)
(*                                                                         *)
(* join_rel_level[k] is the set of join relations of k tables built so    *)
(* far, each named by its table set; relCost gives the total cost of the   *)
(* cheapest path of every relation built. join_search_one_level belongs to *)
(* joinrels.c, which is not part of this repository: it is modelled from   *)
(* the DP contract of the spec (section 4.1): every disjoint pair of       *)
(* relations of levels k and lev - k is offered to make_join_rel.          *)
(***************************************************************************)
EXTENDS JoinCostModel

CONSTANTS
  OracleChoices,  \* the cost oracles the planner may present
  Failed          \* model value: elog(ERROR, "failed to build any N-way joins")

ASSUME N >= 2

VARIABLES
  oracle,         \* the cost oracle of this planning problem (never changes)
  lev,            \* the loop index of standard_join_search
  joinRelLevel,   \* root->join_rel_level
  relCost,        \* the cost of the cheapest path of every relation built
  result          \* the relation's cost, Failed, or NoResult while running

vars == <<oracle, lev, joinRelLevel, relCost, result>>

NoResult == -1

\* The pairs <<L, R>> of relations of levels k \in ks and lv - k that
\* form S and that make_join_rel accepts.
LegalSplits(o, jrl, lv, S, ks) ==
  {<<L, R>> \in UNION {jrl[k] \X jrl[lv - k] : k \in ks} :
     L \cup R = S /\ L \cap R = {} /\ JoinIsLegal(o, L, R)}

\* Mutant: only joins with one base relation are considered (left-deep).
JoinSearchOneLevelLeftDeep(o, jrl, rc, lv) ==
  LET ks == {1, lv - 1}
      built == {S \in SUBSET Ords : Cardinality(S) = lv /\ LegalSplits(o, jrl, lv, S, ks) # {}}
  IN [S \in built |-> Min({JoinPathCost(o, rc[s[1]], rc[s[2]], S) : s \in LegalSplits(o, jrl, lv, S, ks)})]

\* join_search_one_level(root, lev) followed by set_cheapest on each new
\* relation: the relations of lev tables that some legal pair of lower
\* levels forms, with the cheapest of their paths.
JoinSearchOneLevel(o, jrl, rc, lv) ==
  LET ks == 1..(lv - 1)
      built == {S \in SUBSET Ords : Cardinality(S) = lv /\ LegalSplits(o, jrl, lv, S, ks) # {}}
  IN [S \in built |-> Min({JoinPathCost(o, rc[s[1]], rc[s[2]], S) : s \in LegalSplits(o, jrl, lv, S, ks)})]

\* The allocation of join_rel_level with the initial relations as level 1.
Init ==
  /\ oracle \in OracleChoices
  /\ lev = 2
  /\ joinRelLevel = [k \in 1..N |-> IF k = 1 THEN {{u} : u \in Ords} ELSE {}]
  /\ relCost = [S \in {{u} : u \in Ords} |-> ScanCost(oracle, CHOOSE u \in S : TRUE)]
  /\ result = NoResult

\* Mutant: the new relations are stored one level too low.
JoinLevelOffByOne ==
  /\ lev <= N
  /\ LET new == JoinSearchOneLevel(oracle, joinRelLevel, relCost, lev)
     IN /\ joinRelLevel' = [joinRelLevel EXCEPT ![lev - 1] = DOMAIN new]
        /\ relCost' = relCost @@ new
  /\ lev' = lev + 1
  /\ UNCHANGED <<oracle, result>>

\* One iteration of the loop over lev.
JoinLevel ==
  /\ lev <= N
  /\ LET new == JoinSearchOneLevel(oracle, joinRelLevel, relCost, lev)
     IN /\ joinRelLevel' = [joinRelLevel EXCEPT ![lev] = DOMAIN new]
        /\ relCost' = relCost @@ new
  /\ lev' = lev + 1
  /\ UNCHANGED <<oracle, result>>

\* After the loop: the single relation of the last level, or the error.
Finish ==
  /\ lev > N
  /\ result = NoResult
  /\ result' = IF joinRelLevel[N] = {} THEN Failed ELSE relCost[Ords]
  /\ UNCHANGED <<oracle, lev, joinRelLevel, relCost>>

Next == JoinLevel \/ Finish

\* The search is sequential code; the loop runs to its end.
Spec == Init /\ [][Next]_vars /\ WF_vars(Next)

-----------------------------------------------------------------------------

\* join_rel_level[k] holds relations of k tables only.
TypeOK ==
  /\ lev \in 2..(N + 1)
  /\ joinRelLevel \in [1..N -> SUBSET SUBSET Ords]
  /\ \A k \in 1..N : \A S \in joinRelLevel[k] : Cardinality(S) = k
  /\ \A S \in DOMAIN relCost : relCost[S] \in Nat
  /\ result \in Nat \cup {NoResult, Failed}
=============================================================================
