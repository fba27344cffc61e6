------------------------- MODULE MCParallelJoinSearch -------------------------
(* Model values for ParallelJoinSearch: four tables (levels_needed = 4, an *)
(* even count, so make_rel_from_joinlist calls parallel_join_search).      *)
EXTENDS ParallelJoinSearch

\* The cheapest plan for every oracle, evaluated once when TLC starts
\* (t = t makes it evaluate the table rather than keep its definition).
MCOptimum ==
  LET t == [o \in OracleChoices |->
              IF PType = 2 THEN CheapestLeftDeep(o, Ords, <<>>) ELSE CheapestBushy(o, Ords)]
  IN IF t = t THEN t ELSE t

\* Table weights (row counts) that make different join orders cheapest,
\* including orders that some partitions exclude.
MCWeights ==
  { [u \in 0..3 |-> <<1, 2, 3, 1>>[u + 1]],
    [u \in 0..3 |-> <<3, 1, 1, 2>>[u + 1]],
    [u \in 0..3 |-> <<2, 1, 1, 3>>[u + 1]],
    [u \in 0..3 |-> <<1, 1, 1, 1>>[u + 1]] }

\* Oracles that accept every join.
MCLegalOracles == [weight : MCWeights, legal : {"all"}]

\* Oracles that refuse some joins (spec 8: the A-B-C-D chain, no join at all).
MCRestrictedOracles ==
  [weight : {[u \in 0..3 |-> <<3, 1, 1, 2>>[u + 1]]},
   legal : {"chain", "none", "noFull"}]

\* Six tables (two triples) for the bushy variant: weights for which the
\* cheapest tree joins two pairs first, and for which its first join is the
\* pair {1, 2} that partition 0 excludes.
MCBushyWeights ==
  { [u \in 0..5 |-> <<5, 1, 1, 3, 4, 5>>[u + 1]],
    [u \in 0..5 |-> <<3, 1, 2, 2, 1, 3>>[u + 1]] }

\* Both, for the four-partition run.
MCPartOracles == MCLegalOracles \cup MCRestrictedOracles

MCBushyOracles == [weight : MCBushyWeights, legal : {"all"}]

\* The first of them alone, for the four-partition run.
MCBushyOracle ==
  [weight : {[u \in 0..5 |-> <<5, 1, 1, 3, 4, 5>>[u + 1]]}, legal : {"all"}]

\* The bushy variant with oracles that refuse joins.
MCBushyRestrictedOracles ==
  [weight : {[u \in 0..5 |-> <<3, 1, 2, 2, 1, 3>>[u + 1]]},
   legal : {"chain", "noFull"}]

\* The bushy variant with the chain oracle alone.
MCBushyChainOracles ==
  [weight : {[u \in 0..5 |-> <<3, 1, 2, 2, 1, 3>>[u + 1]]}, legal : {"chain"}]

\* The abstract JoinSearch over the table MCOptimum of this module, whose
\* value TLC computes once (a constant of ParallelJoinSearch substituted
\* inside its own instance is evaluated anew at every step).
MCAbstract == INSTANCE JoinSearch WITH
  Optimum <- MCOptimum,
  result <- IF opc = "done" THEN output[optimal] ELSE -1

\* parallel_join_search implements the abstract JoinSearch: the partitions
\* together cover the whole plan space (spec 4.2, and for bushy plans the
\* open question of spec section 8), so the plan it returns is the cheapest.
\* Abstract!Spec is SafetySpec /\ WF(Search), and WF(Search) is equivalent
\* there to Returns (see JoinSearch); the latter is what TLC checks.
JoinSearchRefined == MCAbstract!SafetySpec /\ MCAbstract!Returns
=============================================================================
