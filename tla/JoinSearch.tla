------------------------------ MODULE JoinSearch ------------------------------
(***************************************************************************)
(* What search(relations, mode, workers) promises (spec sections 4.1,    *)
(* 4.5, 6, 7, 8): one step that returns the cost of the cheapest legal     *)
(* plan joining all N tables, left-deep (PType = 2) or bushy (PType = 3),  *)
(* or NoLegalJoinOrder when there is none. Nothing else is observable.     *)
(***************************************************************************)
EXTENDS JoinCostModel

CONSTANTS
  OracleChoices,  \* the cost oracles the planner may present
  PType,          \* 2: left-deep plans, 3: bushy plans
  Optimum         \* the cost of the cheapest plan for every oracle

VARIABLES oracle, result
vars == <<oracle, result>>

NoResult == -1
NoLegalJoinOrder == -2

\* The cheapest plan of all N tables, -1 when there is none.
CheapestPlan(o) ==
  IF PType = 2 THEN CheapestLeftDeep(o, Ords, <<>>) ELSE CheapestBushy(o, Ords)

\* Optimum is a parameter so that a model evaluates it once; it must be
\* the table of CheapestPlan.
ASSUME Optimum = [o \in OracleChoices |-> CheapestPlan(o)]

Init ==
  /\ oracle \in OracleChoices
  /\ result = NoResult

Search ==
  /\ result = NoResult
  /\ result' = IF Optimum[oracle] = -1 THEN NoLegalJoinOrder ELSE Optimum[oracle]
  /\ UNCHANGED oracle

SafetySpec == Init /\ [][Search]_vars

Spec == SafetySpec /\ WF_vars(Search)

\* Search is enabled exactly while result = NoResult (Optimum is defined
\* for every oracle), so under SafetySpec the fairness of Spec is
\* equivalent to this: the search eventually returns.
Returns == <>(result # NoResult)
=============================================================================
