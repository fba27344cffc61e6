---------------------------- MODULE JoinCostModel ----------------------------
(***************************************************************************)
(* The cost oracle the join search consumes and the reference optimum it  *)
(* must find.                                                              *)
(*                                                                         *)
(* The oracle is the planner around the search (make_join_rel,             *)
(* set_cheapest and the path generators of joinrels.c/pathnode.c, which    *)
(* are not part of this repository): it is modelled from its interface in  *)
(* the spec (tryJoin, finalize, totalCost). An oracle is a record          *)
(*   [weight |-> [Ords -> Nat], legal |-> kind]                            *)
(* weight[u] is the row count of table u and the cost of scanning it; the  *)
(* estimated rows of a join result are the sum of its tables' weights and  *)
(* a join path costs its inputs' costs plus the rows it produces (the      *)
(* classic C_out cost), so that the order of the joins matters. kind says  *)
(* which joins tryJoin accepts.                                            *)
(***************************************************************************)
EXTENDS Integers, Sequences, SequencesExt, FiniteSets, EagerFold

CONSTANT N          \* levels_needed: the number of tables to join

Ords == 0..(N - 1)

\* The legality kinds: every join legal; only joins of tables adjacent in the
\* chain 0-1-2-...-(N-1) (the scenario of spec section 8); no join legal;
\* every join legal except those forming the complete set; every join legal
\* but join clauses only between neighbours of the chain.
LegalKinds == {"all", "chain", "none", "noFull", "clauseChain"}

Rows(o, S) == MapThenSumSet(LAMBDA u : o.weight[u], S)

\* The cheapest path of a base relation after set_base_rel_pathlists.
ScanCost(o, u) == Rows(o, {u})

\* make_join_rel(root, l, r) returns a join relation iff join_is_legal.
JoinIsLegal(o, L, R) ==
  CASE o.legal = "all"    -> TRUE
    [] o.legal = "chain"  -> \E a \in L, b \in R : a - b \in {-1, 1}
    [] o.legal = "none"   -> FALSE
    [] o.legal = "noFull" -> L \cup R # Ords
    [] o.legal = "clauseChain" -> TRUE

\* have_relevant_joinclause(root, l, r) \/ have_join_order_restriction(...):
\* under the chain kinds the clauses link neighbours of the chain only, and
\* the other kinds have a clause between any two relations.
HaveJoinClause(o, L, R) ==
  IF o.legal \in {"chain", "clauseChain"} THEN \E a \in L, b \in R : a - b \in {-1, 1}
  ELSE TRUE

\* The total cost of the cheapest path joining inputs of the given costs into S.
JoinPathCost(o, costL, costR, S) == costL + costR + Rows(o, S)

-----------------------------------------------------------------------------
(* Reference: the left-deep plans of a set S are the orders of S; an order *)
(* is legal iff each table can be joined to the prefix before it; its cost *)
(* is that of the left-deep join tree that follows it.                     *)

Prefix(ord, k) == ToSet(SubSeq(ord, 1, k))

IsLegalOrder(o, ord) ==
  \A k \in 2..Len(ord) : JoinIsLegal(o, Prefix(ord, k - 1), {ord[k]})

RECURSIVE LeftDeepCost(_, _)
LeftDeepCost(o, ord) ==
  IF Len(ord) = 1 THEN ScanCost(o, ord[1])
  ELSE JoinPathCost(o, LeftDeepCost(o, Front(ord)), ScanCost(o, Last(ord)),
                    ToSet(ord))

\* The order puts the first table of every constraint before its second.
FollowsConstraints(ord, constr) ==
  \A k \in DOMAIN constr : \A i, j \in DOMAIN ord :
     (ord[i] = constr[k][1] /\ ord[j] = constr[k][2]) => i < j

LegalOrders(o, S, constr) ==
  {ord \in SetToSeqs(S) : IsLegalOrder(o, ord) /\ FollowsConstraints(ord, constr)}

\* The cheapest left-deep plan of S under constr; -1 if there is none.
CheapestLeftDeep(o, S, constr) ==
  IF LegalOrders(o, S, constr) = {} THEN -1
  ELSE Min({LeftDeepCost(o, ord) : ord \in LegalOrders(o, S, constr)})

-----------------------------------------------------------------------------
(* Reference for bushy plans: the cheapest join tree of every set whose    *)
(* nodes all lie in Adm (and whose joins are legal), computed level by     *)
(* level over the set sizes; -1 where there is none. With Adm the set of   *)
(* all subsets it is the unconstrained bushy optimum.                      *)

BushyTable(o, Adm) ==
  LET AdmOrSingle == Adm \cup {{u} : u \in Ords}
      Step(tbl, k) ==
        [S \in SUBSET Ords |->
           IF Cardinality(S) # k THEN tbl[S]
           ELSE LET c == {JoinPathCost(o, tbl[L], tbl[S \ L], S) :
                            L \in {L \in SUBSET S \ {{}, S} :
                                     /\ L \in AdmOrSingle /\ S \ L \in AdmOrSingle
                                     /\ tbl[L] >= 0 /\ tbl[S \ L] >= 0
                                     /\ JoinIsLegal(o, L, S \ L)}}
                IN IF S \notin Adm \/ c = {} THEN -1 ELSE Min(c)]
  IN FoldInOrder(Step, [S \in SUBSET Ords |-> IF Cardinality(S) = 1
                                                 THEN ScanCost(o, CHOOSE u \in S : TRUE)
                                                 ELSE -1],
                 [k \in 1..(N - 1) |-> k + 1])

CheapestBushy(o, S) == BushyTable(o, SUBSET Ords)[S]
=============================================================================
