--------------------------- MODULE ClumpAssembler ---------------------------
(***************************************************************************)
(* The clump assembler of parallel_eval.c: parallel_eval builds the join   *)
(* relation that a guide tree describes (construct_rel_based_on_plan),     *)
(* greedily joining along the tree (try_merge_clump) and force-merging the *)
(* clumps left over (force_merge_clump), then restores join_rel_list.      *)
(*                                                                         *)
(* A clump is a record [relids, cost]: the tables of its RelOptInfo and    *)
(* the total cost of its cheapest path. join_rel_list is a sequence of     *)
(* such records. A guide tree is a leaf [relid |-> u] or a node           *)
(* [left |-> l, right |-> r].                                              *)
(***************************************************************************)
EXTENDS Integers, Sequences, SequencesExt, FiniteSets, JoinCostModel

CONSTANTS
  OracleChoices,   \* the oracles (weights and legality) of the query
  EarlierJoinRels, \* the possible join_rel_lists when parallel_eval starts
  DblMax           \* DBL_MAX, the cost returned when no relation is built

VARIABLES
  oracle,     \* the query's oracle, fixed
  bt,         \* the guide tree, fixed
  phase,      \* "idle", "merging" (the foreach of lines 102-106), "done"
  relList,    \* relList of construct_rel_based_on_plan
  next,       \* the index of the next relList entry the foreach visits
  frelList,   \* frelList of construct_rel_based_on_plan
  joinRels,   \* root->join_rel_list
  savelength, \* savelength of parallel_eval
  cost        \* the value parallel_eval returns

vars == <<oracle, bt, phase, relList, next, frelList, joinRels, savelength, cost>>

Clump == [relids : SUBSET Ords \ {{}}, cost : Nat]

\* The trees with leaves S, each table once: those the planner's guide
\* trees can be.
RECURSIVE GuideTrees(_)
GuideTrees(S) ==
  IF Cardinality(S) = 1 THEN {[relid |-> u] : u \in S}
  ELSE UNION {{[left |-> l, right |-> r] : l \in GuideTrees(L), r \in GuideTrees(S \ L)} :
                L \in SUBSET S \ {{}, S}}

IsLeaf(t) == DOMAIN t = {"relid"}

Size(c) == Cardinality(c.relids)

\* make_join_rel(root, l, r): NULL (here the record with no tables) unless
\* the join is legal; otherwise a new relation for l \cup r, appended to
\* join_rel_list (the clumps are disjoint, so no earlier relation of this
\* search has the same tables).
NullRel == [relids |-> {}, cost |-> 0]

MakeJoinRel(o, jr, l, r) ==
  LET S == l.relids \cup r.relids
      rel == [relids |-> S, cost |-> JoinPathCost(o, l.cost, r.cost, S)]
  IN IF JoinIsLegal(o, l.relids, r.relids) THEN [rel |-> rel, jr |-> Append(jr, rel)]
     ELSE [rel |-> NullRel, jr |-> jr]

\* desirable_join: a join clause or an order restriction links the two.
DesirableJoin(o, outer, inner) == HaveJoinClause(o, outer.relids, inner.relids)

\* The leaf case: list_nth(initial_rels, relid), a base relation.
BaseClump(o, relid) == [relids |-> {relid}, cost |-> ScanCost(o, relid)]

RECURSIVE TryMergeClump(_, _, _)

\* Mutant: the test if (joinrel) of line 147 is left out.
TryMergeClumpNoNullCheck(o, t, jr) ==
  IF IsLeaf(t) THEN [list |-> <<BaseClump(o, t.relid)>>, jr |-> jr]
  ELSE
    LET a == TryMergeClump(o, t.left, jr)
        b == TryMergeClump(o, t.right, a.jr)
    IN IF Len(a.list) > 1 \/ Len(b.list) > 1 \/ ~DesirableJoin(o, a.list[1], b.list[1])
       THEN [list |-> a.list \o b.list, jr |-> b.jr]
       ELSE LET m == MakeJoinRel(o, b.jr, a.list[1], b.list[1])
            IN [list |-> <<m.rel>>, jr |-> m.jr]

\* try_merge_clump: resolve both children; concatenate unless each is one
\* clump; then join them if desirable and legal. Returns the list and the
\* join_rel_list it leaves.
TryMergeClump(o, t, jr) ==
  IF IsLeaf(t) THEN [list |-> <<BaseClump(o, t.relid)>>, jr |-> jr]
  ELSE
    LET a == TryMergeClump(o, t.left, jr)
        b == TryMergeClump(o, t.right, a.jr)
        unmerged == [list |-> a.list \o b.list, jr |-> b.jr]
    IN IF Len(a.list) > 1 \/ Len(b.list) > 1 \/ ~DesirableJoin(o, a.list[1], b.list[1])
       THEN unmerged
       ELSE LET m == MakeJoinRel(o, b.jr, a.list[1], b.list[1])
            IN IF m.rel = NullRel THEN unmerged
               ELSE [list |-> <<m.rel>>, jr |-> m.jr]

\* Mutant: the front check of lines 202-204 is left out.
InsertBySizeNoFrontCheck(frel, rel) ==
  IF frel = <<>> \/ Size(rel) = 1 THEN Append(frel, rel)
  ELSE LET p == Min({p \in DOMAIN frel : p = Len(frel) \/ Size(rel) > Size(frel[p + 1])})
       IN InsertAt(frel, p + 1, rel)

\* force_merge_clump, lines 198-214: no clump took rel; a singleton goes
\* last, a clump larger than the head goes first, any other after the last
\* clump of its size or more.
InsertBySize(frel, rel) ==
  IF frel = <<>> \/ Size(rel) = 1 THEN Append(frel, rel)
  ELSE IF Size(rel) > Size(frel[1]) THEN <<rel>> \o frel
  ELSE LET p == Min({p \in DOMAIN frel : p = Len(frel) \/ Size(rel) > Size(frel[p + 1])})
       IN InsertAt(frel, p + 1, rel)

\* Mutant: the enlarged clump is inserted without retrying the merge.
ForceMergeClumpOnce(o, frel, rel, jr) ==
  LET legal == {i \in DOMAIN frel : JoinIsLegal(o, frel[i].relids, rel.relids)}
  IN IF legal = {} THEN [list |-> InsertBySize(frel, rel), jr |-> jr]
     ELSE LET i == Min(legal)
              m == MakeJoinRel(o, jr, frel[i], rel)
          IN [list |-> InsertBySize(RemoveAt(frel, i), m.rel), jr |-> m.jr]

\* Mutant: the merged clump is not removed from the list.
ForceMergeClumpKeepsOld(o, frel, rel, jr) ==
  LET legal == {i \in DOMAIN frel : JoinIsLegal(o, frel[i].relids, rel.relids)}
  IN IF legal = {} THEN [list |-> InsertBySize(frel, rel), jr |-> jr]
     ELSE LET i == Min(legal)
              m == MakeJoinRel(o, jr, frel[i], rel)
          IN [list |-> InsertBySize(frel, m.rel), jr |-> m.jr]

\* force_merge_clump: join rel to the first clump of the list it can join
\* (make_join_rel of an illegal pair leaves join_rel_list alone), remove
\* that clump and retry with the result; insert by size when none can.
RECURSIVE ForceMergeClump(_, _, _, _)
ForceMergeClump(o, frel, rel, jr) ==
  LET legal == {i \in DOMAIN frel : JoinIsLegal(o, frel[i].relids, rel.relids)}
  IN IF legal = {} THEN [list |-> InsertBySize(frel, rel), jr |-> jr]
     ELSE LET i == Min(legal)
              m == MakeJoinRel(o, jr, frel[i], rel)
          IN ForceMergeClump(o, RemoveAt(frel, i), m.rel, m.jr)

-----------------------------------------------------------------------------

Init ==
  /\ oracle \in OracleChoices
  /\ bt \in GuideTrees(Ords)
  /\ joinRels \in EarlierJoinRels
  /\ phase = "idle"
  /\ relList = <<>>
  /\ next = 1
  /\ frelList = <<>>
  /\ savelength = 0
  /\ cost = DblMax

\* parallel_eval up to the foreach: save the length of join_rel_list, walk
\* the guide tree; force-merging starts only if more than one clump is left.
Begin ==
  /\ phase = "idle"
  /\ LET m == TryMergeClump(oracle, bt, joinRels)
     IN /\ relList' = m.list
        /\ joinRels' = m.jr
  /\ savelength' = Len(joinRels)
  /\ phase' = "merging"
  /\ next' = IF Len(relList') > 1 THEN 1 ELSE Len(relList') + 1
  /\ UNCHANGED <<oracle, bt, frelList, cost>>

\* One iteration of the foreach at lines 102-106.
ForceMergeStep ==
  /\ phase = "merging"
  /\ next <= Len(relList)
  /\ LET m == ForceMergeClump(oracle, frelList, relList[next], joinRels)
     IN /\ frelList' = m.list
        /\ joinRels' = m.jr
  /\ next' = next + 1
  /\ UNCHANGED <<oracle, bt, phase, relList, savelength, cost>>

\* The end of construct_rel_based_on_plan and of parallel_eval: the single
\* clump's cost or DBL_MAX, join_rel_list truncated to savelength.
Finish ==
  /\ phase = "merging"
  /\ next > Len(relList)
  /\ LET final == IF Len(relList) > 1 THEN frelList ELSE relList
     IN cost' = IF Len(final) = 1 THEN final[1].cost ELSE DblMax
  /\ joinRels' = SubSeq(joinRels, 1, savelength)
  /\ phase' = "done"
  /\ UNCHANGED <<oracle, bt, relList, next, frelList, savelength>>

Next == Begin \/ ForceMergeStep \/ Finish

Spec == Init /\ [][Next]_vars

-----------------------------------------------------------------------------

\* The clumps are relations of tables of the query; cost is a path cost or
\* DBL_MAX.
TypeOK ==
  /\ phase \in {"idle", "merging", "done"}
  /\ relList \in Seq(Clump) /\ frelList \in Seq(Clump)
  /\ joinRels \in Seq([relids : SUBSET Nat \ {{}}, cost : Nat])
  /\ next \in 1..(N + 1)
  /\ cost \in Nat \cup {DblMax}

\* The clumps not yet merged: frelList and the relList entries the foreach
\* has still to visit, or relList when the tree walk left a single clump.
Pending == IF Len(relList) > 1 THEN SubSeq(relList, next, Len(relList)) \o frelList
           ELSE relList

\* try_merge_clump and force_merge_clump neither lose nor duplicate a table:
\* while merging, the pending clumps partition the tables of the query.
ClumpsPartitionTables ==
  phase = "merging" =>
    /\ UNION {Pending[i].relids : i \in DOMAIN Pending} = Ords
    /\ \A i, j \in DOMAIN Pending : i # j => Pending[i].relids \cap Pending[j].relids = {}

\* force_merge_clump keeps frelList in descending order of size (spec:
\* the list is size-descending before every insertion).
ClumpsSizeDescending ==
  \A i \in 1..(Len(frelList) - 1) : Size(frelList[i]) >= Size(frelList[i + 1])

\* The oracles under which the tables can be joined at all: those with a
\* legal bushy join tree (the reference of JoinCostModel).
JoinableOracles == {o \in OracleChoices : CheapestBushy(o, Ords) >= 0}

\* The force-merge is exhaustive: parallel_eval returns a cost iff some
\* legal join tree of all the tables exists.
AssemblesIffJoinable ==
  phase = "done" => (cost # DblMax <=> oracle \in JoinableOracles)
=============================================================================
