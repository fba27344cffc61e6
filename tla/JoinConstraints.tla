--------------------------- MODULE JoinConstraints ---------------------------
(***************************************************************************)
(* The partition of the join-order search space among workers, for left-   *)
(* deep plans (parallel_worker.c, duplicated in allpaths.c):               *)
(*   part_constraints       the order constraints of one worker,           *)
(*   constrained_power_set  the admissible subsets of one pair of tables,  *)
(*   cartesian_product      the union-closure of two lists of subsets,     *)
(*   adm_join_results       the admissible intermediate join results.      *)
(* Lists keep their order: the order of the ordinals inside an admissible  *)
(* set is the order in which try_splits visits its candidate right sides.  *)
(* Table ordinals are 0..N-1 as in the C code.                             *)
(***************************************************************************)
EXTENDS Integers, Sequences, SequencesExt, FiniteSets, EagerFold

\* Bit i of x: the test (part_id & (1 << i)) > 0.
BitSet(x, i) == (x \div (2 ^ i)) % 2 = 1

\* Number of iterations of  for(i = 0; (1 << i) < n_workers; i++).
NumConstrainedGroups(nWorkers) == Cardinality({i \in 0..nWorkers : 2 ^ i < nWorkers})

\* Mutant: the partition id is ignored, every worker gets the same order.
PartConstraintsIgnoringId(partId, nWorkers) ==
  [k \in 1..NumConstrainedGroups(nWorkers) |-> <<2 * (k - 1), 2 * (k - 1) + 1>>]

\* part_constraints: constraint i orders tables 2i and 2i+1; bit i of the
\* partition id puts 2i+1 first. A constraint <<q1, q2>> means q1 is joined
\* before q2.
PartConstraints(partId, nWorkers) ==
  [k \in 1..NumConstrainedGroups(nWorkers) |->
     LET i == k - 1
     IN IF BitSet(partId, i) THEN <<2 * i + 1, 2 * i>> ELSE <<2 * i, 2 * i + 1>>]

\* TRUE iff some constraint of constr has q as its second (later) table.
IsConstrainedAfter(constr, q) == \E k \in DOMAIN constr : constr[k][2] = q

\* Mutant: list_nth_int(ci, 0) read instead of list_nth_int(ci, 1).
ConstrainedPowerSetWrongIndex(constr, q1, q2) ==
  LET firstOf(q) == \E k \in DOMAIN constr : constr[k][1] = q
  IN (IF firstOf(q1) THEN <<>> ELSE << <<q1>> >>)
     \o (IF firstOf(q2) THEN <<>> ELSE << <<q2>> >>)
     \o << <<q1, q2>> >>

\* constrained_power_set: {q1}, {q2} unless the table must follow the
\* other one, then {q1, q2}.
ConstrainedPowerSet(constr, q1, q2) ==
  (IF IsConstrainedAfter(constr, q1) THEN <<>> ELSE << <<q1>> >>)
  \o (IF IsConstrainedAfter(constr, q2) THEN <<>> ELSE << <<q2>> >>)
  \o << <<q1, q2>> >>

\* cartesian_product: a, then b, then for every element of b (outer loop)
\* and every element of a (inner loop) their concatenation b[i] \o a[j].
CartesianProduct(a, b) ==
  IF a = <<>> THEN b
  ELSE IF b = <<>> THEN a
  ELSE a \o b \o FlattenSeq([i \in 1..Len(b) |->
                               [j \in 1..Len(a) |-> b[i] \o a[j]]])

\* Mutant: the loop runs while 2i <= n, one pair too many.
AdmJoinResultsExtraGroup(levelsNeeded, constr) ==
  FoldLeft(LAMBDA acc, i : CartesianProduct(acc,
                               ConstrainedPowerSet(constr, 2 * i, 2 * i + 1)),
           <<>>,
           [k \in 1..(levelsNeeded \div 2 + 1) |-> k - 1])

\* adm_join_results: the product over the pairs (2i, 2i+1) with 2i+1 < n.
AdmJoinResults(levelsNeeded, constr) ==
  FoldLeft(LAMBDA acc, i : CartesianProduct(acc,
                               ConstrainedPowerSet(constr, 2 * i, 2 * i + 1)),
           <<>>,
           [k \in 1..(levelsNeeded \div 2) |-> k - 1])

-----------------------------------------------------------------------------
(* The bushy variant (p_type = 3): tables are grouped by three and a       *)
(* constraint <<a, b, c>> says that a is joined with c before the result   *)
(* is joined with b, so no intermediate result holds exactly {b, c} of     *)
(* the group.                                                              *)

\* Mutant: the orientation bit is read but both orientations put 3i first.
PartConstraintsBSameOrientation(partId, nWorkers) ==
  [k \in 1..NumConstrainedGroups(nWorkers) |->
     LET i == k - 1 IN <<3 * i, 3 * i + 1, 3 * i + 2>>]

\* part_constraints_b: bit i of the partition id swaps 3i and 3i+1.
PartConstraintsB(partId, nWorkers) ==
  [k \in 1..NumConstrainedGroups(nWorkers) |->
     LET i == k - 1
     IN IF BitSet(partId, i) THEN <<3 * i + 1, 3 * i, 3 * i + 2>>
                             ELSE <<3 * i, 3 * i + 1, 3 * i + 2>>]

\* constrained_power_set_b: all nonempty subsets of {q1, q2, q3}, except
\* {q1, q3} (resp. {q2, q3}) when q1 (resp. q2) is the middle table of some
\* constraint. For a constraint <<a, b, c>> this drops {b, c} only and
\* keeps {a, b}; the comment of part_constraints_b, read literally (a
\* joined with c before b), would drop {a, b} as well, and then no
\* partition would join the first two tables of a triple first.
ConstrainedPowerSetB(constr, q1, q2, q3) ==
  << <<q1>>, <<q2>>, <<q3>>, <<q1, q2>> >>
  \o (IF IsConstrainedAfter(constr, q1) THEN <<>> ELSE << <<q1, q3>> >>)
  \o (IF IsConstrainedAfter(constr, q2) THEN <<>> ELSE << <<q2, q3>> >>)
  \o << <<q1, q2, q3>> >>

\* The group indices i with 3i+2 < n, in loop order.
GroupsB(levelsNeeded) == [k \in 1..(levelsNeeded \div 3) |-> k - 1]

\* adm_join_results_b: the product over the triples (3i, 3i+1, 3i+2).
AdmJoinResultsB(levelsNeeded, constr) ==
  FoldInOrder(LAMBDA acc, i : CartesianProduct(acc,
                               ConstrainedPowerSetB(constr, 3 * i, 3 * i + 1, 3 * i + 2)),
           <<>>, GroupsB(levelsNeeded))

\* try_splits_b, the table triple of group i: the constraint's own order
\* when there is one (ithentry), the natural order otherwise.
GroupTripleB(constr, i) ==
  IF i < Len(constr) THEN constr[i + 1] ELSE <<3 * i, 3 * i + 1, 3 * i + 2>>

\* try_splits_b, Spower: the pieces of group t that the left input may take
\* from the set S, in the order the code appends them. A constrained group
\* offers neither {q2, q3} nor {q1} alone when all three are present.
SplitPiecesB(S, t, constrained) ==
  LET q1 == t[1]  q2 == t[2]  q3 == t[3]
      when(b, s) == IF b THEN s ELSE <<>>
  IN IF q3 \in S
     THEN << <<q3>> >>
          \o IF q2 \in S
             THEN << <<q2>> >>
                  \o when(~constrained, << <<q2, q3>> >>)
                  \o when(q1 \in S, when(~constrained, << <<q1>> >>)
                                    \o << <<q1, q2>>, <<q1, q3>>, <<q1, q2, q3>> >>)
             ELSE when(q1 \in S, << <<q1>>, <<q1, q3>> >>)
     ELSE IF q2 \in S THEN << <<q2>> >> \o when(q1 \in S, << <<q1, q2>>, <<q1>> >>)
     ELSE when(q1 \in S, << <<q1>> >>)

\* try_splits_b, the list A of candidate left inputs of S: the product of
\* the pieces over the groups.
LeftSidesB(S, constr, n) ==
  FoldInOrder(LAMBDA acc, i : CartesianProduct(acc,
              SplitPiecesB(S, GroupTripleB(constr, i), i < Len(constr))),
           <<>>, GroupsB(n))

-----------------------------------------------------------------------------
(* Reference definitions, from the comment of adm_join_results: an         *)
(* intermediate result is admissible iff it is a nonempty set of the       *)
(* paired tables that contains, with the later table of a constraint, the  *)
(* earlier one.                                                            *)

PairedTables(levelsNeeded) == 0..(2 * (levelsNeeded \div 2) - 1)

RespectsConstraints(S, constr) ==
  \A k \in DOMAIN constr : constr[k][2] \in S => constr[k][1] \in S

AdmissibleReference(levelsNeeded, constr) ==
  {S \in SUBSET PairedTables(levelsNeeded) \ {{}} : RespectsConstraints(S, constr)}

\* The list as a set of table sets; it is exact iff it has no duplicates, no
\* repeated ordinal inside an element, and the reference's members.
ListedSets(list) == {ToSet(list[i]) : i \in DOMAIN list}

IsExactList(list, ref) ==
  /\ ListedSets(list) = ref
  /\ Len(list) = Cardinality(ref)
  /\ \A i \in DOMAIN list : Len(list[i]) = Cardinality(ToSet(list[i]))
=============================================================================
