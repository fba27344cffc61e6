--------------------------- MODULE MCClumpAssembler ---------------------------
(* Model values for ClumpAssembler: four tables, every guide tree, and one *)
(* weight vector under each legality kind.                                 *)
EXTENDS ClumpAssembler

MCWeight == [u \in 0..3 |-> <<3, 1, 1, 2>>[u + 1]]

MCOracles == [weight : {MCWeight},
              legal : {"all", "chain", "clauseChain", "none", "noFull"}]

\* join_rel_list empty, or holding a relation that the search of a nested
\* join list built before: its tables (10 and 11) lie below one of the
\* items this search joins, so no join of items has the same relids.
MCEarlierJoinRels ==
  { <<>>, << [relids |-> {10, 11}, cost |-> 5] >> }
=============================================================================
