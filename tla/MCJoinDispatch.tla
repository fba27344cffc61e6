---------------------------- MODULE MCJoinDispatch ----------------------------
(* Model values for JoinDispatch: four items (the parallel search with one *)
(* worker) or five (the standard search).                                  *)
EXTENDS JoinDispatch

\* The optima of every oracle, evaluated once.
MCOptimumLeftDeep ==
  LET t == [o \in OracleChoices |-> CheapestLeftDeep(o, Ords, <<>>)] IN IF t = t THEN t ELSE t
MCOptimumBushy ==
  LET t == [o \in OracleChoices |-> CheapestBushy(o, Ords)] IN IF t = t THEN t ELSE t

\* Four items: weights for which a bushy tree beats every left-deep order
\* (<<1, 9, 9, 1>> joins {0, 1} and {2, 3} first) and ones for which not.
MCOracles4 ==
  [weight : { [u \in 0..3 |-> <<1, 1, 9, 9>>[u + 1]],
              [u \in 0..3 |-> <<3, 1, 1, 2>>[u + 1]],
              [u \in 0..3 |-> <<1, 2, 3, 1>>[u + 1]] },
   legal : {"all", "clauseChain"}]

\* Five items, with the legality kinds under which a plan exists and not.
MCOracles5 ==
  [weight : { [u \in 0..4 |-> <<1, 1, 9, 1, 1>>[u + 1]],
              [u \in 0..4 |-> <<3, 1, 2, 2, 1>>[u + 1]],
              [u \in 0..4 |-> <<5, 1, 1, 3, 4>>[u + 1]],
              [u \in 0..4 |-> <<1, 2, 3, 4, 5>>[u + 1]] },
   legal : LegalKinds]
=============================================================================
