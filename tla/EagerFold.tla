------------------------------ MODULE EagerFold ------------------------------
(***************************************************************************)
(* A left fold over a sequence that hands op the evaluated accumulator.    *)
(* FoldLeft of SequencesExt passes the accumulator to op unevaluated, so   *)
(* an op that reads its accumulator several times (a DP state record, a    *)
(* DP table) re-evaluates the whole fold so far at every read; the loops   *)
(* of try_splits_b and the bushy reference table need this one instead.    *)
(* Each step's value is bound to a variable (a of the set map), so it is  *)
(* evaluated once whatever the evaluation context, including ENABLED, and *)
(* the comparison a = a makes TLC tabulate the functions inside it.        *)
(***************************************************************************)
EXTENDS Sequences

RECURSIVE FoldInOrder(_, _, _)
FoldInOrder(op(_, _), acc, seq) ==
  IF seq = <<>> THEN acc
  ELSE CHOOSE r \in {FoldInOrder(op, a, Tail(seq)) :
                      a \in {a \in {op(acc, Head(seq))} : a = a}} : TRUE
=============================================================================
