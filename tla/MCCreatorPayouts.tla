-------------------------- MODULE MCCreatorPayouts --------------------------
(* Constants for model checking CreatorPayouts: one creator, two months. *)
EXTENDS CreatorPayouts, TLC

CONSTANTS c1, e1, e2

MCMonth == {1, 2}
MCPoolMonth == [e \in Earning |-> IF e = e1 THEN 1 ELSE 2]
MCPayee == [e \in Earning |-> c1]
MCRequester == [w \in Withdrawal |-> c1]

Symmetry == Permutations(Proc) \cup Permutations(Withdrawal) \cup Permutations(Earning)
=============================================================================
