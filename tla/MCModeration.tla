---------------------------- MODULE MCModeration ----------------------------
(* Constants for model checking Moderation. *)
EXTENDS Moderation, TLC

Symmetry == Permutations(Proc) \cup Permutations(Event) \cup Permutations(Report)
=============================================================================
