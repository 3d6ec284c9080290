-------------------------- MODULE MCSubscriptions --------------------------
(* Constants for model checking Subscriptions: one user who buys twice. *)
EXTENDS Subscriptions, TLC

CONSTANTS u1, o1, o2

MCOwner == [o \in Order |-> u1]
Symmetry == Permutations(Order) \cup Permutations(Proc)

MCDuration == [o \in Order |-> 1]
=============================================================================
