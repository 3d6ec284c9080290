--------------------------- MODULE MCStudySession ---------------------------
(* Constants for model checking StudySession. *)
EXTENDS StudySession, TLC

Symmetry == Permutations(Proc) \cup Permutations(Card) \cup Permutations(Session)
=============================================================================
