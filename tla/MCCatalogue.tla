----------------------------- MODULE MCCatalogue -----------------------------
(* Two decks of two owners, two cards, and requests that overlap. *)
EXTENDS Catalogue, TLC

CONSTANTS d1, d2, u1, u2

MCOwner == (d1 :> u1) @@ (d2 :> u2)

Symmetry == Permutations(Cards) \cup Permutations(Deletes)
=============================================================================
