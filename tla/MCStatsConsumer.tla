-------------------------- MODULE MCStatsConsumer --------------------------
(* One user, one or two decks, and events whose order matters. *)
EXTENDS StatsConsumer, TLC

CONSTANTS u1, d1, d2

Review(n, d, utc, b, a, m) ==
  [kind |-> "card.reviewed", id |-> n, user |-> u1, deck |-> d1, day |-> d, utcDay |-> utc,
   before |-> b, after |-> a, mastered |-> m]
OfDeck(k, n) == [kind |-> k, id |-> n, user |-> u1, deck |-> d1]

\* Three days of reviews: a new card is graduated, mastered and forgotten.
MCEvents ==
  {[kind |-> "user.registered", id |-> 0, user |-> u1],
   OfDeck("deck.created", 1), OfDeck("card.created", 2), OfDeck("deck.deleted", 3),
   Review(4, 1, 1, "new", "learning", FALSE),
   Review(5, 2, 1, "learning", "review", TRUE),
   Review(6, 3, 3, "review", "relearning", FALSE)}

\* A deck of one card is deleted; its owner has a card in another deck, too.
MCDeletion ==
  {[kind |-> "user.registered", id |-> 0, user |-> u1],
   OfDeck("deck.created", 1), OfDeck("card.created", 2), OfDeck("deck.deleted", 3),
   [OfDeck("card.created", 4) EXCEPT !.deck = d2]}

Symmetry == Permutations(Procs)
=============================================================================
