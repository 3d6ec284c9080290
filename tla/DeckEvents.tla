----------------------------- MODULE DeckEvents -----------------------------
(***************************************************************************)
(* The events deck-service publishes and search-service is pushed.  Pub/Sub *)
(* delivers what it has accepted at least once and in any order, so the     *)
(* accepted events are a set that only grows, and handling one does not     *)
(* take it out.  Names, texts and counts are left out; of the deck events   *)
(* is_public stays, of the card events the card and its deck.               *)
(***************************************************************************)
CONSTANTS Decks, Cards

VARIABLE sent    \* the events Pub/Sub has accepted

DeckCreated == [kind : {"deck.created"}, deck : Decks, public : BOOLEAN]
DeckUpdated == [kind : {"deck.updated"}, deck : Decks, public : BOOLEAN]
DeckDeleted == [kind : {"deck.deleted"}, deck : Decks]
CardEvent == [kind : {"card.created", "card.updated", "card.deleted"},
              deck : Decks, card : Cards]
Event == DeckCreated \cup DeckUpdated \cup DeckDeleted \cup CardEvent

\* A publish may fail, which is only logged, or the process die before it: such
\* an event is one of those that are never delivered, as delivery is no duty here.
Publish(events) == sent' = sent \cup events
=============================================================================
