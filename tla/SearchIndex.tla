----------------------------- MODULE SearchIndex -----------------------------
(***************************************************************************)
(* search-service: the documents of decks and cards it keeps from the       *)
(* events it is pushed, and what a search of decks finds in them.           *)
(*                                                                         *)
(* A handler is one call of Elasticsearch (deck.deleted: two); when the     *)
(* first call fails nothing has changed, the push is answered 500 and the   *)
(* event comes again, which is no step.  card_count, a number shown with    *)
(* the hit, is left out.  Users and folders are documents of their own with *)
(* the same three handlers.                                                 *)
(***************************************************************************)
EXTENDS DeckEvents

CONSTANTS
  Users, Anonymous,   \* callers with an account, and one without
  Owner,              \* the user_id of each deck and of its cards
  NoDocument

ASSUME OwnerAssumption == Owner \in [Decks -> Users] /\ Anonymous \notin Users
ASSUME DocumentAssumption == NoDocument \notin Decks

VARIABLES
  deckDoc,   \* the deck index: status and is_public of each document
  cardDoc,   \* the card index: deck_id of each document
  purging,   \* decks whose document a handler has deleted, their cards not yet
  closed     \* decks that were deleted from the index and not created since

indexVars == <<deckDoc, cardDoc, purging, closed>>
-----------------------------------------------------------------------------
\* "unset": a document that an update has made, which writes no status.
DocStatus == {"none", "active", "unset"}
NoDoc == [status |-> "none", public |-> FALSE]

IndexTypeOK ==
  /\ deckDoc \in [Decks -> [status : DocStatus, public : BOOLEAN]]
  /\ cardDoc \in [Cards -> Decks \cup {NoDocument}]
  /\ purging \subseteq Decks
  /\ closed \subseteq Decks

IndexInit ==
  /\ deckDoc = [d \in Decks |-> NoDoc]
  /\ cardDoc = [c \in Cards |-> NoDocument]
  /\ purging = {}
  /\ closed = {}
-----------------------------------------------------------------------------
\* deck.created writes the whole document, over whatever is there.
IndexDeck(e) ==
  /\ e.kind = "deck.created"
  /\ deckDoc' = [deckDoc EXCEPT ![e.deck] = [status |-> "active", public |-> e.public]]
  /\ closed' = closed \ {e.deck}
  /\ UNCHANGED <<cardDoc, purging>>

\* Wrong on purpose: the update writes the status, too.
UpsertActive(doc, public) == [status |-> "active", public |-> public]

\* updateDoc with doc_as_upsert: a document that is not there is made from the
\* fields of the update, and those have no status.
Upsert(doc, public) ==
  [status |-> IF doc.status = "none" THEN "unset" ELSE doc.status, public |-> public]

UpdateDeckDoc(e) ==
  /\ e.kind = "deck.updated"
  /\ deckDoc' = [deckDoc EXCEPT ![e.deck] = Upsert(@, e.public)]
  /\ UNCHANGED <<cardDoc, purging, closed>>

\* deck.deleted: the deck's document first (404 is no error) ...
DeleteDeckDoc(e) ==
  /\ e.kind = "deck.deleted"
  /\ deckDoc' = [deckDoc EXCEPT ![e.deck] = NoDoc]
  /\ purging' = purging \cup {e.deck}
  /\ closed' = closed \cup {e.deck}
  /\ UNCHANGED cardDoc

\* ... then its cards, by query.  A query sees no document newer than the last
\* refresh, and if it fails that is only logged: some or all may stay.
DeleteCardsByDeck(d) ==
  /\ d \in purging
  /\ \E gone \in SUBSET {c \in Cards : cardDoc[c] = d} :
       cardDoc' = [c \in Cards |-> IF c \in gone THEN NoDocument ELSE cardDoc[c]]
  /\ purging' = purging \ {d}
  /\ UNCHANGED <<deckDoc, closed>>

\* card.created, and card.updated, which is an upsert.
IndexCard(e) ==
  /\ e.kind \in {"card.created", "card.updated"}
  /\ cardDoc' = [cardDoc EXCEPT ![e.card] = e.deck]
  /\ UNCHANGED <<deckDoc, purging, closed>>

DeleteCardDoc(e) ==
  /\ e.kind = "card.deleted"
  /\ cardDoc' = [cardDoc EXCEPT ![e.card] = NoDocument]
  /\ UNCHANGED <<deckDoc, purging, closed>>

Dispatch(e) ==
  IndexDeck(e) \/ UpdateDeckDoc(e) \/ DeleteDeckDoc(e) \/ IndexCard(e) \/ DeleteCardDoc(e)

IndexNext == (\E e \in sent : Dispatch(e)) \/ (\E d \in Decks : DeleteCardsByDeck(d))
-----------------------------------------------------------------------------
Callers == Users \cup {Anonymous}
Scopes == {"MINE", "ALL", "PUBLIC"}

\* buildDeckScopeFilters: what every hit of the caller's scope satisfies.
InScope(d, caller, scope) ==
  /\ deckDoc[d].status = "active"
  /\ CASE scope = "MINE" -> Owner[d] = caller
       [] scope = "ALL" -> deckDoc[d].public \/ Owner[d] = caller
       [] scope = "PUBLIC" -> deckDoc[d].public

\* The decks of the cards whose text may match: a caller's own cards, or
\* anyone's cards for an anonymous caller.
DecksOfMatchingCards(caller) ==
  {d \in Decks : \E c \in Cards : cardDoc[c] = d /\ (caller = Anonymous \/ Owner[d] = caller)}

\* Wrong on purpose: the decks behind matching cards are fetched unfiltered.
ByCardContentUnfiltered(caller, scope) == DecksOfMatchingCards(caller)

\* Phase 2: fetched by id, under the filters of phase 1.
ByCardContent(caller, scope) ==
  {d \in DecksOfMatchingCards(caller) : InScope(d, caller, scope)}

\* What some query of the caller may find.  MINE without a caller finds nothing.
SearchDecks(caller, scope) ==
  IF scope = "MINE" /\ caller = Anonymous THEN {}
  ELSE {d \in Decks : InScope(d, caller, scope)} \cup ByCardContent(caller, scope)
-----------------------------------------------------------------------------
\* Once a deck's deletion has been handled nobody finds it, by its name or by
\* its cards, whatever older updates are delivered afterwards and bring its
\* document back: only a deck.created delivered again does.
DeletedStaysHidden ==
  \A caller \in Callers, scope \in Scopes : SearchDecks(caller, scope) \cap closed = {}
=============================================================================
