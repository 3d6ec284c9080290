------------------------------ MODULE Catalogue ------------------------------
(***************************************************************************)
(* deck-service and search-service, joined by the events between them.      *)
(***************************************************************************)
EXTENDS DeckCards, SearchIndex

vars == <<deckVars, indexVars, sent>>

TypeOK == DeckTypeOK /\ IndexTypeOK /\ sent \subseteq Event

Init == DeckInit /\ IndexInit /\ sent = {}

Next ==
  \/ DeckNext /\ UNCHANGED indexVars
  \/ IndexNext /\ UNCHANGED <<deckVars, sent>>

Spec == Init /\ [][Next]_vars
-----------------------------------------------------------------------------
\* A deck is found by someone who does not own it only if it has been public:
\* no event, in whatever order, and no matching card shows a deck that never
\* was, a private clone of a public deck least of all.
ShownWasPublic ==
  \A caller \in Callers, scope \in Scopes :
    \A d \in SearchDecks(caller, scope) : Owner[d] = caller \/ d \in wasPublic
=============================================================================
