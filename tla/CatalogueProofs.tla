--------------------------- MODULE CatalogueProofs ---------------------------
(***************************************************************************)
(* What decks and the search index keep, for every set of decks and cards.  *)
(***************************************************************************)
EXTENDS Catalogue, FiniteSetTheorems, TLAPS

\* A card is in a deck from the moment its creation leaves "free".
Placed ==
  \A c \in Cards :
    /\ create[c] = "free" <=> home[c] = NoDeck
    /\ c \in live => create[c] # "free"
    /\ home[c] # NoDeck => Exists(home[c])

\* A request that has read its card or its source still has it.
Requests ==
  /\ \A r \in Deletes :
       /\ delete[r].at = "idle" => delete[r] = NoDelete
       /\ delete[r].at # "idle" => delete[r].card \in Cards /\ home[delete[r].card] # NoDeck
  /\ \A r \in Clones : clone[r] # NoClone => clone[r].from \in Decks

\* What the decks, the events and the documents call public has been so.
PublicTruth ==
  /\ \A d \in Decks : deck[d].public => d \in wasPublic
  /\ \A e \in sent :
       e.kind \in {"deck.created", "deck.updated"} /\ e.public => e.deck \in wasPublic
  /\ \A d \in Decks : deckDoc[d].public => d \in wasPublic

\* A deck that was deleted from the index is not active there.
ClosedTruth == \A d \in closed : deckDoc[d].status # "active"

DeckInv == DeckTypeOK /\ Placed /\ Requests

USE ModelValuesAssumption, DocumentAssumption, BoundsAssumption
-----------------------------------------------------------------------------
\* A row stays a row, with its status, when is_public is set.
LEMMA PublicRow ==
  ASSUME NEW row \in DeckRow, NEW b \in BOOLEAN
  PROVE  [row EXCEPT !.public = b] \in DeckRow /\ [row EXCEPT !.public = b].status = row.status
<1>1. row = [status |-> row.status, public |-> row.public, count |-> row.count]
  BY DEF DeckRow
<1>2. [row EXCEPT !.public = b] = [status |-> row.status, public |-> b, count |-> row.count]
  BY <1>1
<1>3. row.status \in Status \cup {"none"} /\ row.count \in Nat
  BY DEF DeckRow
<1> QED BY <1>2, <1>3, Zenon DEF DeckRow

\* Writing a row that exists, with a status, keeps what is known of the decks.
LEMMA UpdatedKeeps ==
  ASSUME DeckInv, sent \subseteq Event, NEW d \in Decks, NEW row \in DeckRow,
         row.status # "none", Updated(d, row) \/ (Write(d, row) /\ sent' = sent),
         ops' \in Nat, UNCHANGED <<cardVars, faults>>
  PROVE  DeckInv' /\ sent' \subseteq Event
  BY DEF DeckInv, DeckTypeOK, Placed, Requests, Updated, Write, Publish, Exists,
     cardVars, Event, DeckUpdated, DeckRow

\* A count that changes, or does not, keeps the types.
LEMMA CountsKeep ==
  ASSUME DeckInv, NEW d \in Decks,
         IncrementCardCount(d) \/ DecrementCardCount(d)
  PROVE  /\ deck' \in [Decks -> DeckRow] /\ disturbed' \subseteq Decks /\ faults' \in Nat
         /\ \A x \in Decks : deck'[x].status = deck[x].status /\ deck'[x].public = deck[x].public
<1> USE DEF DeckInv, DeckTypeOK
<1>1. deck[d] \in DeckRow /\ deck[d].count \in Nat
  BY DEF DeckRow
<1>2. ASSUME NEW n \in Nat, Adjust(d, n)
      PROVE /\ deck' \in [Decks -> DeckRow]
            /\ \A x \in Decks : deck'[x].status = deck[x].status /\ deck'[x].public = deck[x].public
  <2>1. deck' = [deck EXCEPT ![d] = [deck[d] EXCEPT !.count = n]]
    BY <1>2 DEF Adjust
  <2>2. [deck[d] EXCEPT !.count = n] \in DeckRow
    BY <1>1 DEF DeckRow
  <2> QED BY <2>1, <2>2, <1>1 DEF DeckRow
<1>3. CASE \E n \in Nat : Adjust(d, n) /\ UNCHANGED <<disturbed, faults>>
  BY <1>2, <1>3
<1>4. CASE UNCHANGED deck /\ disturbed' = disturbed \cup {d} /\ (Fault \/ UNCHANGED faults)
  BY <1>4 DEF Fault
<1>5. ASSUME IncrementCardCount(d)
      PROVE \/ \E n \in Nat : Adjust(d, n) /\ UNCHANGED <<disturbed, faults>>
            \/ UNCHANGED deck /\ disturbed' = disturbed \cup {d} /\ (Fault \/ UNCHANGED faults)
  BY <1>1, <1>5 DEF IncrementCardCount
<1>6. ASSUME DecrementCardCount(d)
      PROVE \/ \E n \in Nat : Adjust(d, n) /\ UNCHANGED <<disturbed, faults>>
            \/ UNCHANGED deck /\ disturbed' = disturbed \cup {d} /\ (Fault \/ UNCHANGED faults)
  BY <1>1, <1>6 DEF DecrementCardCount
<1> QED BY <1>3, <1>4, <1>5, <1>6

LEMMA DeckStep ==
  ASSUME DeckInv, sent \subseteq Event, DeckNext
  PROVE  DeckInv' /\ sent' \subseteq Event
<1> USE DEF DeckInv
<1>1. ASSUME NEW d \in Decks, NEW public \in BOOLEAN, CreateDeck(d, public)
      PROVE DeckInv' /\ sent' \subseteq Event
  BY <1>1 DEF CreateDeck, Operation, Write, Publish, DeckTypeOK, Placed, Requests, Exists,
     DeckRow, Status, cardVars, Event, DeckCreated
<1>2. ASSUME NEW d \in Decks, NEW public \in BOOLEAN, UpdateVisibility(d, public)
      PROVE DeckInv' /\ sent' \subseteq Event
  <2> DEFINE b == public
             row == [deck[d] EXCEPT !.public = b]
  <2>1. row \in DeckRow /\ row.status = deck[d].status
    <3>1. deck[d] \in DeckRow
      BY DEF DeckTypeOK
    <3>2. b \in BOOLEAN
      OBVIOUS
    <3> QED BY <3>1, <3>2, PublicRow
  <2>2. Updated(d, row) /\ row.status # "none" /\ ops' \in Nat /\ UNCHANGED <<cardVars, faults>>
    BY <2>1, <1>2 DEF UpdateVisibility, Operation, Exists, DeckTypeOK
  <2> QED BY <2>1, <2>2, UpdatedKeeps
<1>3. ASSUME NEW d \in Decks, UpdateDeck(d) PROVE DeckInv' /\ sent' \subseteq Event
  <2>1. deck[d] \in DeckRow
    BY DEF DeckTypeOK
  <2>2. Updated(d, deck[d]) /\ deck[d].status # "none" /\ ops' \in Nat /\ UNCHANGED <<cardVars, faults>>
    BY <1>3 DEF UpdateDeck, Operation, Exists, DeckTypeOK
  <2> QED BY <2>1, <2>2, UpdatedKeeps
<1>4. ASSUME NEW d \in Decks, NEW level \in {"free", "plus", "private"}, UpdateAccessLevel(d, level)
      PROVE DeckInv' /\ sent' \subseteq Event
  <2> DEFINE b == (level = "plus" \/ (level = "free" /\ deck[d].public))
             row == [deck[d] EXCEPT !.public = b]
  <2>1. row \in DeckRow /\ row.status = deck[d].status
    <3>1. deck[d] \in DeckRow
      BY DEF DeckTypeOK
    <3>2. b \in BOOLEAN
      OBVIOUS
    <3> QED BY <3>1, <3>2, PublicRow
  <2>2. Updated(d, row) /\ row.status # "none" /\ ops' \in Nat /\ UNCHANGED <<cardVars, faults>>
    BY <2>1, <1>4 DEF UpdateAccessLevel, Operation, Exists, DeckTypeOK
  <2> QED BY <2>1, <2>2, UpdatedKeeps
<1>5. ASSUME NEW d \in Decks, NEW approved \in BOOLEAN, AdminReviewDeckPlus(d, approved)
      PROVE DeckInv' /\ sent' \subseteq Event
  <2> DEFINE b == approved \/ deck[d].public
             row == [deck[d] EXCEPT !.public = b]
  <2>1. row \in DeckRow /\ row.status = deck[d].status
    <3>1. deck[d] \in DeckRow
      BY DEF DeckTypeOK
    <3>2. b \in BOOLEAN
      OBVIOUS
    <3> QED BY <3>1, <3>2, PublicRow
  <2>2. Updated(d, row) /\ row.status # "none" /\ ops' \in Nat /\ UNCHANGED <<cardVars, faults>>
    BY <2>1, <1>5 DEF AdminReviewDeckPlus, Operation, Exists, DeckTypeOK
  <2> QED BY <2>1, <2>2, UpdatedKeeps
<1>6. ASSUME NEW d \in Decks, NEW status \in Status, AdminUpdateDeckStatus(d, status)
      PROVE DeckInv' /\ sent' \subseteq Event
  <2> DEFINE row == [deck[d] EXCEPT !.status = status]
  <2>1. row \in DeckRow /\ row.status # "none"
    BY DEF DeckTypeOK, DeckRow, Status
  <2>2. Updated(d, row) /\ ops' \in Nat /\ UNCHANGED <<cardVars, faults>>
    BY <1>6 DEF AdminUpdateDeckStatus, Operation, DeckTypeOK
  <2> QED BY <2>1, <2>2, UpdatedKeeps
<1>7. ASSUME NEW d \in Decks, DeleteDeck(d) PROVE DeckInv' /\ sent' \subseteq Event
  BY <1>7 DEF DeleteDeck, Operation, Write, Publish, DeckTypeOK, Placed, Requests, Exists,
     DeckRow, Status, cardVars, Event, DeckDeleted
<1>8. ASSUME NEW d \in Decks, BulkEndsEarly(d) PROVE DeckInv' /\ sent' \subseteq Event
  BY <1>8 DEF BulkEndsEarly, Bulk, Fault, DeckTypeOK, CreateStep, Placed, Requests, Exists
<1>9. ASSUME NEW d \in Decks, NEW c \in Cards, CreateCard(c, d) \/ BulkStore(c, d)
      PROVE DeckInv' /\ sent' \subseteq Event
  <2>1. home' \in [Cards -> Decks \cup {NoDeck}] /\ home'[c] = d
    BY <1>9 DEF CreateCard, BulkStore, Store, DeckTypeOK
  <2> QED BY <2>1, <1>9 DEF CreateCard, BulkStore, Store, Operation, Publish, Card, DeckTypeOK, CreateStep,
        Placed, Requests, Exists, Event, CardEvent
<1>10. ASSUME NEW c \in Cards, CountCard(c) PROVE DeckInv' /\ sent' \subseteq Event
  <2>1. home[c] \in Decks /\ home' = home
    BY <1>10 DEF CountCard, DeckTypeOK, Placed
  <2>2. /\ deck' \in [Decks -> DeckRow] /\ disturbed' \subseteq Decks /\ faults' \in Nat
        /\ \A x \in Decks : deck'[x].status = deck[x].status
    BY <2>1, <1>10, CountsKeep DEF CountCard
  <2> QED BY <2>1, <2>2, <1>10 DEF CountCard, Publish, Card, DeckTypeOK, CreateStep, Placed, Requests,
        Exists, Event, CardEvent
<1>11. ASSUME NEW c \in Cards, CreateCardDies(c) PROVE DeckInv' /\ sent' \subseteq Event
  BY <1>11 DEF CreateCardDies, Fault, DeckTypeOK, CreateStep, Placed, Requests, Exists
<1>12. ASSUME NEW c \in Cards, BulkCount(c) PROVE DeckInv' /\ sent' \subseteq Event
  <2>1. home[c] \in Decks
    BY <1>12 DEF BulkCount, DeckTypeOK, Placed
  <2>2. /\ deck' \in [Decks -> DeckRow] /\ disturbed' \subseteq Decks /\ faults' \in Nat
        /\ \A x \in Decks : deck'[x].status = deck[x].status
    BY <2>1, <1>12, CountsKeep DEF BulkCount
  <2> QED BY <2>1, <2>2, <1>12 DEF BulkCount, DeckTypeOK, CreateStep, Placed, Requests, Exists
<1>13. ASSUME NEW c \in Cards, UpdateCard(c) PROVE DeckInv' /\ sent' \subseteq Event
  BY <1>13 DEF UpdateCard, Operation, Publish, Card, DeckTypeOK, Placed, Requests, Exists, Event, CardEvent
<1>14. ASSUME NEW r \in Deletes, NEW c \in Cards, GetCard(r, c) PROVE DeckInv' /\ sent' \subseteq Event
  BY <1>14 DEF GetCard, Operation, NoDelete, DeckTypeOK, Placed, Requests, Exists
<1>15. ASSUME NEW r \in Deletes, DeleteCard(r) PROVE DeckInv' /\ sent' \subseteq Event
  BY <1>15 DEF DeleteCard, NoDelete, DeckTypeOK, Placed, Requests, Exists
<1>16. ASSUME NEW r \in Deletes, UncountCard(r) PROVE DeckInv' /\ sent' \subseteq Event
  <2> DEFINE c == delete[r].card
  <2>1. c \in Cards /\ home[c] \in Decks /\ home' = home
    BY <1>16 DEF UncountCard, DeckTypeOK, Requests
  <2>2. /\ deck' \in [Decks -> DeckRow] /\ disturbed' \subseteq Decks /\ faults' \in Nat
        /\ \A x \in Decks : deck'[x].status = deck[x].status
    BY <2>1, <1>16, CountsKeep DEF UncountCard
  <2> QED BY <2>1, <2>2, <1>16 DEF UncountCard, Publish, Card, NoDelete, DeckTypeOK, Placed, Requests,
        Exists, Event, CardEvent
<1>17. ASSUME NEW r \in Deletes, DeleteCardDies(r) PROVE DeckInv' /\ sent' \subseteq Event
  BY <1>17 DEF DeleteCardDies, Fault, NoDelete, DeckTypeOK, Placed, Requests, Exists
<1>18. ASSUME NEW r \in Clones, NEW d \in Decks, GetSource(r, d) PROVE DeckInv' /\ sent' \subseteq Event
  BY <1>18 DEF GetSource, Operation, NoClone, DeckTypeOK, DeckRow, Placed, Requests, Exists
<1>19. ASSUME NEW r \in Clones, NEW d \in Decks, NEW copies \in SUBSET Cards, CloneDeck(r, d, copies)
       PROVE DeckInv' /\ sent' \subseteq Event
  <2>1. Cardinality(copies) \in Nat
    BY FS_Subset, FS_CardinalityType, FiniteAssumption
  <2>2. deck' \in [Decks -> DeckRow] /\ \A x \in Decks : Exists(x) => Exists(x)'
    BY <2>1, <1>19 DEF CloneDeck, Write, CloneCount, DeckTypeOK, DeckRow, Status, Exists
  <2>3. Exists(d)'
    BY <1>19 DEF CloneDeck, Write, Exists, DeckTypeOK
  <2>4. home' \in [Cards -> Decks \cup {NoDeck}] /\ \A c \in copies : home'[c] = d
    BY <1>19 DEF CloneDeck, DeckTypeOK
  <2>5. sent' \subseteq Event
    <3>1. [kind |-> "deck.created", deck |-> d, public |-> FALSE] \in Event
      BY DEF Event, DeckCreated
    <3>2. \A c \in copies : Card("card.created", c) \in Event
      BY <2>4 DEF Card, Event, CardEvent
    <3> QED BY <3>1, <3>2, <1>19 DEF CloneDeck, Publish
  <2>6. DeckTypeOK'
    BY <2>2, <2>4, <1>19 DEF CloneDeck, Write, NoClone, DeckTypeOK, CreateStep
  <2>7. Placed'
    BY <2>2, <2>3, <1>19 DEF CloneDeck, Placed, DeckTypeOK
  <2>8. Requests'
    BY <2>4, <1>19 DEF CloneDeck, NoClone, Requests, DeckTypeOK
  <2> QED BY <2>5, <2>6, <2>7, <2>8
<1> QED BY <1>1, <1>2, <1>3, <1>4, <1>5, <1>6, <1>7, <1>8, <1>9, <1>10, <1>11, <1>12, <1>13, <1>14,
       <1>15, <1>16, <1>17, <1>18, <1>19 DEF DeckNext

LEMMA IndexStep ==
  ASSUME IndexTypeOK, sent \subseteq Event, IndexNext
  PROVE  IndexTypeOK'
<1>1. ASSUME NEW e \in sent, Dispatch(e) PROVE IndexTypeOK'
  <2>1. ASSUME IndexDeck(e) PROVE IndexTypeOK'
    <3>1. e.deck \in Decks /\ e.public \in BOOLEAN
      BY <2>1, Zenon DEF IndexDeck, Event, DeckCreated, DeckUpdated, DeckDeleted, CardEvent
    <3> QED BY <3>1, <2>1 DEF IndexDeck, IndexTypeOK, DocStatus
  <2>2. ASSUME UpdateDeckDoc(e) PROVE IndexTypeOK'
    <3>1. e.deck \in Decks /\ e.public \in BOOLEAN
      BY <2>2 DEF UpdateDeckDoc, Event, DeckCreated, DeckUpdated, DeckDeleted, CardEvent
    <3> QED BY <3>1, <2>2 DEF UpdateDeckDoc, Upsert, IndexTypeOK, DocStatus
  <2>3. ASSUME DeleteDeckDoc(e) PROVE IndexTypeOK'
    BY <2>3 DEF DeleteDeckDoc, NoDoc, IndexTypeOK, DocStatus, Event, DeckCreated, DeckUpdated,
       DeckDeleted, CardEvent
  <2>4. ASSUME IndexCard(e) \/ DeleteCardDoc(e) PROVE IndexTypeOK'
    <3>1. e.deck \in Decks /\ e.card \in Cards
      BY <2>4 DEF IndexCard, DeleteCardDoc, Event, DeckCreated, DeckUpdated, DeckDeleted, CardEvent
    <3> QED BY <3>1, <2>4 DEF IndexCard, DeleteCardDoc, IndexTypeOK
  <2> QED BY <1>1, <2>1, <2>2, <2>3, <2>4 DEF Dispatch
<1>2. ASSUME NEW d \in Decks, DeleteCardsByDeck(d) PROVE IndexTypeOK'
  BY <1>2 DEF DeleteCardsByDeck, IndexTypeOK
<1> QED BY <1>1, <1>2 DEF IndexNext

LEMMA Invariance == Spec => [](TypeOK /\ Placed /\ Requests)
<1> DEFINE Inv == TypeOK /\ Placed /\ Requests
<1>1. Init => Inv
  BY DEF Init, DeckInit, IndexInit, TypeOK, DeckTypeOK, IndexTypeOK, DeckRow, NoRow, CreateStep,
     NoDelete, NoClone, NoDoc, DocStatus, Placed, Requests, Exists
<1>2. Inv /\ [Next]_vars => Inv'
  <2> SUFFICES ASSUME Inv, [Next]_vars PROVE Inv'
    OBVIOUS
  <2>1. ASSUME DeckNext, UNCHANGED indexVars PROVE Inv'
    BY <2>1, DeckStep DEF DeckInv, TypeOK, IndexTypeOK, indexVars
  <2>2. ASSUME IndexNext, UNCHANGED <<deckVars, sent>> PROVE Inv'
    BY <2>2, IndexStep DEF TypeOK, DeckTypeOK, Placed, Requests, Exists, deckVars
  <2>3. ASSUME UNCHANGED vars PROVE Inv'
    BY <2>3 DEF vars, deckVars, indexVars, TypeOK, DeckTypeOK, IndexTypeOK, Placed, Requests, Exists
  <2> QED BY <2>1, <2>2, <2>3 DEF Next
<1> QED BY <1>1, <1>2, PTL DEF Spec

\* The tables, the requests under way, the documents and the events keep their
\* types: among others no card_count is ever negative.
THEOREM TypeCorrect == Spec => []TypeOK
  BY Invariance, PTL
-----------------------------------------------------------------------------
LEMMA ClosedStep ==
  ASSUME TypeOK, ClosedTruth, [Next]_vars
  PROVE  ClosedTruth'
<1>1. ASSUME UNCHANGED indexVars PROVE ClosedTruth'
  BY <1>1 DEF indexVars, ClosedTruth
<1>2. ASSUME NEW e \in sent, Dispatch(e) PROVE ClosedTruth'
  <2>1. ASSUME IndexDeck(e) PROVE ClosedTruth'
    BY <2>1 DEF IndexDeck, ClosedTruth, TypeOK, IndexTypeOK
  <2>2. ASSUME UpdateDeckDoc(e) PROVE ClosedTruth'
    BY <2>2 DEF UpdateDeckDoc, Upsert, ClosedTruth, TypeOK, IndexTypeOK
  <2>3. ASSUME DeleteDeckDoc(e) PROVE ClosedTruth'
    BY <2>3 DEF DeleteDeckDoc, NoDoc, ClosedTruth, TypeOK, IndexTypeOK, Event, DeckCreated,
       DeckUpdated, DeckDeleted, CardEvent
  <2>4. ASSUME IndexCard(e) \/ DeleteCardDoc(e) PROVE ClosedTruth'
    BY <2>4 DEF IndexCard, DeleteCardDoc, ClosedTruth
  <2> QED BY <1>2, <2>1, <2>2, <2>3, <2>4 DEF Dispatch
<1>3. ASSUME NEW d \in Decks, DeleteCardsByDeck(d) PROVE ClosedTruth'
  BY <1>3 DEF DeleteCardsByDeck, ClosedTruth
<1> QED BY <1>1, <1>2, <1>3 DEF Next, IndexNext, vars, indexVars

\* After its deletion was handled, no caller finds a deck in any scope, by name
\* or by card, until a deck.created of it is delivered again.
THEOREM DeletedIsHidden == Spec => []DeletedStaysHidden
<1>1. Init => ClosedTruth
  BY DEF Init, IndexInit, ClosedTruth
<1>2. TypeOK /\ ClosedTruth /\ [Next]_vars => ClosedTruth'
  BY ClosedStep
<1>3. TypeOK /\ ClosedTruth => DeletedStaysHidden
  BY DEF TypeOK, IndexTypeOK, ClosedTruth, DeletedStaysHidden, SearchDecks, ByCardContent, InScope
<1> QED BY <1>1, <1>2, <1>3, TypeCorrect, PTL DEF Spec
-----------------------------------------------------------------------------
\* A deck-service step only adds to the decks that were public, and whatever it
\* stores or publishes as public is among them.
LEMMA PublicByDecks ==
  ASSUME DeckInv, sent \subseteq Event, PublicTruth, DeckNext, UNCHANGED indexVars
  PROVE  PublicTruth'
<1> USE DEF DeckInv
<1>1. ASSUME wasPublic' = wasPublic, \A d \in Decks : deck'[d].public = deck[d].public,
             \A e \in sent' \ sent : e.kind \notin {"deck.created", "deck.updated"}
      PROVE PublicTruth'
  BY <1>1 DEF PublicTruth, indexVars
<1>2. ASSUME NEW d \in Decks, NEW row \in DeckRow, Write(d, row),
             \A e \in sent' \ sent :
               e.kind \in {"deck.created", "deck.updated"} /\ e.public => e.deck = d /\ row.public
      PROVE PublicTruth'
  <2>1. wasPublic \subseteq wasPublic' /\ (row.public => d \in wasPublic')
    BY <1>2 DEF Write
  <2>2. \A x \in Decks : deck'[x].public => x \in wasPublic'
    BY <2>1, <1>2 DEF Write, PublicTruth, DeckTypeOK
  <2>3. \A e \in sent' :
          e.kind \in {"deck.created", "deck.updated"} /\ e.public => e.deck \in wasPublic'
    BY <2>1, <1>2 DEF PublicTruth
  <2> QED BY <2>1, <2>2, <2>3 DEF PublicTruth, indexVars
<1>3. ASSUME NEW d \in Decks, NEW row \in DeckRow, Updated(d, row) PROVE PublicTruth'
  BY <1>2, <1>3 DEF Updated, Publish
<1>4. ASSUME NEW d \in Decks, NEW public \in BOOLEAN, CreateDeck(d, public) PROVE PublicTruth'
  <2> DEFINE row == [status |-> "active", public |-> public, count |-> 0]
  <2>1. row \in DeckRow
    BY DEF DeckRow, Status
  <2> QED BY <2>1, <1>2, <1>4 DEF CreateDeck, Publish
<1>5. ASSUME NEW d \in Decks,
             \/ UpdateDeck(d)
             \/ \E public \in BOOLEAN : UpdateVisibility(d, public)
             \/ \E level \in {"free", "plus", "private"} : UpdateAccessLevel(d, level)
             \/ \E approved \in BOOLEAN : AdminReviewDeckPlus(d, approved)
      PROVE PublicTruth'
  <2>1. deck[d] \in DeckRow
    BY DEF DeckTypeOK
  <2>2. \A b \in BOOLEAN : [deck[d] EXCEPT !.public = b] \in DeckRow
    BY <2>1, PublicRow
  <2>3. PICK row \in DeckRow : Updated(d, row)
    <3>1. CASE UpdateDeck(d)
      BY <3>1, <2>1 DEF UpdateDeck
    <3>2. CASE \E public \in BOOLEAN : UpdateVisibility(d, public)
      BY <3>2, <2>2 DEF UpdateVisibility
    <3>3. CASE \E level \in {"free", "plus", "private"} : UpdateAccessLevel(d, level)
      BY <3>3, <2>2, Zenon DEF UpdateAccessLevel
    <3>4. CASE \E approved \in BOOLEAN : AdminReviewDeckPlus(d, approved)
      BY <3>4, <2>2, Zenon DEF AdminReviewDeckPlus
    <3> QED BY <1>5, <3>1, <3>2, <3>3, <3>4
  <2> QED BY <2>3, <1>3
<1>6. ASSUME NEW d \in Decks, NEW status \in Status, AdminUpdateDeckStatus(d, status) PROVE PublicTruth'
  <2>1. [deck[d] EXCEPT !.status = status] \in DeckRow
    BY DEF DeckTypeOK, DeckRow
  <2> QED BY <2>1, <1>3, <1>6 DEF AdminUpdateDeckStatus
<1>7. ASSUME NEW d \in Decks, DeleteDeck(d) PROVE PublicTruth'
  <2>1. [deck[d] EXCEPT !.status = "deleted"] \in DeckRow
    BY DEF DeckTypeOK, DeckRow, Status
  <2> QED BY <2>1, <1>2, <1>7 DEF DeleteDeck, Publish
<1>8. ASSUME NEW r \in Clones, NEW d \in Decks, NEW copies \in SUBSET Cards, CloneDeck(r, d, copies)
      PROVE PublicTruth'
  <2> DEFINE row == [status |-> "active", public |-> FALSE, count |-> CloneCount(r, copies)]
  <2>1. row \in DeckRow
    BY FS_Subset, FS_CardinalityType, FiniteAssumption DEF DeckRow, Status, CloneCount
  <2>2. Write(d, row)
    BY <1>8 DEF CloneDeck
  <2>3. \A e \in sent' \ sent : ~(e.kind \in {"deck.created", "deck.updated"} /\ e.public)
    BY <1>8 DEF CloneDeck, Publish, Card
  <2> QED BY <2>1, <2>2, <2>3, <1>2
<1>9. ASSUME NEW d \in Decks, NEW c \in Cards, CreateCard(c, d) \/ BulkStore(c, d) PROVE PublicTruth'
  BY <1>9, <1>1 DEF CreateCard, BulkStore, Publish, Card
<1>10. ASSUME NEW c \in Cards, CountCard(c) PROVE PublicTruth'
  <2>1. home[c] \in Decks
    BY <1>10 DEF CountCard, DeckTypeOK, Placed
  <2> QED BY <2>1, <1>10, <1>1, CountsKeep DEF CountCard, Publish, Card
<1>11. ASSUME NEW c \in Cards, BulkCount(c) PROVE PublicTruth'
  <2>1. home[c] \in Decks
    BY <1>11 DEF BulkCount, DeckTypeOK, Placed
  <2> QED BY <2>1, <1>11, <1>1, CountsKeep DEF BulkCount
<1>12. ASSUME NEW r \in Deletes, UncountCard(r) PROVE PublicTruth'
  <2>1. home[delete[r].card] \in Decks
    BY <1>12 DEF UncountCard, DeckTypeOK, Requests
  <2> QED BY <2>1, <1>12, <1>1, CountsKeep DEF UncountCard, Publish, Card
<1>13. ASSUME NEW c \in Cards, CreateCardDies(c) \/ UpdateCard(c) PROVE PublicTruth'
  BY <1>13, <1>1 DEF CreateCardDies, UpdateCard, Publish, Card
<1>14. ASSUME NEW r \in Deletes, DeleteCard(r) \/ DeleteCardDies(r) \/ (\E c \in Cards : GetCard(r, c))
       PROVE PublicTruth'
  BY <1>14, <1>1 DEF DeleteCard, DeleteCardDies, GetCard
<1>15. ASSUME NEW d \in Decks, BulkEndsEarly(d) \/ (\E r \in Clones : GetSource(r, d)) PROVE PublicTruth'
  BY <1>15, <1>1 DEF BulkEndsEarly, GetSource
<1> QED BY <1>4, <1>5, <1>6, <1>7, <1>8, <1>9, <1>10, <1>11, <1>12, <1>13, <1>14, <1>15 DEF DeckNext

LEMMA PublicByIndex ==
  ASSUME TypeOK, PublicTruth, IndexNext, UNCHANGED <<deckVars, sent>>
  PROVE  PublicTruth'
<1> USE DEF PublicTruth, deckVars
<1>1. ASSUME NEW e \in sent, Dispatch(e) PROVE PublicTruth'
  <2>1. ASSUME IndexDeck(e) \/ UpdateDeckDoc(e) PROVE PublicTruth'
    <3>1. /\ e.public => e.deck \in wasPublic
          /\ \A d \in Decks : deckDoc'[d].public = deckDoc[d].public \/ (d = e.deck /\ deckDoc'[d].public = e.public)
      BY <2>1 DEF IndexDeck, UpdateDeckDoc, Upsert, TypeOK, IndexTypeOK
    <3> QED BY <3>1
  <2>2. ASSUME DeleteDeckDoc(e) PROVE PublicTruth'
    BY <2>2 DEF DeleteDeckDoc, NoDoc, TypeOK, IndexTypeOK
  <2>3. ASSUME IndexCard(e) \/ DeleteCardDoc(e) PROVE PublicTruth'
    BY <2>3 DEF IndexCard, DeleteCardDoc
  <2> QED BY <1>1, <2>1, <2>2, <2>3 DEF Dispatch
<1>2. ASSUME NEW d \in Decks, DeleteCardsByDeck(d) PROVE PublicTruth'
  BY <1>2 DEF DeleteCardsByDeck
<1> QED BY <1>1, <1>2 DEF IndexNext

\* Nobody but its owner finds a deck that has never been public.
THEOREM FoundWasPublic == Spec => []ShownWasPublic
<1> DEFINE Known == TypeOK /\ Placed /\ Requests
<1>1. Init => PublicTruth
  BY DEF Init, DeckInit, IndexInit, NoRow, NoDoc, PublicTruth
<1>2. Known /\ PublicTruth /\ [Next]_vars => PublicTruth'
  <2> SUFFICES ASSUME Known, PublicTruth, [Next]_vars PROVE PublicTruth'
    OBVIOUS
  <2>1. ASSUME DeckNext, UNCHANGED indexVars PROVE PublicTruth'
    BY <2>1, PublicByDecks DEF DeckInv, TypeOK
  <2>2. ASSUME IndexNext, UNCHANGED <<deckVars, sent>> PROVE PublicTruth'
    BY <2>2, PublicByIndex
  <2>3. ASSUME UNCHANGED vars PROVE PublicTruth'
    BY <2>3 DEF vars, deckVars, indexVars, PublicTruth
  <2> QED BY <2>1, <2>2, <2>3 DEF Next
<1>3. PublicTruth => ShownWasPublic
  <2> SUFFICES ASSUME PublicTruth, NEW caller \in Callers, NEW scope \in Scopes,
                      NEW d \in SearchDecks(caller, scope)
               PROVE  Owner[d] = caller \/ d \in wasPublic
    BY DEF ShownWasPublic
  <2>1. d \in Decks /\ InScope(d, caller, scope)
    BY DEF SearchDecks, ByCardContent, DecksOfMatchingCards
  <2>2. Owner[d] = caller \/ deckDoc[d].public
    BY <2>1 DEF InScope, Scopes
  <2> QED BY <2>1, <2>2 DEF PublicTruth
<1> QED BY <1>1, <1>2, <1>3, Invariance, PTL DEF Spec
-----------------------------------------------------------------------------
\* The equation that CountIsExact states for every deck not disturbed.
Exact(d) ==
  deck[d].count + Cardinality(Owed(d)) = Cardinality(CardsOf(d)) + Cardinality(Due(d))

\* One element more, one element less.
LEMMA OneMore ==
  ASSUME NEW S, IsFiniteSet(S), NEW x, x \notin S
  PROVE  Cardinality(S \cup {x}) = Cardinality(S) + 1 /\ Cardinality(S) \in Nat
  BY FS_AddElement, FS_CardinalityType

LEMMA OneLess ==
  ASSUME NEW S, IsFiniteSet(S), NEW x, x \in S
  PROVE  Cardinality(S) = Cardinality(S \ {x}) + 1 /\ Cardinality(S \ {x}) \in Nat
<1>1. IsFiniteSet(S \ {x}) /\ (S \ {x}) \cup {x} = S
  BY FS_Subset
<1> QED BY <1>1, OneMore

LEMMA CountsAreFinite ==
  ASSUME NEW d
  PROVE  /\ IsFiniteSet(Owed(d)) /\ IsFiniteSet(Due(d))
         /\ Cardinality(Owed(d)) \in Nat /\ Cardinality(Due(d)) \in Nat
<1>1. Owed(d) \subseteq Cards /\ Due(d) \subseteq Deletes
  BY DEF Owed, Due
<1> QED BY <1>1, FS_Subset, FS_CardinalityType, FiniteAssumption

LEMMA CardsAreFinite ==
  ASSUME DeckTypeOK, NEW d
  PROVE  IsFiniteSet(CardsOf(d)) /\ Cardinality(CardsOf(d)) \in Nat
<1>1. CardsOf(d) \subseteq Cards
  BY DEF CardsOf, DeckTypeOK
<1> QED BY <1>1, FS_Subset, FS_CardinalityType, FiniteAssumption

\* A deck that none of the four quantities moves for.
LEMMA Untouched ==
  ASSUME NEW d \in Decks, Exact(d), deck'[d].count = deck[d].count,
         Owed(d)' = Owed(d), CardsOf(d)' = CardsOf(d), Due(d)' = Due(d)
  PROVE  Exact(d)'
  BY DEF Exact

LEMMA ExactStep ==
  ASSUME DeckInv, CountIsExact, DeckNext
  PROVE  CountIsExact'
<1> USE DEF DeckInv
<1> SUFFICES ASSUME NEW x \in Decks, x \notin disturbed' PROVE Exact(x)'
  BY DEF CountIsExact, Exact
<1>0. x \notin disturbed => Exact(x)
  BY DEF CountIsExact, Exact
<1>1. deck[x] \in DeckRow /\ deck[x].count \in Nat
  BY DEF DeckTypeOK, DeckRow
<1>2. ASSUME x \notin disturbed, deck'[x].count = deck[x].count, UNCHANGED <<home, live, create, delete>>
      PROVE Exact(x)'
  BY <1>0, <1>2, Untouched DEF Owed, CardsOf, Due
<1>3. ASSUME NEW d \in Decks,
             \/ UpdateDeck(d) \/ DeleteDeck(d)
             \/ \E public \in BOOLEAN : UpdateVisibility(d, public)
             \/ \E level \in {"free", "plus", "private"} : UpdateAccessLevel(d, level)
             \/ \E approved \in BOOLEAN : AdminReviewDeckPlus(d, approved)
             \/ \E status \in Status : AdminUpdateDeckStatus(d, status)
      PROVE Exact(x)'
  <2>1. disturbed' = disturbed /\ UNCHANGED <<home, live, create, delete>>
    BY <1>3 DEF UpdateDeck, DeleteDeck, UpdateVisibility, UpdateAccessLevel, AdminReviewDeckPlus,
       AdminUpdateDeckStatus, cardVars
  <2>2. deck'[x].count = deck[x].count
    <3>1. ASSUME NEW row, Write(d, row), row.count = deck[d].count PROVE deck'[x].count = deck[x].count
      BY <3>1 DEF Write, DeckTypeOK
    <3>2. \A b : [deck[d] EXCEPT !.public = b].count = deck[d].count
      BY DEF DeckTypeOK, DeckRow
    <3>3. \A s : [deck[d] EXCEPT !.status = s].count = deck[d].count
      BY DEF DeckTypeOK, DeckRow
    <3>4. \E row : Write(d, row) /\ row.count = deck[d].count
      BY <1>3, <3>2, <3>3, Zenon DEF UpdateDeck, DeleteDeck, UpdateVisibility, UpdateAccessLevel,
         AdminReviewDeckPlus, AdminUpdateDeckStatus, Updated
    <3> QED BY <3>1, <3>4
  <2> QED BY <2>1, <2>2, <1>2
<1>4. ASSUME NEW d \in Decks, NEW public \in BOOLEAN, CreateDeck(d, public) PROVE Exact(x)'
  <2>1. disturbed' = disturbed /\ UNCHANGED <<home, live, create, delete>>
    BY <1>4 DEF CreateDeck, cardVars
  <2>2. CASE x # d
    BY <2>1, <2>2, <1>2, <1>4 DEF CreateDeck, Write, DeckTypeOK
  <2>3. CASE x = d
    <3>1. Owed(x)' = {} /\ CardsOf(x)' = {} /\ Due(x)' = {}
      BY <2>1, <2>3, <1>4 DEF CreateDeck, Owed, CardsOf, Due, Placed, Requests, Exists, DeckTypeOK
    <3>2. deck'[x].count = 0
      BY <2>3, <1>4 DEF CreateDeck, Write, DeckTypeOK
    <3> QED BY <3>1, <3>2, FS_EmptySet DEF Exact
  <2> QED BY <2>2, <2>3
<1>5. ASSUME NEW d \in Decks, NEW c \in Cards, CreateCard(c, d) \/ BulkStore(c, d) PROVE Exact(x)'
  <2>1. /\ home' = [home EXCEPT ![c] = d] /\ live' = live \cup {c} /\ create[c] = "free"
        /\ \E step \in {"count", "bulk"} : create' = [create EXCEPT ![c] = step]
        /\ UNCHANGED <<deck, delete, disturbed>>
    BY <1>5 DEF CreateCard, BulkStore, Store
  <2>2. home[c] = NoDeck /\ c \notin live
    BY <2>1 DEF Placed
  <2>3. Due(x)' = Due(x)
    BY <2>1, <2>2 DEF Due, Requests, DeckTypeOK
  <2>4. CASE x # d
    <3>1. Owed(x)' = Owed(x) /\ CardsOf(x)' = CardsOf(x)
      BY <2>1, <2>2, <2>4 DEF Owed, CardsOf, DeckTypeOK
    <3> QED BY <3>1, <2>1, <2>3, <1>0, Untouched
  <2>5. CASE x = d
    <3>1. Owed(x)' = Owed(x) \cup {c} /\ CardsOf(x)' = CardsOf(x) \cup {c}
      BY <2>1, <2>2, <2>5 DEF Owed, CardsOf, DeckTypeOK
    <3>2. c \notin Owed(x) /\ c \notin CardsOf(x)
      BY <2>1, <2>2 DEF Owed, CardsOf
    <3>3. /\ Cardinality(Owed(x)') = Cardinality(Owed(x)) + 1
          /\ Cardinality(CardsOf(x)') = Cardinality(CardsOf(x)) + 1
      BY <3>1, <3>2, OneMore, CountsAreFinite, CardsAreFinite
    <3> QED BY <3>3, <2>1, <2>3, <1>0, <1>1, CountsAreFinite, CardsAreFinite DEF Exact
  <2> QED BY <2>4, <2>5
<1>6. ASSUME NEW c \in Cards, CountCard(c) \/ BulkCount(c) PROVE Exact(x)'
  <2> DEFINE d == home[c]
  <2>1. /\ d \in Decks /\ create[c] \in {"count", "bulk"}
        /\ create' = [create EXCEPT ![c] = "done"] /\ UNCHANGED <<home, live, delete>>
        /\ IncrementCardCount(d)
    BY <1>6 DEF CountCard, BulkCount, DeckTypeOK, Placed
  <2>2. CardsOf(x)' = CardsOf(x) /\ Due(x)' = Due(x)
    BY <2>1 DEF CardsOf, Due
  <2>3. CASE x # d
    <3>1. Owed(x)' = Owed(x)
      BY <2>1, <2>3 DEF Owed, DeckTypeOK
    <3>2. deck'[x].count = deck[x].count /\ x \notin disturbed
      BY <2>1, <2>3 DEF IncrementCardCount, Adjust, DeckTypeOK
    <3> QED BY <3>1, <3>2, <2>2, <1>0, Untouched
  <2>4. CASE x = d
    <3>1. Owed(x)' = Owed(x) \ {c} /\ c \in Owed(x)
      BY <2>1, <2>4 DEF Owed, DeckTypeOK
    <3>2. deck'[x].count = deck[x].count + 1 /\ x \notin disturbed
      BY <2>1, <2>4, <1>1 DEF IncrementCardCount, Adjust, DeckTypeOK, DeckRow
    <3> QED BY <3>1, <3>2, <2>2, <1>0, <1>1, OneLess, CountsAreFinite, CardsAreFinite DEF Exact
  <2> QED BY <2>3, <2>4
<1>7. ASSUME NEW r \in Deletes, DeleteCard(r) PROVE Exact(x)'
  <2> DEFINE c == delete[r].card
  <2>1. /\ c \in Cards /\ home[c] \in Decks /\ delete[r].at = "delete"
        /\ delete' = [delete EXCEPT ![r].at = "decrement"] /\ live' = live \ {c}
        /\ UNCHANGED <<deck, home, create>>
    BY <1>7 DEF DeleteCard, DeckTypeOK, Requests
  <2>2. Owed(x)' = Owed(x) /\ x \notin disturbed
    BY <2>1, <1>7 DEF Owed, DeleteCard
  <2>3. CASE x # home[c]
    <3>1. CardsOf(x)' = CardsOf(x) /\ Due(x)' = Due(x)
      BY <2>1, <2>3 DEF CardsOf, Due, DeckTypeOK
    <3> QED BY <3>1, <2>1, <2>2, <1>0, Untouched
  <2>4. CASE x = home[c]
    <3>1. CardsOf(x)' = CardsOf(x) \ {c} /\ Due(x)' = Due(x) \cup {r} /\ r \notin Due(x)
      BY <2>1, <2>4 DEF CardsOf, Due, DeckTypeOK
    <3>2. c \in CardsOf(x)
      BY <2>1, <2>4, <1>7 DEF DeleteCard, CardsOf
    <3>3. /\ Cardinality(CardsOf(x)) = Cardinality(CardsOf(x)') + 1
          /\ Cardinality(CardsOf(x)') \in Nat
      BY <3>1, <3>2, OneLess, CardsAreFinite
    <3>4. Cardinality(Due(x)') = Cardinality(Due(x)) + 1
      BY <3>1, OneMore, CountsAreFinite
    <3> QED BY <3>3, <3>4, <2>1, <2>2, <1>0, <1>1, CountsAreFinite DEF Exact
  <2> QED BY <2>3, <2>4
<1>8. ASSUME NEW r \in Deletes, UncountCard(r) PROVE Exact(x)'
  <2> DEFINE d == home[delete[r].card]
  <2>1. /\ d \in Decks /\ delete[r].at = "decrement" /\ delete' = [delete EXCEPT ![r] = NoDelete]
        /\ DecrementCardCount(d) /\ UNCHANGED <<home, live, create>>
    BY <1>8 DEF UncountCard, DeckTypeOK, Requests
  <2>2. Owed(x)' = Owed(x) /\ CardsOf(x)' = CardsOf(x)
    BY <2>1 DEF Owed, CardsOf
  <2>3. CASE x # d
    <3>1. Due(x)' = Due(x)
      BY <2>1, <2>3 DEF Due, NoDelete, DeckTypeOK
    <3>2. deck'[x].count = deck[x].count /\ x \notin disturbed
      BY <2>1, <2>3 DEF DecrementCardCount, Adjust, DeckTypeOK
    <3> QED BY <3>1, <3>2, <2>2, <1>0, Untouched
  <2>4. CASE x = d
    <3>1. Due(x)' = Due(x) \ {r} /\ r \in Due(x)
      BY <2>1, <2>4 DEF Due, NoDelete, DeckTypeOK
    <3>2. deck'[x].count = deck[x].count - 1 /\ x \notin disturbed
      BY <2>1, <2>4, <1>1 DEF DecrementCardCount, Adjust, DeckTypeOK, DeckRow
    <3>3. Cardinality(Due(x)) = Cardinality(Due(x)') + 1 /\ Cardinality(Due(x)') \in Nat
      BY <3>1, OneLess, CountsAreFinite
    <3> QED BY <3>2, <3>3, <2>2, <1>0, <1>1, CountsAreFinite, CardsAreFinite DEF Exact
  <2> QED BY <2>3, <2>4
<1>9. ASSUME NEW r \in Clones, NEW d \in Decks, NEW copies \in SUBSET Cards, CloneDeck(r, d, copies)
      PROVE Exact(x)'
  <2>1. /\ ~Exists(d) /\ \A c \in copies : create[c] = "free" /\ home[c] = NoDeck
        /\ home' = [c \in Cards |-> IF c \in copies THEN d ELSE home[c]] /\ live' = live \cup copies
        /\ create' = [c \in Cards |-> IF c \in copies THEN "done" ELSE create[c]]
        /\ UNCHANGED <<delete, disturbed>>
    BY <1>9 DEF CloneDeck, Placed
  <2>2. \A c \in Cards : home[c] # d
    BY <2>1 DEF Placed, DeckTypeOK
  <2>3. CASE x # d
    <3>1. Owed(x)' = Owed(x) /\ CardsOf(x)' = CardsOf(x)
      BY <2>1, <2>3 DEF Owed, CardsOf, DeckTypeOK
    <3>2. Due(x)' = Due(x)
      BY <2>1, <2>3 DEF Due, Requests, DeckTypeOK
    <3>3. deck'[x].count = deck[x].count
      BY <2>3, <1>9 DEF CloneDeck, Write, DeckTypeOK
    <3> QED BY <3>1, <3>2, <3>3, <2>1, <1>0, Untouched
  <2>4. CASE x = d
    <3>1. Owed(x)' = {} /\ CardsOf(x)' = copies
      BY <2>1, <2>2, <2>4 DEF Owed, CardsOf, DeckTypeOK
    <3>2. Due(x)' = {}
      BY <2>1, <2>2, <2>4 DEF Due, Requests, DeckTypeOK
    <3>3. deck'[x].count = Cardinality(copies)
      BY <2>4, <1>9 DEF CloneDeck, Write, CloneCount, DeckTypeOK
    <3>4. Cardinality(copies) \in Nat
      BY FS_Subset, FS_CardinalityType, FiniteAssumption
    <3> QED BY <3>1, <3>2, <3>3, <3>4, FS_EmptySet DEF Exact
  <2> QED BY <2>3, <2>4
<1>10. ASSUME NEW d \in Decks, BulkEndsEarly(d) PROVE Exact(x)'
  <2>1. x # d /\ x \notin disturbed
    BY <1>10 DEF BulkEndsEarly
  <2>2. Owed(x)' = Owed(x) /\ CardsOf(x)' = CardsOf(x) /\ Due(x)' = Due(x)
    BY <2>1, <1>10 DEF BulkEndsEarly, Bulk, Owed, CardsOf, Due, DeckTypeOK
  <2> QED BY <2>1, <2>2, <1>0, <1>10, Untouched DEF BulkEndsEarly
<1>11. ASSUME NEW c \in Cards, CreateCardDies(c) PROVE Exact(x)'
  <2>1. x # home[c] /\ x \notin disturbed
    BY <1>11 DEF CreateCardDies
  <2>2. Owed(x)' = Owed(x) /\ CardsOf(x)' = CardsOf(x) /\ Due(x)' = Due(x)
    BY <2>1, <1>11 DEF CreateCardDies, Owed, CardsOf, Due, DeckTypeOK
  <2> QED BY <2>1, <2>2, <1>0, <1>11, Untouched DEF CreateCardDies
<1>12. ASSUME NEW r \in Deletes, DeleteCardDies(r) PROVE Exact(x)'
  <2>1. x \notin disturbed /\ UNCHANGED <<deck, home, live, create>>
    BY <1>12 DEF DeleteCardDies
  <2>2. Due(x)' = Due(x)
    BY <1>12 DEF DeleteCardDies, Due, NoDelete, DeckTypeOK
  <2> QED BY <2>1, <2>2, <1>0, Untouched DEF Owed, CardsOf
<1>13. ASSUME NEW r \in Deletes, NEW c \in Cards, GetCard(r, c) PROVE Exact(x)'
  <2>1. UNCHANGED <<deck, home, live, create, disturbed>> /\ Due(x)' = Due(x)
    BY <1>13 DEF GetCard, Due, NoDelete, DeckTypeOK
  <2> QED BY <2>1, <1>0, Untouched DEF Owed, CardsOf
<1>14. ASSUME NEW c \in Cards, UpdateCard(c) PROVE Exact(x)'
  BY <1>14, <1>2 DEF UpdateCard
<1>15. ASSUME NEW r \in Clones, NEW d \in Decks, GetSource(r, d) PROVE Exact(x)'
  BY <1>15, <1>2 DEF GetSource
<1> QED BY <1>3, <1>4, <1>5, <1>6, <1>7, <1>8, <1>9, <1>10, <1>11, <1>12, <1>13, <1>14, <1>15 DEF DeckNext

\* card_count is exact, up to what is still being counted, for every deck none of
\* the four accidents has happened to.
THEOREM CountsAreExact == Spec => []CountIsExact
<1> DEFINE Known == TypeOK /\ Placed /\ Requests
<1>1. Init => CountIsExact
  <2> SUFFICES ASSUME Init, NEW d \in Decks PROVE Exact(d)
    BY DEF CountIsExact, Exact
  <2>1. Owed(d) = {} /\ CardsOf(d) = {} /\ Due(d) = {}
    BY DEF Init, DeckInit, Owed, CardsOf, Due, NoDelete
  <2> QED BY <2>1, FS_EmptySet DEF Exact, Init, DeckInit, NoRow
<1>2. Known /\ CountIsExact /\ [Next]_vars => CountIsExact'
  <2> SUFFICES ASSUME Known, CountIsExact, [Next]_vars PROVE CountIsExact'
    OBVIOUS
  <2>1. CASE DeckNext
    BY <2>1, ExactStep DEF DeckInv, TypeOK
  <2>2. CASE UNCHANGED deckVars
    BY <2>2 DEF deckVars, CountIsExact, Owed, CardsOf, Due
  <2> QED BY <2>1, <2>2 DEF Next, vars
<1> QED BY <1>1, <1>2, Invariance, PTL DEF Spec
=============================================================================
