------------------------------ MODULE DeckCards ------------------------------
(***************************************************************************)
(* deck-service: the rows of decks and cards, and the card_count a deck     *)
(* keeps of its cards.                                                      *)
(*                                                                         *)
(* Handlers run concurrently.  One that changes a deck is a read of the     *)
(* row, which only refuses, an UPDATE ... RETURNING, and the publication of *)
(* what it returned; as Pub/Sub may deliver as late as it likes, the        *)
(* publication is one step with the statement before it.  The statements    *)
(* that create or delete a card and those that count it are steps of their  *)
(* own: they share no transaction, and the error of a count is dropped.     *)
(* access_level is left out (it decides who else may read; an owner may     *)
(* always clone), so are names, settings, notes and positions.              *)
(***************************************************************************)
EXTENDS DeckEvents, Integers, FiniteSets

CONSTANTS
  Deletes,     \* DeleteCard requests that run at once
  Clones,      \* CloneDeck requests that run at once
  NoDeck, NoCard,
  MaxOps,      \* bound on the requests that are made
  MaxFaults    \* bound on dropped errors and requests that end early

ASSUME ModelValuesAssumption == NoDeck \notin Decks /\ NoCard \notin Cards
ASSUME FiniteAssumption == IsFiniteSet(Cards) /\ IsFiniteSet(Deletes)
ASSUME BoundsAssumption == MaxOps \in Nat /\ MaxFaults \in Nat

VARIABLES
  deck,       \* decks: status, is_public and card_count of each
  home,       \* cards.deck_id, kept when the row is gone
  live,       \* the cards that have a row
  create,     \* the step a card's creation is at
  counting,   \* decks whose BulkCreateCards has stored all it will
  delete,     \* the DeleteCard requests
  clone,      \* the CloneDeck requests: the source row they have read
  wasPublic,  \* decks that have been public at some time
  disturbed,  \* decks one of whose counts went wrong, in a way listed below
  ops, faults

deckVars == <<deck, home, live, create, counting, delete, clone, wasPublic,
              disturbed, ops, faults>>
-----------------------------------------------------------------------------
Status == {"active", "hidden", "deleted"}
DeckRow == [status : Status \cup {"none"}, public : BOOLEAN, count : Nat]
NoRow == [status |-> "none", public |-> FALSE, count |-> 0]

CreateStep == {"free", "count", "bulk", "done"}
NoDelete == [at |-> "idle", card |-> NoCard]
NoClone == [from |-> NoDeck, count |-> 0]

Exists(d) == deck[d].status # "none"
CardsOf(d) == {c \in live : home[c] = d}

DeckTypeOK ==
  /\ deck \in [Decks -> DeckRow]
  /\ home \in [Cards -> Decks \cup {NoDeck}]
  /\ live \subseteq Cards
  /\ create \in [Cards -> CreateStep]
  /\ counting \subseteq Decks
  /\ delete \in [Deletes -> [at : {"idle", "delete", "decrement"},
                             card : Cards \cup {NoCard}]]
  /\ clone \in [Clones -> [from : Decks \cup {NoDeck}, count : Nat]]
  /\ wasPublic \subseteq Decks
  /\ disturbed \subseteq Decks
  /\ ops \in Nat /\ faults \in Nat

DeckInit ==
  /\ deck = [d \in Decks |-> NoRow]
  /\ home = [c \in Cards |-> NoDeck]
  /\ live = {}
  /\ create = [c \in Cards |-> "free"]
  /\ counting = {}
  /\ delete = [r \in Deletes |-> NoDelete]
  /\ clone = [r \in Clones |-> NoClone]
  /\ wasPublic = {}
  /\ disturbed = {}
  /\ ops = 0 /\ faults = 0

Operation == ops < MaxOps /\ ops' = ops + 1
Fault == faults < MaxFaults /\ faults' = faults + 1
-----------------------------------------------------------------------------
\* The deck's row after an UPDATE, and what it publishes.
cardVars == <<home, live, create, counting, delete, clone, disturbed>>

Write(d, row) ==
  /\ deck' = [deck EXCEPT ![d] = row]
  /\ wasPublic' = IF row.public THEN wasPublic \cup {d} ELSE wasPublic

Updated(d, row) ==
  /\ Write(d, row)
  /\ Publish({[kind |-> "deck.updated", deck |-> d, public |-> row.public]})

CreateDeck(d, public) ==
  /\ ~Exists(d) /\ Operation
  /\ Write(d, [status |-> "active", public |-> public, count |-> 0])
  /\ Publish({[kind |-> "deck.created", deck |-> d, public |-> public]})
  /\ UNCHANGED <<cardVars, faults>>

\* UpdateDeck (name, description): no check of the status, so a deleted deck
\* is updated and published like any other.
UpdateDeck(d) ==
  /\ Exists(d) /\ Operation
  /\ Updated(d, deck[d])
  /\ UNCHANGED <<cardVars, faults>>

UpdateVisibility(d, public) ==
  /\ Exists(d) /\ Operation
  /\ Updated(d, [deck[d] EXCEPT !.public = public])
  /\ UNCHANGED <<cardVars, faults>>

\* 'private' hides the deck, 'plus' makes it public, 'free' leaves it.
UpdateAccessLevel(d, level) ==
  /\ Exists(d) /\ Operation
  /\ Updated(d, [deck[d] EXCEPT !.public = (level = "plus" \/ (level = "free" /\ deck[d].public))])
  /\ UNCHANGED <<cardVars, faults>>

\* The admin's verdict on a Plus deck: only an approval makes it public.
AdminReviewDeckPlus(d, approved) ==
  /\ Exists(d) /\ Operation
  /\ Updated(d, [deck[d] EXCEPT !.public = approved \/ deck[d].public])
  /\ UNCHANGED <<cardVars, faults>>

\* The admin's status goes out as a deck.updated, which does not carry it.
AdminUpdateDeckStatus(d, status) ==
  /\ Exists(d) /\ Operation
  /\ Updated(d, [deck[d] EXCEPT !.status = status])
  /\ UNCHANGED <<cardVars, faults>>

\* SoftDeleteDeck: the row stays, and so do its cards and is_public.
DeleteDeck(d) ==
  /\ Exists(d) /\ Operation
  /\ Write(d, [deck[d] EXCEPT !.status = "deleted"])
  /\ Publish({[kind |-> "deck.deleted", deck |-> d]})
  /\ UNCHANGED <<cardVars, faults>>
-----------------------------------------------------------------------------
\* Counting.  card_count changes in the database, one statement per card.
Card(kind, c) == [kind |-> kind, deck |-> home'[c], card |-> c]

Adjust(d, n) == deck' = [deck EXCEPT ![d].count = n]

\* UPDATE ... card_count + 1, whose error is dropped.
IncrementCardCount(d) ==
  \/ Adjust(d, deck[d].count + 1) /\ UNCHANGED <<disturbed, faults>>
  \/ Fault /\ disturbed' = disturbed \cup {d} /\ UNCHANGED deck

\* Wrong on purpose: no GREATEST.
DecrementCardCountPlain(d) ==
  \/ Adjust(d, deck[d].count - 1) /\ UNCHANGED <<disturbed, faults>>
  \/ Fault /\ disturbed' = disturbed \cup {d} /\ UNCHANGED deck

\* UPDATE ... GREATEST(card_count - 1, 0), whose error is dropped.  At zero the
\* statement runs ahead of the increment of some card, and is lost.
DecrementCardCount(d) ==
  \/ /\ deck[d].count > 0
     /\ Adjust(d, deck[d].count - 1)
     /\ UNCHANGED <<disturbed, faults>>
  \/ /\ deck[d].count = 0
     /\ disturbed' = disturbed \cup {d}
     /\ UNCHANGED <<deck, faults>>
  \/ Fault /\ disturbed' = disturbed \cup {d} /\ UNCHANGED deck

\* INSERT INTO cards: the deck must be there, in any status.
Store(c, d, step) ==
  /\ Exists(d) /\ create[c] = "free"
  /\ home' = [home EXCEPT ![c] = d]
  /\ live' = live \cup {c}
  /\ create' = [create EXCEPT ![c] = step]

CreateCard(c, d) ==
  /\ Operation
  /\ Store(c, d, "count")
  /\ UNCHANGED <<deck, counting, delete, clone, wasPublic, disturbed, faults, sent>>

\* CreateCard goes on: count, then publish.
CountCard(c) ==
  /\ create[c] = "count"
  /\ IncrementCardCount(home[c])
  /\ create' = [create EXCEPT ![c] = "done"]
  /\ UNCHANGED home
  /\ Publish({Card("card.created", c)})
  /\ UNCHANGED <<live, counting, delete, clone, wasPublic, ops>>

\* The request of a single card dies between storing and counting it.
CreateCardDies(c) ==
  /\ create[c] = "count" /\ Fault
  /\ create' = [create EXCEPT ![c] = "done"]
  /\ disturbed' = disturbed \cup {home[c]}
  /\ UNCHANGED <<deck, home, live, counting, delete, clone, wasPublic, ops, sent>>

\* BulkCreateCards stores and publishes card after card ...
BulkStore(c, d) ==
  /\ d \notin counting /\ Operation
  /\ Store(c, d, "bulk")
  /\ Publish({Card("card.created", c)})
  /\ UNCHANGED <<deck, counting, delete, clone, wasPublic, disturbed, faults>>

Bulk(d) == {c \in Cards : create[c] = "bulk" /\ home[c] = d}

\* ... and counts them when all are stored ...
BulkCount(c) ==
  /\ create[c] = "bulk"
  /\ LET d == home[c] IN
     /\ IncrementCardCount(d)
     /\ counting' = IF Bulk(d) = {c} THEN counting \ {d} ELSE counting \cup {d}
  /\ create' = [create EXCEPT ![c] = "done"]
  /\ UNCHANGED <<home, live, delete, clone, wasPublic, ops, sent>>

\* ... but an INSERT that fails, or a crash, ends it with cards not counted.
BulkEndsEarly(d) ==
  /\ Bulk(d) # {} /\ Fault
  /\ create' = [c \in Cards |-> IF c \in Bulk(d) THEN "done" ELSE create[c]]
  /\ counting' = counting \ {d}
  /\ disturbed' = disturbed \cup {d}
  /\ UNCHANGED <<deck, home, live, delete, clone, wasPublic, ops, sent>>

\* UpdateCard changes the note only; the event names the card.
UpdateCard(c) ==
  /\ c \in live /\ Operation
  /\ UNCHANGED home
  /\ Publish({Card("card.updated", c)})
  /\ UNCHANGED <<deck, live, create, counting, delete, clone, wasPublic, disturbed, faults>>
-----------------------------------------------------------------------------
\* DeleteCard reads the card ...
GetCard(r, c) ==
  /\ delete[r] = NoDelete /\ c \in live /\ Operation
  /\ delete' = [delete EXCEPT ![r] = [at |-> "delete", card |-> c]]
  /\ UNCHANGED <<deck, home, live, create, counting, clone, wasPublic, disturbed, faults, sent>>

\* ... deletes it, without looking at how many rows were there: of two
\* requests for one card both go on ...
DeleteCard(r) ==
  /\ delete[r].at = "delete"
  /\ LET c == delete[r].card IN
     /\ live' = live \ {c}
     /\ disturbed' = IF c \in live THEN disturbed ELSE disturbed \cup {home[c]}
     /\ delete' = [delete EXCEPT ![r].at = "decrement"]
  /\ UNCHANGED <<deck, home, create, counting, clone, wasPublic, ops, faults, sent>>

\* ... counts it, and publishes.
UncountCard(r) ==
  /\ delete[r].at = "decrement"
  /\ DecrementCardCount(home[delete[r].card])
  /\ delete' = [delete EXCEPT ![r] = NoDelete]
  /\ UNCHANGED home
  /\ Publish({Card("card.deleted", delete[r].card)})
  /\ UNCHANGED <<live, create, counting, clone, wasPublic, ops>>

\* A request fails or dies: nothing is lost before the DELETE, the count after.
DeleteCardDies(r) ==
  /\ delete[r] # NoDelete /\ Fault
  /\ disturbed' = IF delete[r].at = "delete" THEN disturbed
                  ELSE disturbed \cup {home[delete[r].card]}
  /\ delete' = [delete EXCEPT ![r] = NoDelete]
  /\ UNCHANGED <<deck, home, live, create, counting, clone, wasPublic, ops, sent>>
-----------------------------------------------------------------------------
\* CloneDeck reads the source, and refuses a deleted one ...
GetSource(r, d) ==
  /\ clone[r] = NoClone /\ deck[d].status \in {"active", "hidden"} /\ Operation
  /\ clone' = [clone EXCEPT ![r] = [from |-> d, count |-> deck[d].count]]
  /\ UNCHANGED <<deck, home, live, create, counting, delete, wasPublic, disturbed, faults, sent>>

\* Wrong on purpose: the new deck starts with the count of the row that was read.
CloneCountOfSource(r, copies) == clone[r].count

\* The card_count of the new deck: the number of cards copied.
CloneCount(r, copies) == Cardinality(copies)

\* ... and copies in one transaction: a private deck, and a card for each card
\* the source has now.  Then it publishes the deck and every card.
CloneDeck(r, d, copies) ==
  /\ clone[r] # NoClone /\ ~Exists(d)
  /\ \A c \in copies : create[c] = "free"
  /\ Cardinality(copies) = Cardinality(CardsOf(clone[r].from))
  /\ Write(d, [status |-> "active", public |-> FALSE, count |-> CloneCount(r, copies)])
  /\ home' = [c \in Cards |-> IF c \in copies THEN d ELSE home[c]]
  /\ live' = live \cup copies
  /\ create' = [c \in Cards |-> IF c \in copies THEN "done" ELSE create[c]]
  /\ clone' = [clone EXCEPT ![r] = NoClone]
  /\ Publish({[kind |-> "deck.created", deck |-> d, public |-> FALSE]}
               \cup {Card("card.created", c) : c \in copies})
  /\ UNCHANGED <<counting, delete, disturbed, ops, faults>>

DeckNext ==
  \/ \E d \in Decks :
       \/ \E public \in BOOLEAN : CreateDeck(d, public) \/ UpdateVisibility(d, public)
       \/ UpdateDeck(d)
       \/ \E level \in {"free", "plus", "private"} : UpdateAccessLevel(d, level)
       \/ \E approved \in BOOLEAN : AdminReviewDeckPlus(d, approved)
       \/ \E status \in Status : AdminUpdateDeckStatus(d, status)
       \/ DeleteDeck(d)
       \/ BulkEndsEarly(d)
       \/ \E c \in Cards : CreateCard(c, d) \/ BulkStore(c, d)
       \/ \E r \in Clones : GetSource(r, d) \/ \E copies \in SUBSET Cards : CloneDeck(r, d, copies)
  \/ \E c \in Cards : CountCard(c) \/ CreateCardDies(c) \/ BulkCount(c) \/ UpdateCard(c)
  \/ \E r \in Deletes :
       \/ \E c \in Cards : GetCard(r, c)
       \/ DeleteCard(r) \/ UncountCard(r) \/ DeleteCardDies(r)
-----------------------------------------------------------------------------
\* Cards with a row that some creation has still to count, and decrements that
\* some deletion has still to make.
Owed(d) == {c \in Cards : create[c] \in {"count", "bulk"} /\ home[c] = d}
Due(d) == {r \in Deletes : delete[r].at = "decrement" /\ home[delete[r].card] = d}

\* However creations, bulk creations, deletions and clones interleave, what the
\* deck counts, with what is still to be counted, is the number of its cards.
\* The exceptions are the ones that disturb it: a dropped error, a request that
\* ends between a row and its count, two deletions of one card, and a decrement
\* that overtakes the increment and finds zero.
CountIsExact ==
  \A d \in Decks \ disturbed :
    deck[d].count + Cardinality(Owed(d)) = Cardinality(CardsOf(d)) + Cardinality(Due(d))
=============================================================================
