--------------------------- MODULE StatsConsumer ---------------------------
(***************************************************************************)
(* stats-service: the counters it keeps from the events it is pushed.      *)
(*                                                                         *)
(* Pub/Sub pushes every event at least once, in any order and to several   *)
(* handlers at a time; the consumer has no record of what it has applied.  *)
(* A handler is a sequence of statements without a transaction: the errors *)
(* of some are logged and passed over, any other ends the handler with a   *)
(* 5xx, and so does a crash; only the final 204 acknowledges the event.    *)
(* Names (deck.updated, usernames) and durations are left out, a snapshot  *)
(* and a bucket of the activity histogram are a row and a count.           *)
(***************************************************************************)
EXTENDS Integers, FiniteSets

CONSTANTS
  Users, Decks,
  Days,           \* calendar days, numbered
  Events,         \* the events that are published, in no order
  Procs,          \* handlers that run at once
  MaxDeliveries,  \* bound on pushes, of all events together
  MaxFaults       \* bound on failed statements and crashes

CardState == {"new", "learning", "relearning", "review"}

\* The fields of the events that the handlers read.  day is the review's day
\* in the user's timezone, utcDay in UTC; mastered is stability_after >= 21.
UserRegistered == [kind : {"user.registered"}, id : Nat, user : Users]
DeckEvent == [kind : {"deck.created", "deck.deleted", "card.created"},
              id : Nat, user : Users, deck : Decks]
CardReviewed == [kind : {"card.reviewed"}, id : Nat, user : Users, deck : Decks,
                 day : Days, utcDay : Days, before : CardState,
                 after : CardState, mastered : BOOLEAN]

ASSUME DaysAssumption == Days \subseteq Nat \ {0}
ASSUME EventsAssumption ==
  Events \subseteq UserRegistered \cup DeckEvent \cup CardReviewed
\* A deck's events carry its owner; reviews may be anyone's.
ASSUME OwnerAssumption ==
  \A e, f \in Events :
    {e.kind, f.kind} \subseteq {"deck.created", "deck.deleted", "card.created"}
      /\ e.deck = f.deck => e.user = f.user
ASSUME ProcsAssumption == IsFiniteSet(Procs)
ASSUME BoundsAssumption == MaxDeliveries \in Nat /\ MaxFaults \in Nat

VARIABLES
  userStats,   \* user_stats: the row of each user, or NoRow
  daily,       \* daily_stats.reviews_count of each user and UTC day
  activity,    \* reviews in each user's activity histogram
  deckStats,   \* deck_stats: the row of each deck, or NoRow
  snapshots,   \* deck_progress_snapshots: keys of the rows
  at,          \* the statement each handler executes next
  ev,          \* the event it handles
  seen,        \* what its last SELECT returned, until it is used
  deliveries,  \* the pushes so far: each event's are numbered from 0
  acked,       \* events answered with 204 at least once
  subtracted,  \* times a deck's deletion lowered its user's total of cards
  faults       \* failed statements and crashes so far

tables == <<userStats, daily, activity, deckStats, snapshots>>
queue == <<deliveries, acked>>
vars == <<tables, at, ev, seen, queue, subtracted, faults>>
-----------------------------------------------------------------------------
NoRow == [row |-> "none"]
NoDay == 0
NoEvent == [kind |-> "none"]

UserRow == [cards : Nat, reviews : Nat, streak : Nat, longest : Nat,
            last : Days \cup {NoDay}]
DeckRow == [total : Nat, new : Nat, learning : Nat, review : Nat, mastered : Nat]

NewUserRow == [cards |-> 0, reviews |-> 0, streak |-> 0, longest |-> 0, last |-> NoDay]
NewDeckRow == [total |-> 0, new |-> 0, learning |-> 0, review |-> 0, mastered |-> 0]

NothingSeen == [cards |-> 0, streak |-> 0, last |-> NoDay]
Seen == [cards : Nat, streak : Nat, last : Days \cup {NoDay}]

\* The handlers' statements, named for what they call; "ack" is the answer.
ReviewStatement == {"ensure", "incReview", "getStreak", "updateStreak", "bump",
                    "daily", "shift", "getDeck", "snapshot"}
DeckStatement == {"createDeck", "incDeck", "incUser", "getTotal", "decrement",
                  "delSnapshots", "delDeck"}
Statement == ReviewStatement \cup DeckStatement \cup {"createUser", "ack"}

Positive(n) == IF n > 0 THEN n ELSE 0      \* GREATEST(0, n)
Greatest(m, n) == IF m > n THEN m ELSE n

\* UPDATE ... WHERE key = k: of no effect where there is no row.
Update(table, k, row) == [table EXCEPT ![k] = IF table[k] = NoRow THEN NoRow ELSE row]

TypeOK ==
  /\ userStats \in [Users -> UserRow \cup {NoRow}]
  /\ daily \in [Users \X Days -> Nat]
  /\ activity \in [Users -> Nat]
  /\ deckStats \in [Decks -> DeckRow \cup {NoRow}]
  /\ snapshots \subseteq Decks \X Users \X Days
  /\ at \in [Procs -> Statement \cup {"idle"}]
  /\ ev \in [Procs -> Events \cup {NoEvent}]
  /\ seen \in [Procs -> Seen]
  /\ deliveries \subseteq [event : Events, no : Nat] /\ IsFiniteSet(deliveries)
  /\ acked \subseteq Events /\ IsFiniteSet(acked)
  /\ subtracted \in [Decks -> Nat]
  /\ faults \in Nat

Init ==
  /\ userStats = [u \in Users |-> NoRow]
  /\ daily = [k \in Users \X Days |-> 0]
  /\ activity = [u \in Users |-> 0]
  /\ deckStats = [d \in Decks |-> NoRow]
  /\ snapshots = {}
  /\ at = [p \in Procs |-> "idle"]
  /\ ev = [p \in Procs |-> NoEvent]
  /\ seen = [p \in Procs |-> NothingSeen]
  /\ deliveries = {}
  /\ acked = {}
  /\ subtracted = [d \in Decks |-> 0]
  /\ faults = 0
-----------------------------------------------------------------------------
\* Control: the handler goes on, or ends with an error.
Goto(p, s) == at' = [at EXCEPT ![p] = s] /\ UNCHANGED <<ev, queue, faults>>

End(p) == /\ at' = [at EXCEPT ![p] = "idle"]
          /\ ev' = [ev EXCEPT ![p] = NoEvent]
          /\ seen' = [seen EXCEPT ![p] = NothingSeen]

\* The statement a handler of such an event starts with.
FirstStatement(kind) ==
  CASE kind = "user.registered" -> "createUser"
    [] kind = "deck.created" -> "createDeck"
    [] kind = "deck.deleted" -> "getTotal"
    [] kind = "card.created" -> "incDeck"
    [] kind = "card.reviewed" -> "ensure"

\* How often the events of a set were pushed.
DeliveriesOf(S) == Cardinality({d \in deliveries : d.event \in S})

\* Pub/Sub pushes an event: for the first time, because no 204 came back, or
\* although one did, and while another handler may still be at it.
Dispatch(p, e) ==
  /\ at[p] = "idle"
  /\ Cardinality(deliveries) < MaxDeliveries
  /\ at' = [at EXCEPT ![p] = FirstStatement(e.kind)]
  /\ ev' = [ev EXCEPT ![p] = e]
  /\ deliveries' = deliveries \cup {[event |-> e, no |-> DeliveriesOf({e})]}
  /\ UNCHANGED <<tables, seen, acked, subtracted, faults>>

\* The handler returned nil: 204.
Acknowledge(p) ==
  /\ at[p] = "ack"
  /\ acked' = acked \cup {ev[p]}
  /\ End(p)
  /\ UNCHANGED <<tables, deliveries, subtracted, faults>>

\* A statement whose error the handler returns fails, the answer to Pub/Sub is
\* lost, or the process dies: the event is not acknowledged.
Die(p) ==
  /\ at[p] # "idle" /\ faults < MaxFaults
  /\ End(p)
  /\ faults' = faults + 1
  /\ UNCHANGED <<tables, queue, subtracted>>

\* Wrong on purpose: a failed UpsertDailyStats is only logged, too.
LoggedDaily == [ensure |-> "incReview", getStreak |-> "bump", updateStreak |-> "bump",
                bump |-> "daily", daily |-> "shift", shift |-> "getDeck",
                getDeck |-> "ack", snapshot |-> "ack"]

\* Where a handler goes on when the error of a statement is only logged.
Logged == [ensure |-> "incReview", getStreak |-> "bump", updateStreak |-> "bump",
           bump |-> "daily", shift |-> "getDeck", getDeck |-> "ack", snapshot |-> "ack"]

StatementFails(p) ==
  /\ at[p] \in DOMAIN Logged /\ faults < MaxFaults
  /\ at' = [at EXCEPT ![p] = Logged[@]]
  /\ faults' = faults + 1
  /\ UNCHANGED <<tables, ev, seen, queue, subtracted>>
-----------------------------------------------------------------------------
\* user.registered.  The INSERT returns its row, so a user who has one is an
\* error (sql.ErrNoRows), the event is refused, and will be pushed again.
CreateUserStats(p) ==
  /\ at[p] = "createUser"
  /\ LET u == ev[p].user IN
     \/ /\ userStats[u] = NoRow
        /\ userStats' = [userStats EXCEPT ![u] = NewUserRow]
        /\ Goto(p, "ack")
        /\ UNCHANGED seen
     \/ /\ userStats[u] # NoRow
        /\ End(p)
        /\ UNCHANGED <<userStats, queue, faults>>
  /\ UNCHANGED <<daily, activity, deckStats, snapshots, subtracted>>

\* deck.created: ON CONFLICT DO NOTHING, without RETURNING.
CreateDeckStats(p) ==
  /\ at[p] = "createDeck"
  /\ deckStats' = [deckStats EXCEPT ![ev[p].deck] = IF @ = NoRow THEN NewDeckRow ELSE @]
  /\ Goto(p, "ack")
  /\ UNCHANGED <<userStats, daily, activity, snapshots, seen, subtracted>>

\* Wrong on purpose: the card is not counted as a new one.
IncrementDeckTotalCardsOnly(p) ==
  /\ at[p] = "incDeck"
  /\ LET d == ev[p].deck
         row == deckStats[d] IN
     deckStats' = Update(deckStats, d, [row EXCEPT !.total = row.total + 1])
  /\ Goto(p, "incUser")
  /\ UNCHANGED <<userStats, daily, activity, snapshots, seen, subtracted>>

\* card.created: two statements, each of no effect where there is no row.
IncrementDeckTotalCards(p) ==
  /\ at[p] = "incDeck"
  /\ LET d == ev[p].deck
         row == deckStats[d] IN
     deckStats' = Update(deckStats, d,
                         [row EXCEPT !.total = row.total + 1, !.new = row.new + 1])
  /\ Goto(p, "incUser")
  /\ UNCHANGED <<userStats, daily, activity, snapshots, seen, subtracted>>

IncrementUserCards(p) ==
  /\ at[p] = "incUser"
  /\ LET u == ev[p].user
         row == userStats[u] IN
     userStats' = Update(userStats, u, [row EXCEPT !.cards = row.cards + 1])
  /\ Goto(p, "ack")
  /\ UNCHANGED <<daily, activity, deckStats, snapshots, seen, subtracted>>

\* deck.deleted: the deck's size is read, taken from the user's total, and
\* only then are the deck's rows deleted.
GetDeckTotal(p) ==
  /\ at[p] = "getTotal"
  /\ LET row == deckStats[ev[p].deck]
         cards == IF row = NoRow THEN 0 ELSE row.total IN
     \/ /\ cards > 0
        /\ seen' = [seen EXCEPT ![p].cards = cards]
        /\ Goto(p, "decrement")
     \/ /\ cards = 0
        /\ Goto(p, "delSnapshots")
        /\ UNCHANGED seen
  /\ UNCHANGED <<tables, subtracted>>

\* Wrong on purpose: without GREATEST(0, ...).
DecrementUserCardsPlain(p) ==
  /\ at[p] = "decrement"
  /\ LET u == ev[p].user
         row == userStats[u] IN
     userStats' = Update(userStats, u, [row EXCEPT !.cards = row.cards - seen[p].cards])
  /\ subtracted' = [subtracted EXCEPT ![ev[p].deck] = IF userStats' # userStats THEN @ + 1 ELSE @]
  /\ Goto(p, "delSnapshots")
  /\ seen' = [seen EXCEPT ![p] = NothingSeen]
  /\ UNCHANGED <<daily, activity, deckStats, snapshots>>

DecrementUserCards(p) ==
  /\ at[p] = "decrement"
  /\ LET u == ev[p].user
         row == userStats[u] IN
     userStats' = Update(userStats, u,
                         [row EXCEPT !.cards = Positive(row.cards - seen[p].cards)])
  /\ subtracted' = [subtracted EXCEPT ![ev[p].deck] = IF userStats' # userStats THEN @ + 1 ELSE @]
  /\ Goto(p, "delSnapshots")
  /\ seen' = [seen EXCEPT ![p] = NothingSeen]
  /\ UNCHANGED <<daily, activity, deckStats, snapshots>>

DeleteDeckProgressSnapshots(p) ==
  /\ at[p] = "delSnapshots"
  /\ snapshots' = {s \in snapshots : s[1] # ev[p].deck \/ s[2] # ev[p].user}
  /\ Goto(p, "delDeck")
  /\ UNCHANGED <<userStats, daily, activity, deckStats, seen, subtracted>>

DeleteDeckStats(p) ==
  /\ at[p] = "delDeck"
  /\ deckStats' = [deckStats EXCEPT ![ev[p].deck] = NoRow]
  /\ Goto(p, "ack")
  /\ UNCHANGED <<userStats, daily, activity, snapshots, seen, subtracted>>
-----------------------------------------------------------------------------
\* card.reviewed, statement by statement.  The first makes sure that the user
\* has a row: an existing one is an error too, but here it is only logged.
EnsureUserStats(p) ==
  /\ at[p] = "ensure"
  /\ userStats' = [userStats EXCEPT ![ev[p].user] = IF @ = NoRow THEN NewUserRow ELSE @]
  /\ Goto(p, "incReview")
  /\ UNCHANGED <<daily, activity, deckStats, snapshots, seen, subtracted>>

IncrementReview(p) ==
  /\ at[p] = "incReview"
  /\ LET u == ev[p].user
         row == userStats[u] IN
     userStats' = Update(userStats, u, [row EXCEPT !.reviews = row.reviews + 1])
  /\ Goto(p, "getStreak")
  /\ UNCHANGED <<daily, activity, deckStats, snapshots, seen, subtracted>>

GetUserStats(p) ==
  /\ at[p] = "getStreak"
  /\ LET row == userStats[ev[p].user] IN
     \/ /\ row # NoRow
        /\ seen' = [seen EXCEPT ![p].streak = row.streak, ![p].last = row.last]
        /\ Goto(p, "updateStreak")
     \/ /\ row = NoRow
        /\ Goto(p, "bump")
        /\ UNCHANGED seen
  /\ UNCHANGED <<tables, subtracted>>

\* Wrong on purpose: any later day continues the streak.
computeStreakGaps(last, today, current) ==
  IF last # NoDay /\ last < today THEN current + 1
  ELSE IF last = today THEN current
  ELSE 1

\* The streak after a review on the day today, computed from what was read.
computeStreak(last, today, current) ==
  IF last = NoDay THEN 1
  ELSE IF last = today THEN current
  ELSE IF last = today - 1 THEN current + 1
  ELSE 1

UpdateStreak(p) ==
  /\ at[p] = "updateStreak"
  /\ LET u == ev[p].user
         row == userStats[u]
         streak == computeStreak(seen[p].last, ev[p].day, seen[p].streak) IN
     userStats' = Update(userStats, u,
       [row EXCEPT !.streak = streak, !.longest = Greatest(row.longest, streak),
                   !.last = ev[p].day])
  /\ Goto(p, "bump")
  /\ seen' = [seen EXCEPT ![p] = NothingSeen]
  /\ UNCHANGED <<daily, activity, deckStats, snapshots, subtracted>>

BumpActivityBucket(p) ==
  /\ at[p] = "bump"
  /\ activity' = [activity EXCEPT ![ev[p].user] = @ + 1]
  /\ Goto(p, "daily")
  /\ UNCHANGED <<userStats, daily, deckStats, snapshots, seen, subtracted>>

UpsertDailyStats(p) ==
  /\ at[p] = "daily"
  /\ daily' = [daily EXCEPT ![<<ev[p].user, ev[p].utcDay>>] = @ + 1]
  /\ Goto(p, "shift")
  /\ UNCHANGED <<userStats, activity, deckStats, snapshots, seen, subtracted>>

\* The column of deck_stats a card in this state is counted in; the state
\* before a review is judged by the stability after it.
Bucket(state, mastered) ==
  CASE state = "new" -> "new"
    [] state \in {"learning", "relearning"} -> "learning"
    [] state = "review" -> IF mastered THEN "mastered" ELSE "review"

\* What the review adds to that column.
computeStateDelta(e, column) ==
  (IF Bucket(e.after, e.mastered) = column THEN 1 ELSE 0)
    - (IF Bucket(e.before, e.mastered) = column THEN 1 ELSE 0)

ShiftDeckCardStates(p) ==
  /\ at[p] = "shift"
  /\ LET d == ev[p].deck
         row == deckStats[d]
         shifted(column) == Positive(row[column] + computeStateDelta(ev[p], column)) IN
     deckStats' = Update(deckStats, d,
       [row EXCEPT !.new = shifted("new"), !.learning = shifted("learning"),
                   !.review = shifted("review"), !.mastered = shifted("mastered")])
  /\ Goto(p, "getDeck")
  /\ UNCHANGED <<userStats, daily, activity, snapshots, seen, subtracted>>

GetDeckStats(p) ==
  /\ at[p] = "getDeck"
  /\ Goto(p, IF deckStats[ev[p].deck] = NoRow THEN "ack" ELSE "snapshot")
  /\ UNCHANGED <<tables, seen, subtracted>>

UpsertDeckProgressSnapshot(p) ==
  /\ at[p] = "snapshot"
  /\ snapshots' = snapshots \cup {<<ev[p].deck, ev[p].user, ev[p].utcDay>>}
  /\ Goto(p, "ack")
  /\ UNCHANGED <<userStats, daily, activity, deckStats, seen, subtracted>>
-----------------------------------------------------------------------------
handleDeckDeleted(p) ==
  \/ GetDeckTotal(p)
  \/ DecrementUserCards(p)
  \/ DeleteDeckProgressSnapshots(p)
  \/ DeleteDeckStats(p)

handleCardReviewed(p) ==
  \/ EnsureUserStats(p)
  \/ IncrementReview(p)
  \/ GetUserStats(p)
  \/ UpdateStreak(p)
  \/ BumpActivityBucket(p)
  \/ UpsertDailyStats(p)
  \/ ShiftDeckCardStates(p)
  \/ GetDeckStats(p)
  \/ UpsertDeckProgressSnapshot(p)

Next ==
  \E p \in Procs :
    \/ \E e \in Events : Dispatch(p, e)
    \/ Acknowledge(p)
    \/ Die(p)
    \/ StatementFails(p)
    \/ CreateUserStats(p)
    \/ CreateDeckStats(p)
    \/ IncrementDeckTotalCards(p)
    \/ IncrementUserCards(p)
    \/ handleDeckDeleted(p)
    \/ handleCardReviewed(p)

Spec == Init /\ [][Next]_vars
-----------------------------------------------------------------------------
Delivered == {d.event : d \in deliveries}
Reviews(u) == {e \in Events : e.kind = "card.reviewed" /\ e.user = u}
ReviewsOn(u, day) == {e \in Reviews(u) : e.utcDay = day}
Deletions(d) == {e \in Events : e.kind = "deck.deleted" /\ e.deck = d}

\* The days from last back that the streak claims were all studied.
Earned(u, streak, last) ==
  \A k \in 0..(streak - 1) :
    \E e \in Delivered : e.kind = "card.reviewed" /\ e.user = u /\ e.day = last - k

\* A streak is never longer than the run of days the user really studied up
\* to the last one: not when reviews arrive out of order or twice, not when
\* two handlers read the same row and overwrite each other's streak
\* (updateStreak reads, computes and writes without a lock).
StreakIsEarned ==
  \A u \in Users : userStats[u] # NoRow => Earned(u, userStats[u].streak, userStats[u].last)

\* The four buckets of a deck hold at least its cards, whatever is missing,
\* repeated or early: a review moves a card between them and GREATEST(0, ...)
\* never lets one that was not counted yet cost another (computeStateDelta,
\* ShiftDeckCardStates).
BucketsCoverCards ==
  \A d \in Decks : deckStats[d] # NoRow =>
    deckStats[d].new + deckStats[d].learning + deckStats[d].review + deckStats[d].mastered
      >= deckStats[d].total

\* The total of a user without a row is none.
ReviewsCounted(u) == IF userStats[u] = NoRow THEN 0 ELSE userStats[u].reviews

\* An acknowledged review is counted: on its day always, in its user's total
\* but for the failed statements, the first of which may have been the one to
\* create the row (handleCardReviewed returns the errors of the two UPDATEs).
\* How much more than the acknowledged is counted, this does not say: a review
\* delivered again is counted again.
AcknowledgedIsCounted ==
  \A u \in Users :
    /\ \A day \in Days : Cardinality(ReviewsOn(u, day) \cap acked) <= daily[<<u, day>>]
    /\ Cardinality(Reviews(u) \cap acked) <= ReviewsCounted(u) + faults

\* The comment on handleDeckDeleted: all operations are idempotent, a
\* redelivered event finds the deck's row gone and skips the decrement.  So a
\* deletion lowers its user's total once, however often it is delivered.
DeletionSubtractsOnce == \A d \in Decks : subtracted[d] <= Cardinality(Deletions(d))
=============================================================================
