------------------------ MODULE StatsConsumerProofs ------------------------
(***************************************************************************)
(* Proofs about StatsConsumer, for all users, decks, events and handlers,  *)
(* and any number of deliveries and failures: types, buckets and streaks,  *)
(* and that what is acknowledged is counted.                               *)
(***************************************************************************)
EXTENDS StatsConsumer, FiniteSetTheorems, TLAPS

\* A handler runs the statements of the kind of event it was given, and that
\* event has been delivered.
HandlesItsEvent ==
  \A p \in Procs :
    /\ at[p] # "idle" => ev[p] \in Events /\ ev[p] \in Delivered
    /\ at[p] \in ReviewStatement => ev[p].kind = "card.reviewed"
    /\ at[p] \in DeckStatement =>
         ev[p].kind \in {"deck.created", "deck.deleted", "card.created"}

LEMMA ReviewFields ==
  ASSUME NEW e \in Events, e.kind = "card.reviewed"
  PROVE  /\ e.user \in Users /\ e.deck \in Decks
         /\ e.day \in Days /\ e.utcDay \in Days
         /\ e.before \in CardState /\ e.after \in CardState
  BY EventsAssumption DEF UserRegistered, DeckEvent, CardReviewed

LEMMA DeckFields ==
  ASSUME NEW e \in Events, e.kind \in {"deck.created", "deck.deleted", "card.created"}
  PROVE  e.user \in Users /\ e.deck \in Decks
  BY EventsAssumption DEF UserRegistered, DeckEvent, CardReviewed

\* What a handler under way may rely on.
LEMMA HandledFields ==
  ASSUME TypeOK, HandlesItsEvent, NEW p \in Procs
  PROVE  /\ at[p] \in ReviewStatement =>
              /\ ev[p] \in Events /\ ev[p].kind = "card.reviewed"
              /\ ev[p].user \in Users /\ ev[p].deck \in Decks
              /\ ev[p].day \in Days /\ ev[p].utcDay \in Days
         /\ at[p] \in DeckStatement =>
              ev[p] \in Events /\ ev[p].user \in Users /\ ev[p].deck \in Decks
  BY ReviewFields, DeckFields DEF HandlesItsEvent, ReviewStatement, DeckStatement

LEMMA EventKind ==
  ASSUME NEW e \in Events
  PROVE  e.kind \in {"user.registered", "deck.created", "deck.deleted",
                     "card.created", "card.reviewed"}
  BY EventsAssumption DEF UserRegistered, DeckEvent, CardReviewed
-----------------------------------------------------------------------------
\* The rows the statements write are rows.
LEMMA RowsWritten ==
  /\ NewUserRow \in UserRow
  /\ NewDeckRow \in DeckRow
  /\ NothingSeen \in Seen
  BY DEF NewUserRow, UserRow, NewDeckRow, DeckRow, NothingSeen, Seen

LEMMA ShiftedRow ==
  ASSUME NEW e, NEW c, NEW n \in Nat
  PROVE  Positive(n + computeStateDelta(e, c)) \in Nat
  <1>1. computeStateDelta(e, c) \in Int
    BY DEF computeStateDelta
  <1> QED BY <1>1 DEF Positive

LEMMA StreakType ==
  ASSUME NEW last, NEW today, NEW current \in Nat
  PROVE  computeStreak(last, today, current) \in Nat
  BY DEF computeStreak

LEMMA UpdateType ==
  ASSUME NEW K, NEW R, NEW T \in [K -> R \cup {NoRow}], NEW k, NEW row,
         k \in K /\ T[k] # NoRow => row \in R
  PROVE  Update(T, k, row) \in [K -> R \cup {NoRow}]
  BY DEF Update
-----------------------------------------------------------------------------
LEMMA DeliveriesAreNumbers ==
  ASSUME TypeOK, NEW E
  PROVE  DeliveriesOf(E) \in Nat
  <1> DEFINE D == {d \in deliveries : d.event \in E}
  <1>1. D \subseteq deliveries /\ IsFiniteSet(deliveries)
    BY DEF TypeOK
  <1> HIDE DEF D
  <1>2. Cardinality(D) \in Nat
    BY <1>1, FS_Subset, FS_CardinalityType
  <1> QED BY <1>2 DEF DeliveriesOf, D

LEMMA TypeStep ==
  ASSUME TypeOK, HandlesItsEvent, [Next]_vars
  PROVE  TypeOK'
<1> USE DEF TypeOK
<1>1. CASE UNCHANGED vars
  BY <1>1 DEF vars, tables, queue
<1>2. ASSUME NEW p \in Procs, NEW e \in Events, Dispatch(p, e) PROVE TypeOK'
  <2>1. FirstStatement(e.kind) \in Statement
    BY EventKind DEF FirstStatement, Statement, ReviewStatement, DeckStatement
  <2>2. deliveries' \subseteq [event : Events, no : Nat] /\ IsFiniteSet(deliveries')
    <3> DEFINE push == [event |-> e, no |-> DeliveriesOf({e})]
    <3>1. push \in [event : Events, no : Nat]
      BY DeliveriesAreNumbers
    <3>2. deliveries' = deliveries \cup {push}
      BY <1>2 DEF Dispatch
    <3>3. IsFiniteSet(deliveries)
      OBVIOUS
    <3> HIDE DEF push, TypeOK
    <3>4. IsFiniteSet(deliveries')
      BY <3>2, <3>3, FS_AddElement
    <3> QED BY <3>1, <3>2, <3>4 DEF TypeOK
  <2> QED BY <1>2, <2>1, <2>2 DEF Dispatch, tables
<1>3. ASSUME NEW p \in Procs, Acknowledge(p) PROVE TypeOK'
  <2>1. ev[p] \in Events
    BY <1>3 DEF HandlesItsEvent, Acknowledge
  <2>2. acked' \subseteq Events /\ IsFiniteSet(acked')
    BY <1>3, <2>1, FS_AddElement DEF Acknowledge
  <2> QED BY <1>3, <2>2, RowsWritten DEF Acknowledge, End, tables
<1>4. ASSUME NEW p \in Procs, Die(p) PROVE TypeOK'
  BY <1>4, RowsWritten DEF Die, End, tables, queue
<1>5. ASSUME NEW p \in Procs, StatementFails(p) PROVE TypeOK'
  <2>1. Logged[at[p]] \in Statement
    BY <1>5 DEF StatementFails, Logged, Statement, ReviewStatement
  <2> QED BY <1>5, <2>1 DEF StatementFails, tables, queue
<1>6. ASSUME NEW p \in Procs, CreateUserStats(p) PROVE TypeOK'
  <2>1. userStats' \in [Users -> UserRow \cup {NoRow}]
    BY <1>6, RowsWritten DEF CreateUserStats
  <2>2. /\ at' \in [Procs -> Statement \cup {"idle"}]
        /\ ev' \in [Procs -> Events \cup {NoEvent}]
        /\ seen' \in [Procs -> Seen]
        /\ UNCHANGED <<queue, faults>>
    BY <1>6, RowsWritten DEF CreateUserStats, Goto, End, Statement
  <2> QED BY <1>6, <2>1, <2>2 DEF CreateUserStats, queue
<1>7. ASSUME NEW p \in Procs, CreateDeckStats(p) PROVE TypeOK'
  <2>1. deckStats' \in [Decks -> DeckRow \cup {NoRow}]
    BY <1>7, RowsWritten DEF CreateDeckStats
  <2> QED BY <1>7, <2>1 DEF CreateDeckStats, Goto, queue, Statement
<1>8. ASSUME NEW p \in Procs, IncrementDeckTotalCards(p) PROVE TypeOK'
  <2>1. deckStats' \in [Decks -> DeckRow \cup {NoRow}]
    <3> DEFINE k == ev[p].deck
               row == deckStats[k]
               new == [row EXCEPT !.total = row.total + 1, !.new = row.new + 1]
    <3>1. deckStats' = Update(deckStats, k, new)
      BY <1>8 DEF IncrementDeckTotalCards
    <3>2. ASSUME k \in Decks, row # NoRow PROVE new \in DeckRow
      <4>1. row \in DeckRow
        BY <3>2
      <4>2. row.total + 1 \in Nat /\ row.new + 1 \in Nat
        BY <4>1 DEF DeckRow
      <4> QED BY <4>1, <4>2 DEF DeckRow
    <3> HIDE DEF new
    <3> QED BY <3>1, <3>2, UpdateType
  <2> QED BY <1>8, <2>1 DEF IncrementDeckTotalCards, Goto, queue, Statement, DeckStatement
<1>9. ASSUME NEW p \in Procs, IncrementUserCards(p) PROVE TypeOK'
  <2>1. userStats' \in [Users -> UserRow \cup {NoRow}]
    <3> DEFINE k == ev[p].user
               row == userStats[k]
               new == [row EXCEPT !.cards = row.cards + 1]
    <3>1. userStats' = Update(userStats, k, new)
      BY <1>9 DEF IncrementUserCards
    <3>2. ASSUME k \in Users, row # NoRow PROVE new \in UserRow
      BY <3>2 DEF UserRow
    <3> HIDE DEF new
    <3> QED BY <3>1, <3>2, UpdateType
  <2> QED BY <1>9, <2>1 DEF IncrementUserCards, Goto, queue, Statement
<1>10. ASSUME NEW p \in Procs, GetDeckTotal(p) PROVE TypeOK'
  <2>1. seen' \in [Procs -> Seen]
    <3>1. ev[p].deck \in Decks
      BY <1>10, HandledFields DEF GetDeckTotal, DeckStatement
    <3> DEFINE row == deckStats[ev[p].deck]
               cards == IF row = NoRow THEN 0 ELSE row.total
    <3>2. cards \in Nat
      BY <3>1 DEF DeckRow
    <3>3. seen' = seen \/ seen' = [seen EXCEPT ![p].cards = cards]
      BY <1>10 DEF GetDeckTotal
    <3> HIDE DEF cards
    <3> QED BY <3>2, <3>3 DEF Seen
  <2> QED BY <1>10, <2>1 DEF GetDeckTotal, Goto, tables, queue, Statement, DeckStatement
<1>11. ASSUME NEW p \in Procs, DecrementUserCards(p) PROVE TypeOK'
  <2>1. \A r \in UserRow : Positive(r.cards - seen[p].cards) \in Nat
    BY DEF Positive, UserRow, Seen
  <2>2. userStats' \in [Users -> UserRow \cup {NoRow}]
    <3> DEFINE k == ev[p].user
               row == userStats[k]
               new == [row EXCEPT !.cards = Positive(row.cards - seen[p].cards)]
    <3>1. userStats' = Update(userStats, k, new)
      BY <1>11 DEF DecrementUserCards
    <3>2. ASSUME k \in Users, row # NoRow PROVE new \in UserRow
      BY <3>2, <2>1 DEF UserRow
    <3> HIDE DEF new
    <3> QED BY <3>1, <3>2, UpdateType
  <2>3. ev[p].deck \in Decks
    BY <1>11, HandledFields DEF DecrementUserCards, DeckStatement
  <2>4. subtracted' \in [Decks -> Nat]
    <3> DEFINE d == ev[p].deck
               more == IF userStats' # userStats THEN subtracted[d] + 1 ELSE subtracted[d]
    <3>1. subtracted' = [subtracted EXCEPT ![d] = more]
      BY <1>11 DEF DecrementUserCards
    <3>2. more \in Nat
      BY <2>3
    <3> HIDE DEF more
    <3> QED BY <3>1, <3>2, <2>3
  <2>5. seen' \in [Procs -> Seen]
    BY <1>11, RowsWritten DEF DecrementUserCards
  <2>6. at' \in [Procs -> Statement \cup {"idle"}]
    BY <1>11 DEF DecrementUserCards, Goto, Statement, DeckStatement
  <2>7. UNCHANGED <<daily, activity, deckStats, snapshots, ev, queue, faults>>
    BY <1>11 DEF DecrementUserCards, Goto
  <2> QED BY <2>2, <2>4, <2>5, <2>6, <2>7 DEF queue
<1>12. ASSUME NEW p \in Procs, DeleteDeckProgressSnapshots(p) PROVE TypeOK'
  BY <1>12 DEF DeleteDeckProgressSnapshots, Goto, queue, Statement, DeckStatement
<1>13. ASSUME NEW p \in Procs, DeleteDeckStats(p) PROVE TypeOK'
  BY <1>13 DEF DeleteDeckStats, Goto, queue, Statement
<1>14. ASSUME NEW p \in Procs, EnsureUserStats(p) PROVE TypeOK'
  <2>1. userStats' \in [Users -> UserRow \cup {NoRow}]
    BY <1>14, RowsWritten DEF EnsureUserStats
  <2> QED BY <1>14, <2>1 DEF EnsureUserStats, Goto, queue, Statement, ReviewStatement
<1>15. ASSUME NEW p \in Procs, IncrementReview(p) PROVE TypeOK'
  <2>1. userStats' \in [Users -> UserRow \cup {NoRow}]
    <3> DEFINE k == ev[p].user
               row == userStats[k]
               new == [row EXCEPT !.reviews = row.reviews + 1]
    <3>1. userStats' = Update(userStats, k, new)
      BY <1>15 DEF IncrementReview
    <3>2. ASSUME k \in Users, row # NoRow PROVE new \in UserRow
      BY <3>2 DEF UserRow
    <3> HIDE DEF new
    <3> QED BY <3>1, <3>2, UpdateType
  <2> QED BY <1>15, <2>1 DEF IncrementReview, Goto, queue, Statement, ReviewStatement
<1>16. ASSUME NEW p \in Procs, GetUserStats(p) PROVE TypeOK'
  <2>1. ev[p].user \in Users
    BY <1>16, HandledFields DEF GetUserStats, ReviewStatement
  <2>2. seen' \in [Procs -> Seen]
    BY <1>16, <2>1 DEF GetUserStats, Seen, UserRow
  <2> QED BY <1>16, <2>2 DEF GetUserStats, Goto, tables, queue, Statement, ReviewStatement
<1>17. ASSUME NEW p \in Procs, UpdateStreak(p) PROVE TypeOK'
  <2>1. ev[p].day \in Days
    BY <1>17, HandledFields DEF UpdateStreak, ReviewStatement
  <2> DEFINE streak == computeStreak(seen[p].last, ev[p].day, seen[p].streak)
  <2>2. streak \in Nat
    BY StreakType DEF Seen
  <2>3. \A r \in UserRow : Greatest(r.longest, streak) \in Nat
    BY <2>2 DEF Greatest, UserRow
  <2> HIDE DEF streak
  <2>4. userStats' \in [Users -> UserRow \cup {NoRow}]
    <3> DEFINE u == ev[p].user
               row == userStats[u]
               new == [row EXCEPT !.streak = streak, !.longest = Greatest(row.longest, streak),
                                  !.last = ev[p].day]
    <3>1. userStats' = Update(userStats, u, new)
      BY <1>17 DEF UpdateStreak, streak
    <3>2. ASSUME u \in Users, userStats[u] # NoRow PROVE new \in UserRow
      BY <3>2, <2>1, <2>2, <2>3 DEF UserRow
    <3> QED BY <3>1, <3>2, UpdateType
  <2> QED BY <1>17, <2>4, RowsWritten DEF UpdateStreak, Goto, queue, Statement, ReviewStatement
<1>18. ASSUME NEW p \in Procs, BumpActivityBucket(p) PROVE TypeOK'
  <2>1. ev[p].user \in Users
    BY <1>18, HandledFields DEF BumpActivityBucket, ReviewStatement
  <2>2. activity' \in [Users -> Nat]
    BY <1>18, <2>1 DEF BumpActivityBucket
  <2> QED BY <1>18, <2>2 DEF BumpActivityBucket, Goto, queue, Statement, ReviewStatement
<1>19. ASSUME NEW p \in Procs, UpsertDailyStats(p) PROVE TypeOK'
  <2> DEFINE k == <<ev[p].user, ev[p].utcDay>>
  <2>1. k \in Users \X Days
    BY <1>19, HandledFields DEF UpsertDailyStats, ReviewStatement
  <2>2. daily' = [daily EXCEPT ![k] = daily[k] + 1]
    BY <1>19 DEF UpsertDailyStats
  <2>3. daily' \in [Users \X Days -> Nat]
    <3> HIDE DEF k
    <3> QED BY <2>1, <2>2
  <2> QED BY <1>19, <2>3 DEF UpsertDailyStats, Goto, queue, Statement, ReviewStatement
<1>20. ASSUME NEW p \in Procs, ShiftDeckCardStates(p) PROVE TypeOK'
  <2>1. ev[p] \in Events /\ ev[p].kind = "card.reviewed"
    BY <1>20, HandledFields DEF ShiftDeckCardStates, ReviewStatement
  <2>2. deckStats' \in [Decks -> DeckRow \cup {NoRow}]
    <3> DEFINE d == ev[p].deck
               row == deckStats[d]
               shifted(column) == Positive(row[column] + computeStateDelta(ev[p], column))
               new == [row EXCEPT !.new = shifted("new"), !.learning = shifted("learning"),
                                  !.review = shifted("review"), !.mastered = shifted("mastered")]
    <3>1. deckStats' = Update(deckStats, d, new)
      BY <1>20 DEF ShiftDeckCardStates
    <3>2. ASSUME d \in Decks, deckStats[d] # NoRow PROVE new \in DeckRow
      <4>1. row \in DeckRow
        BY <3>2
      <4>2. \A c \in {"new", "learning", "review", "mastered"} : shifted(c) \in Nat
        BY <4>1, <2>1, ShiftedRow DEF DeckRow
      <4> HIDE DEF shifted
      <4> QED BY <4>1, <4>2 DEF DeckRow
    <3> QED BY <3>1, <3>2, UpdateType
  <2> QED BY <1>20, <2>2 DEF ShiftDeckCardStates, Goto, queue, Statement, ReviewStatement
<1>21. ASSUME NEW p \in Procs, GetDeckStats(p) PROVE TypeOK'
  BY <1>21 DEF GetDeckStats, Goto, tables, queue, Statement, ReviewStatement
<1>22. ASSUME NEW p \in Procs, UpsertDeckProgressSnapshot(p) PROVE TypeOK'
  <2>1. <<ev[p].deck, ev[p].user, ev[p].utcDay>> \in Decks \X Users \X Days
    BY <1>22, HandledFields DEF UpsertDeckProgressSnapshot, ReviewStatement
  <2> QED BY <1>22, <2>1 DEF UpsertDeckProgressSnapshot, Goto, queue, Statement
<1> QED
  BY <1>1, <1>2, <1>3, <1>4, <1>5, <1>6, <1>7, <1>8, <1>9, <1>10, <1>11, <1>12, <1>13,
     <1>14, <1>15, <1>16, <1>17, <1>18, <1>19, <1>20, <1>21, <1>22
  DEF Next, handleDeckDeleted, handleCardReviewed

-----------------------------------------------------------------------------
LEMMA HandlerStep ==
  ASSUME TypeOK, HandlesItsEvent, [Next]_vars
  PROVE  HandlesItsEvent'
<1> USE DEF TypeOK, HandlesItsEvent
<1>1. CASE UNCHANGED vars
  BY <1>1 DEF vars, queue, Delivered
<1>2. ASSUME NEW p \in Procs, NEW e \in Events, Dispatch(p, e) PROVE HandlesItsEvent'
  <2>1. /\ FirstStatement(e.kind) \in ReviewStatement => e.kind = "card.reviewed"
        /\ FirstStatement(e.kind) \in DeckStatement =>
             e.kind \in {"deck.created", "deck.deleted", "card.created"}
    BY EventKind DEF FirstStatement, ReviewStatement, DeckStatement
  <2>2. \A q \in Procs : q # p => at'[q] = at[q] /\ ev'[q] = ev[q]
    BY <1>2 DEF Dispatch
  <2>3. at'[p] = FirstStatement(e.kind) /\ ev'[p] = e
    BY <1>2 DEF Dispatch
  <2>4. e \in Delivered' /\ Delivered \subseteq Delivered'
    <3> DEFINE push == [event |-> e, no |-> DeliveriesOf({e})]
    <3>1. deliveries' = deliveries \cup {push} /\ push.event = e
      BY <1>2 DEF Dispatch
    <3> HIDE DEF push
    <3> QED BY <3>1 DEF Delivered
  <2>5. ASSUME NEW q \in Procs
        PROVE  /\ at'[q] # "idle" => ev'[q] \in Events /\ ev'[q] \in Delivered'
               /\ at'[q] \in ReviewStatement => ev'[q].kind = "card.reviewed"
               /\ at'[q] \in DeckStatement =>
                    ev'[q].kind \in {"deck.created", "deck.deleted", "card.created"}
    <3>1. CASE q = p
      BY <3>1, <2>1, <2>3, <2>4
    <3>2. CASE q # p
      BY <3>2, <2>2, <2>4
    <3> QED BY <3>1, <3>2
  <2> QED BY <2>5
\* Every other step of a handler ends it or takes it to a statement of the
\* same kind of event.
<1>3. ASSUME NEW p \in Procs,
             /\ UNCHANGED deliveries
             /\ \/ End(p)
                \/ /\ UNCHANGED ev
                   /\ at[p] # "idle"
                   /\ \E s \in Statement :
                        /\ at' = [at EXCEPT ![p] = s]
                        /\ s \in ReviewStatement => at[p] \in ReviewStatement
                        /\ s \in DeckStatement => at[p] \in DeckStatement
      PROVE  HandlesItsEvent'
  <2>0. Delivered' = Delivered
    BY <1>3 DEF Delivered
  <2>1. CASE End(p)
    BY <1>3, <2>0, <2>1 DEF End, ReviewStatement, DeckStatement
  <2>2. CASE ~End(p)
    BY <1>3, <2>0, <2>2 DEF ReviewStatement, DeckStatement
  <2> QED BY <2>1, <2>2
<1>4. ASSUME NEW p \in Procs, Acknowledge(p) \/ Die(p) \/ StatementFails(p)
      PROVE  HandlesItsEvent'
  <2>1. \A s \in DOMAIN Logged :
          s \in ReviewStatement /\ Logged[s] \in Statement /\ Logged[s] \notin DeckStatement
    BY DEF Logged, Statement, ReviewStatement, DeckStatement
  <2>2. CASE Acknowledge(p) \/ Die(p)
    BY <1>3, <2>2 DEF Acknowledge, Die, queue
  <2>3. CASE StatementFails(p)
    BY <1>3, <2>1, <2>3 DEF StatementFails, queue, ReviewStatement
  <2> QED BY <1>4, <2>2, <2>3
<1>5. ASSUME NEW p \in Procs,
             \/ CreateUserStats(p) \/ CreateDeckStats(p)
             \/ IncrementDeckTotalCards(p) \/ IncrementUserCards(p)
             \/ handleDeckDeleted(p)
      PROVE  HandlesItsEvent'
  BY <1>3, <1>5
  DEF CreateUserStats, CreateDeckStats, IncrementDeckTotalCards, IncrementUserCards,
      handleDeckDeleted, GetDeckTotal, DecrementUserCards, DeleteDeckProgressSnapshots,
      DeleteDeckStats, Goto, queue, Statement, ReviewStatement, DeckStatement
<1>6. ASSUME NEW p \in Procs, handleCardReviewed(p) PROVE HandlesItsEvent'
  BY <1>3, <1>6
  DEF handleCardReviewed, EnsureUserStats, IncrementReview, GetUserStats, UpdateStreak,
      BumpActivityBucket, UpsertDailyStats, ShiftDeckCardStates, GetDeckStats,
      UpsertDeckProgressSnapshot, Goto, queue, Statement, ReviewStatement, DeckStatement
<1> QED BY <1>1, <1>2, <1>4, <1>5, <1>6 DEF Next

LEMMA TypedInit == Init => TypeOK /\ HandlesItsEvent
  BY RowsWritten, FS_EmptySet DEF Init, TypeOK, HandlesItsEvent, ReviewStatement, DeckStatement

LEMMA Control == Spec => [](TypeOK /\ HandlesItsEvent)
<1>1. TypeOK /\ HandlesItsEvent /\ [Next]_vars => TypeOK' /\ HandlesItsEvent'
  BY TypeStep, HandlerStep
<1> QED BY TypedInit, <1>1, PTL DEF Spec

\* Every table, counter and handler keeps its type; in particular no count
\* becomes negative.
THEOREM TypeCorrect == Spec => []TypeOK
  BY Control, PTL
-----------------------------------------------------------------------------
\* Only a step of the handler can change a table, and each its own.
LEMMA WhoWritesUsers ==
  ASSUME TypeOK, [Next]_vars, userStats' # userStats
  PROVE  \E p \in Procs :
           \/ CreateUserStats(p) \/ EnsureUserStats(p) \/ IncrementUserCards(p)
           \/ DecrementUserCards(p) \/ IncrementReview(p) \/ UpdateStreak(p)
  BY DEF Next, vars, tables, Dispatch, Acknowledge, Die, StatementFails, CreateDeckStats,
     IncrementDeckTotalCards, handleDeckDeleted, GetDeckTotal, DeleteDeckProgressSnapshots,
     DeleteDeckStats, handleCardReviewed, GetUserStats, BumpActivityBucket,
     UpsertDailyStats, ShiftDeckCardStates, GetDeckStats, UpsertDeckProgressSnapshot

LEMMA WhoWritesDecks ==
  ASSUME TypeOK, [Next]_vars, deckStats' # deckStats
  PROVE  \E p \in Procs :
           \/ CreateDeckStats(p) \/ IncrementDeckTotalCards(p)
           \/ DeleteDeckStats(p) \/ ShiftDeckCardStates(p)
  BY DEF Next, vars, tables, Dispatch, Acknowledge, Die, StatementFails, CreateUserStats,
     IncrementUserCards, handleDeckDeleted, GetDeckTotal, DecrementUserCards,
     DeleteDeckProgressSnapshots, handleCardReviewed, EnsureUserStats, IncrementReview,
     GetUserStats, UpdateStreak, BumpActivityBucket, UpsertDailyStats, GetDeckStats,
     UpsertDeckProgressSnapshot
-----------------------------------------------------------------------------
Total(r) == r.new + r.learning + r.review + r.mastered

\* A review takes at most one card from the buckets and puts one back.
LEMMA DeltaIsBalanced ==
  ASSUME NEW e, e.before \in CardState, e.after \in CardState
  PROVE  /\ \A c \in {"new", "learning", "review", "mastered"} : computeStateDelta(e, c) \in Int
         /\ computeStateDelta(e, "new") + computeStateDelta(e, "learning")
              + computeStateDelta(e, "review") + computeStateDelta(e, "mastered") = 0
  <1>1. \A s \in CardState : Bucket(s, e.mastered) \in {"new", "learning", "review", "mastered"}
    BY DEF Bucket, CardState
  <1> DEFINE a == Bucket(e.after, e.mastered)
             b == Bucket(e.before, e.mastered)
  <1>2. a \in {"new", "learning", "review", "mastered"} /\ b \in {"new", "learning", "review", "mastered"}
    BY <1>1
  <1> HIDE DEF a, b
  <1>3. \A c : computeStateDelta(e, c) = (IF a = c THEN 1 ELSE 0) - (IF b = c THEN 1 ELSE 0)
    BY DEF computeStateDelta, a, b
  <1> QED BY <1>2, <1>3

LEMMA BucketsStep ==
  ASSUME TypeOK, HandlesItsEvent, BucketsCoverCards, [Next]_vars
  PROVE  BucketsCoverCards'
<1>1. CASE deckStats' = deckStats
  BY <1>1 DEF BucketsCoverCards
<1>2. ASSUME NEW p \in Procs, CreateDeckStats(p) PROVE BucketsCoverCards'
  BY <1>2 DEF CreateDeckStats, BucketsCoverCards, NewDeckRow, TypeOK
<1>3. ASSUME NEW p \in Procs, DeleteDeckStats(p) PROVE BucketsCoverCards'
  BY <1>3 DEF DeleteDeckStats, BucketsCoverCards, TypeOK
<1>4. ASSUME NEW p \in Procs, IncrementDeckTotalCards(p) PROVE BucketsCoverCards'
  <2> DEFINE d == ev[p].deck
             row == deckStats[d]
             new == [row EXCEPT !.total = row.total + 1, !.new = row.new + 1]
  <2>1. d \in Decks
    BY <1>4, HandledFields DEF IncrementDeckTotalCards, DeckStatement
  <2>2. deckStats' = Update(deckStats, d, new)
    BY <1>4 DEF IncrementDeckTotalCards
  <2>3. ASSUME row # NoRow PROVE Total(new) >= new.total
    <3>1. row \in DeckRow
      BY <2>1, <2>3 DEF TypeOK
    <3>2. Total(row) >= row.total
      BY <2>1, <2>3 DEF BucketsCoverCards, Total
    <3>3. /\ new.total = row.total + 1 /\ new.new = row.new + 1
          /\ new.learning = row.learning /\ new.review = row.review
          /\ new.mastered = row.mastered
      BY <3>1 DEF DeckRow
    <3> HIDE DEF new, row
    <3> QED BY <3>1, <3>2, <3>3 DEF Total, DeckRow
  <2> HIDE DEF new
  <2> QED BY <2>1, <2>2, <2>3 DEF BucketsCoverCards, Update, Total, TypeOK
<1>5. ASSUME NEW p \in Procs, ShiftDeckCardStates(p) PROVE BucketsCoverCards'
  <2> DEFINE d == ev[p].deck
             e == ev[p]
             row == deckStats[d]
             shifted(column) == Positive(row[column] + computeStateDelta(e, column))
             new == [row EXCEPT !.new = shifted("new"), !.learning = shifted("learning"),
                                !.review = shifted("review"), !.mastered = shifted("mastered")]
  <2>1. d \in Decks /\ e.before \in CardState /\ e.after \in CardState
    BY <1>5, HandledFields, ReviewFields DEF ShiftDeckCardStates, ReviewStatement
  <2>2. deckStats' = Update(deckStats, d, new)
    BY <1>5 DEF ShiftDeckCardStates
  <2>3. ASSUME row # NoRow PROVE Total(new) >= new.total
    <3>1. row \in DeckRow
      BY <2>1, <2>3 DEF TypeOK
    <3>2. Total(row) >= row.total
      BY <2>1, <2>3 DEF BucketsCoverCards, Total
    <3>3. /\ new.total = row.total /\ new.new = shifted("new")
          /\ new.learning = shifted("learning") /\ new.review = shifted("review")
          /\ new.mastered = shifted("mastered")
      <4> HIDE DEF shifted
      <4> QED BY <3>1 DEF DeckRow
    <3> DEFINE delta(c) == computeStateDelta(e, c)
    <3>4. /\ delta("new") \in Int /\ delta("learning") \in Int
          /\ delta("review") \in Int /\ delta("mastered") \in Int
          /\ delta("new") + delta("learning") + delta("review") + delta("mastered") = 0
      BY <2>1, DeltaIsBalanced
    <3>5. /\ shifted("new") = Positive(row.new + delta("new"))
          /\ shifted("learning") = Positive(row.learning + delta("learning"))
          /\ shifted("review") = Positive(row.review + delta("review"))
          /\ shifted("mastered") = Positive(row.mastered + delta("mastered"))
      OBVIOUS
    <3>6. \A i \in Int : Positive(i) \in Nat /\ Positive(i) >= i
      BY DEF Positive
    <3>7. /\ row.new \in Nat /\ row.learning \in Nat /\ row.review \in Nat
          /\ row.mastered \in Nat /\ row.total \in Nat
      BY <3>1 DEF DeckRow
    <3> HIDE DEF new, row, shifted, delta
    <3> QED BY <3>2, <3>3, <3>4, <3>5, <3>6, <3>7 DEF Total
  <2> HIDE DEF new
  <2> QED BY <2>1, <2>2, <2>3 DEF BucketsCoverCards, Update, Total, TypeOK
<1> QED BY <1>1, <1>2, <1>3, <1>4, <1>5, WhoWritesDecks

\* The buckets of a deck hold at least the cards counted in it, whatever is
\* lost, repeated or reordered.
THEOREM BucketsCover == Spec => []BucketsCoverCards
<1>1. Init => BucketsCoverCards
  BY DEF Init, BucketsCoverCards
<1>2. TypeOK /\ HandlesItsEvent /\ BucketsCoverCards /\ [Next]_vars => BucketsCoverCards'
  BY BucketsStep
<1> QED BY <1>1, <1>2, Control, PTL DEF Spec
-----------------------------------------------------------------------------
\* The streak a handler has read and will continue was earned when it read it,
\* and remains so: this is what makes the unlocked update safe.
SeenIsEarned ==
  \A p \in Procs :
    at[p] = "updateStreak" => Earned(ev[p].user, seen[p].streak, seen[p].last)

LEMMA EarnedGrows ==
  ASSUME TypeOK, TypeOK', [Next]_vars,
         NEW CONSTANT u, NEW CONSTANT n, NEW CONSTANT last, Earned(u, n, last)
  PROVE  Earned(u, n, last)'
  <1>1. Delivered \subseteq Delivered'
    <2>1. UNCHANGED deliveries \/ \E p \in Procs, x \in Events : Dispatch(p, x)
      BY DEF Next, vars, queue, Acknowledge, Die, StatementFails,
         CreateUserStats, CreateDeckStats, IncrementDeckTotalCards, IncrementUserCards,
         handleDeckDeleted, GetDeckTotal, DecrementUserCards, DeleteDeckProgressSnapshots,
         DeleteDeckStats, handleCardReviewed, EnsureUserStats, IncrementReview, GetUserStats,
         UpdateStreak, BumpActivityBucket, UpsertDailyStats, ShiftDeckCardStates,
         GetDeckStats, UpsertDeckProgressSnapshot, Goto
    <2>2. deliveries \subseteq deliveries'
      BY <2>1 DEF Dispatch
    <2> QED BY <2>2 DEF Delivered
  <1> QED BY <1>1 DEF Earned

LEMMA EarnedToday ==
  ASSUME NEW u \in Users, NEW e \in Delivered, e.kind = "card.reviewed", e.user = u,
         e.day \in Days, NEW n \in Nat, NEW last \in Days \cup {NoDay}, Earned(u, n, last)
  PROVE  Earned(u, computeStreak(last, e.day, n), e.day)
  <1>0. e.day \in Nat /\ last \in Nat
    <2>1. \A d \in Days : d \in Nat
      BY DaysAssumption
    <2>2. NoDay \in Nat
      BY DEF NoDay
    <2> QED BY <2>1, <2>2
  <1>1. CASE last # NoDay /\ last = e.day
    BY <1>1, <1>0 DEF computeStreak
  <1>2. CASE last # NoDay /\ last = e.day - 1
    <2>1. computeStreak(last, e.day, n) = n + 1
      BY <1>2, <1>0 DEF computeStreak
    <2>2. ASSUME NEW k \in 0..n
          PROVE  \E x \in Delivered : x.kind = "card.reviewed" /\ x.user = u /\ x.day = e.day - k
      <3>1. CASE k = 0
        BY <3>1, <1>0
      <3>2. CASE k # 0
        <4>1. k - 1 \in 0..(n - 1) /\ last - (k - 1) = e.day - k
          BY <3>2, <1>0, <1>2
        <4> QED BY <4>1 DEF Earned
      <3> QED BY <3>1, <3>2
    <2> QED BY <2>1, <2>2 DEF Earned
  <1>3. CASE last = NoDay \/ (last # e.day /\ last # e.day - 1)
    <2>1. computeStreak(last, e.day, n) = 1
      BY <1>3 DEF computeStreak
    <2>2. \A k \in 0..(1 - 1) : e.day = e.day - k
      BY <1>0
    <2> QED BY <2>1, <2>2 DEF Earned
  <1> QED BY <1>1, <1>2, <1>3

LEMMA StreakStep ==
  ASSUME TypeOK, TypeOK', HandlesItsEvent, StreakIsEarned, SeenIsEarned, [Next]_vars
  PROVE  StreakIsEarned'
<1> DEFINE Keeps(v) == /\ userStats'[v].streak = userStats[v].streak
                       /\ userStats'[v].last = userStats[v].last
\* A write that leaves a user's streak alone.
<1>1. ASSUME NEW v \in Users, userStats'[v] # NoRow, userStats[v] # NoRow, Keeps(v)
      PROVE  Earned(v, userStats[v].streak, userStats[v].last)'
  BY <1>1, EarnedGrows DEF StreakIsEarned
<1>2. ASSUME NEW v \in Users, userStats'[v] = NewUserRow
      PROVE  Earned(v, userStats[v].streak, userStats[v].last)'
  BY <1>2 DEF Earned, NewUserRow
<1>3. ASSUME NEW v \in Users, UNCHANGED userStats[v], userStats'[v] # NoRow
      PROVE  Earned(v, userStats[v].streak, userStats[v].last)'
  BY <1>3, <1>1
<1>4. CASE UNCHANGED userStats
  BY <1>4, <1>3 DEF StreakIsEarned
<1>5. ASSUME NEW p \in Procs, CreateUserStats(p) \/ EnsureUserStats(p) PROVE StreakIsEarned'
  <2>1. \A v \in Users : userStats'[v] = userStats[v] \/ userStats'[v] = NewUserRow
    BY <1>5 DEF CreateUserStats, EnsureUserStats, TypeOK
  <2> QED BY <2>1, <1>2, <1>3 DEF StreakIsEarned
<1>6. ASSUME NEW p \in Procs,
             IncrementUserCards(p) \/ DecrementUserCards(p) \/ IncrementReview(p)
      PROVE  StreakIsEarned'
  <2>1. ASSUME NEW u \in Users, NEW new, userStats' = Update(userStats, u, new),
               userStats[u] # NoRow =>
                 new.streak = userStats[u].streak /\ new.last = userStats[u].last
        PROVE  \A v \in Users : userStats'[v] # NoRow => userStats[v] # NoRow /\ Keeps(v)
    BY <2>1 DEF Update, TypeOK
  <2>2. ASSUME IncrementUserCards(p)
        PROVE  \A v \in Users : userStats'[v] # NoRow => userStats[v] # NoRow /\ Keeps(v)
    <3> DEFINE u == ev[p].user
               row == userStats[u]
               new == [row EXCEPT !.cards = row.cards + 1]
    <3>1. u \in Users /\ userStats' = Update(userStats, u, new)
      BY <2>2, HandledFields DEF IncrementUserCards, DeckStatement
    <3>2. row # NoRow => new.streak = row.streak /\ new.last = row.last
      BY <3>1 DEF TypeOK, UserRow
    <3> HIDE DEF new
    <3> QED BY <3>1, <3>2, <2>1
  <2>3. ASSUME DecrementUserCards(p)
        PROVE  \A v \in Users : userStats'[v] # NoRow => userStats[v] # NoRow /\ Keeps(v)
    <3> DEFINE u == ev[p].user
               row == userStats[u]
               new == [row EXCEPT !.cards = Positive(row.cards - seen[p].cards)]
    <3>1. u \in Users /\ userStats' = Update(userStats, u, new)
      BY <2>3, HandledFields DEF DecrementUserCards, DeckStatement
    <3>2. row # NoRow => new.streak = row.streak /\ new.last = row.last
      BY <3>1 DEF TypeOK, UserRow
    <3> HIDE DEF new
    <3> QED BY <3>1, <3>2, <2>1
  <2>4. ASSUME IncrementReview(p)
        PROVE  \A v \in Users : userStats'[v] # NoRow => userStats[v] # NoRow /\ Keeps(v)
    <3> DEFINE u == ev[p].user
               row == userStats[u]
               new == [row EXCEPT !.reviews = row.reviews + 1]
    <3>1. u \in Users /\ userStats' = Update(userStats, u, new)
      BY <2>4, HandledFields DEF IncrementReview, ReviewStatement
    <3>2. row # NoRow => new.streak = row.streak /\ new.last = row.last
      BY <3>1 DEF TypeOK, UserRow
    <3> HIDE DEF new
    <3> QED BY <3>1, <3>2, <2>1
  <2>5. \A v \in Users : userStats'[v] # NoRow => userStats[v] # NoRow /\ Keeps(v)
    BY <1>6, <2>2, <2>3, <2>4
  <2> QED BY <2>5, <1>1 DEF StreakIsEarned
<1>7. ASSUME NEW p \in Procs, UpdateStreak(p) PROVE StreakIsEarned'
  <2> DEFINE u == ev[p].user
             row == userStats[u]
             streak == computeStreak(seen[p].last, ev[p].day, seen[p].streak)
             new == [row EXCEPT !.streak = streak, !.longest = Greatest(row.longest, streak),
                                !.last = ev[p].day]
  <2>1. /\ ev[p] \in Delivered /\ ev[p].kind = "card.reviewed"
        /\ u \in Users /\ ev[p].day \in Days
    BY <1>7, HandledFields DEF UpdateStreak, ReviewStatement, Delivered, HandlesItsEvent
  <2>2. Earned(u, streak, ev[p].day)
    <3>1. /\ seen[p].streak \in Nat /\ seen[p].last \in Days \cup {NoDay}
          /\ Earned(u, seen[p].streak, seen[p].last)
      BY <1>7 DEF UpdateStreak, SeenIsEarned, TypeOK, Seen
    <3> QED BY <2>1, <3>1, EarnedToday
  <2>3. userStats' = Update(userStats, u, new)
    BY <1>7 DEF UpdateStreak
  <2> HIDE DEF streak
  <2>4. ASSUME NEW v \in Users, userStats'[v] # NoRow
        PROVE  Earned(v, userStats[v].streak, userStats[v].last)'
    <3>1. CASE v # u
      <4>1. userStats'[v] = userStats[v]
        BY <2>3, <3>1 DEF Update, TypeOK
      <4> QED BY <2>4, <4>1, <1>3
    <3>2. CASE v = u
      <4>1. row \in UserRow /\ userStats'[u] = new
        BY <2>1, <2>3, <2>4, <3>2 DEF Update, TypeOK
      <4>2. userStats'[u].streak = streak /\ userStats'[u].last = ev[p].day
        BY <4>1 DEF UserRow
      <4> QED BY <2>2, <3>2, <4>2, EarnedGrows
    <3> QED BY <3>1, <3>2
  <2> QED BY <2>4 DEF StreakIsEarned
<1> QED BY <1>4, <1>5, <1>6, <1>7, WhoWritesUsers

LEMMA SeenStep ==
  ASSUME TypeOK, TypeOK', HandlesItsEvent, StreakIsEarned, SeenIsEarned, [Next]_vars
  PROVE  SeenIsEarned'
<1>1. ASSUME NEW q \in Procs, at[q] = "updateStreak", UNCHANGED <<ev[q], seen[q]>>
      PROVE  Earned(ev[q].user, seen[q].streak, seen[q].last)'
  BY <1>1, EarnedGrows DEF SeenIsEarned
<1>2. ASSUME NEW p \in Procs, GetUserStats(p) PROVE SeenIsEarned'
  <2> DEFINE row == userStats[ev[p].user]
  <2>1. \A q \in Procs : q # p => at'[q] = at[q] /\ ev'[q] = ev[q] /\ seen'[q] = seen[q]
    BY <1>2 DEF GetUserStats, Goto, TypeOK
  <2>2. ASSUME at'[p] = "updateStreak" PROVE Earned(ev[p].user, seen[p].streak, seen[p].last)'
    <3>1. /\ row # NoRow /\ ev'[p] = ev[p]
          /\ seen' = [seen EXCEPT ![p].streak = row.streak, ![p].last = row.last]
      BY <1>2, <2>2 DEF GetUserStats, Goto, TypeOK
    <3>2. seen'[p].streak = row.streak /\ seen'[p].last = row.last
      BY <3>1 DEF TypeOK, Seen
    <3>3. Earned(ev[p].user, row.streak, row.last)
      BY <1>2, <3>1, HandledFields DEF StreakIsEarned, GetUserStats, ReviewStatement
    <3> QED BY <3>1, <3>2, <3>3, EarnedGrows
  <2> QED BY <2>1, <2>2, <1>1 DEF SeenIsEarned
\* No other step begins to update a streak, or touches what was read for one.
<1>3. ASSUME ~(\E p \in Procs : GetUserStats(p)),
             NEW q \in Procs, at'[q] = "updateStreak"
      PROVE  at[q] = "updateStreak" /\ UNCHANGED <<ev[q], seen[q]>>
  <2>1. CASE UNCHANGED vars
    BY <1>3, <2>1 DEF vars
  <2>2. ASSUME NEW p \in Procs, NEW s \in Statement \cup {"idle"}, s # "updateStreak",
               at' = [at EXCEPT ![p] = s],
               \A r \in Procs : r # p => UNCHANGED <<ev[r], seen[r]>>
        PROVE  at[q] = "updateStreak" /\ UNCHANGED <<ev[q], seen[q]>>
    BY <1>3, <2>2 DEF TypeOK
  <2>3. ASSUME NEW p \in Procs, NEW e \in Events, Dispatch(p, e)
        PROVE  at[q] = "updateStreak" /\ UNCHANGED <<ev[q], seen[q]>>
    <3>1. FirstStatement(e.kind) \in Statement \ {"updateStreak"}
      BY EventKind DEF FirstStatement, Statement, ReviewStatement, DeckStatement
    <3> QED BY <2>2, <2>3, <3>1 DEF Dispatch, TypeOK
  <2>4. ASSUME NEW p \in Procs, Acknowledge(p) \/ Die(p)
        PROVE  at[q] = "updateStreak" /\ UNCHANGED <<ev[q], seen[q]>>
    BY <2>2, <2>4 DEF Acknowledge, Die, End, TypeOK
  <2>5. ASSUME NEW p \in Procs, StatementFails(p)
        PROVE  at[q] = "updateStreak" /\ UNCHANGED <<ev[q], seen[q]>>
    <3>1. Logged[at[p]] \in Statement \ {"updateStreak"}
      BY <2>5 DEF StatementFails, Logged, Statement, ReviewStatement
    <3> QED BY <2>2, <2>5, <3>1 DEF StatementFails, TypeOK
  <2>6. ASSUME NEW p \in Procs,
               \/ CreateUserStats(p) \/ CreateDeckStats(p)
               \/ IncrementDeckTotalCards(p) \/ IncrementUserCards(p)
               \/ handleDeckDeleted(p)
        PROVE  at[q] = "updateStreak" /\ UNCHANGED <<ev[q], seen[q]>>
    BY <2>2, <2>6
    DEF CreateUserStats, CreateDeckStats, IncrementDeckTotalCards, IncrementUserCards,
        handleDeckDeleted, GetDeckTotal, DecrementUserCards, DeleteDeckProgressSnapshots,
        DeleteDeckStats, Goto, End, Statement, DeckStatement, TypeOK
  <2>7. ASSUME NEW p \in Procs, handleCardReviewed(p)
        PROVE  at[q] = "updateStreak" /\ UNCHANGED <<ev[q], seen[q]>>
    BY <1>3, <2>2, <2>7
    DEF handleCardReviewed, EnsureUserStats, IncrementReview, UpdateStreak,
        BumpActivityBucket, UpsertDailyStats, ShiftDeckCardStates, GetDeckStats,
        UpsertDeckProgressSnapshot, Goto, Statement, ReviewStatement, TypeOK
  <2> QED BY <2>1, <2>3, <2>4, <2>5, <2>6, <2>7 DEF Next
<1> QED BY <1>1, <1>2, <1>3 DEF SeenIsEarned

\* A streak never exceeds the run of days its user has studied, in whatever
\* order, however often and to how many handlers reviews are delivered.
THEOREM StreaksAreEarned == Spec => []StreakIsEarned
<1>1. Init => StreakIsEarned /\ SeenIsEarned
  BY DEF Init, StreakIsEarned, SeenIsEarned
<1>2. TypeOK /\ HandlesItsEvent /\ StreakIsEarned /\ SeenIsEarned /\ [Next]_vars
        => StreakIsEarned' /\ SeenIsEarned'
  BY TypeStep, StreakStep, SeenStep
<1> QED BY <1>1, <1>2, Control, PTL DEF Spec
-----------------------------------------------------------------------------
(***************************************************************************)
(* The counts.  What a handler has brought past the statement that counts  *)
(* it has been counted, and an acknowledged review is past every one.      *)
(***************************************************************************)
\* The events of E that are answered or in the hands of a handler at one of the
\* statements S.
Reached(S, E) == {e \in E : e \in acked \/ \E p \in Procs : at[p] \in S /\ ev[p] = e}

AfterReviewCount == {"getStreak", "updateStreak", "bump", "daily", "shift", "getDeck",
                     "snapshot", "ack"}
AfterDailyCount == {"shift", "getDeck", "snapshot", "ack"}

\* The reviews about to be counted in a row that is not there.
Uncounted(u) ==
  {p \in Procs : userStats[u] = NoRow /\ at[p] = "incReview" /\ ev[p] \in Reviews(u)}

RunsItsKind == \A p \in Procs : at[p] = "createUser" => ev[p].kind = "user.registered"

DailyIsCounted ==
  \A u \in Users, day \in Days :
    Cardinality(Reached(AfterDailyCount, ReviewsOn(u, day))) <= daily[<<u, day>>]

ReviewsAreCounted ==
  \A u \in Users :
    Cardinality(Reached(AfterReviewCount, Reviews(u))) + Cardinality(Uncounted(u))
      <= ReviewsCounted(u) + faults

\* The statement t may follow s in a handler.
Follows(s, t) ==
  \/ s \in {"createUser", "createDeck", "incUser", "delDeck", "getDeck", "snapshot"} /\ t = "ack"
  \/ s = "incDeck" /\ t = "incUser"
  \/ s = "getTotal" /\ t \in {"decrement", "delSnapshots"}
  \/ s = "decrement" /\ t = "delSnapshots"
  \/ s = "delSnapshots" /\ t = "delDeck"
  \/ s = "ensure" /\ t = "incReview"
  \/ s = "incReview" /\ t = "getStreak"
  \/ s = "getStreak" /\ t \in {"updateStreak", "bump"}
  \/ s = "updateStreak" /\ t = "bump"
  \/ s = "bump" /\ t = "daily"
  \/ s = "daily" /\ t = "shift"
  \/ s = "shift" /\ t = "getDeck"
  \/ s = "getDeck" /\ t = "snapshot"

\* What a step is to the queue: a push, the end of a handler, or a statement.
Proceeds(p) == /\ Follows(at[p], at'[p])
               /\ ev'[p] = ev[p] /\ UNCHANGED queue
Ends(p) == /\ at[p] # "idle" /\ at'[p] = "idle"
           /\ UNCHANGED deliveries
           /\ \/ UNCHANGED acked
              \/ at[p] = "ack" /\ acked' = acked \cup {ev[p]}
Others(p) == \A q \in Procs : q # p => at'[q] = at[q] /\ ev'[q] = ev[q]

Step(p) ==
  \/ \E e \in Events : Dispatch(p, e)
  \/ Acknowledge(p) \/ Die(p) \/ StatementFails(p)
  \/ CreateUserStats(p) \/ CreateDeckStats(p) \/ IncrementDeckTotalCards(p)
  \/ IncrementUserCards(p) \/ handleDeckDeleted(p) \/ handleCardReviewed(p)

LEMMA HandlersStep ==
  ASSUME TypeOK, NEW p \in Procs, Step(p)
  PROVE  Others(p) /\ ((\E e \in Events : Dispatch(p, e)) \/ Ends(p) \/ Proceeds(p))
<1>1. /\ at \in [Procs -> Statement \cup {"idle"}]
      /\ ev \in [Procs -> Events \cup {NoEvent}]
  BY DEF TypeOK
<1>2. ASSUME NEW e \in Events, Dispatch(p, e) PROVE Others(p)
  BY <1>1, <1>2 DEF Dispatch, Others
<1>3. ASSUME Acknowledge(p) \/ Die(p) PROVE Others(p) /\ Ends(p)
  BY <1>1, <1>3 DEF Acknowledge, Die, End, Others, Ends, queue
<1>4. ASSUME NEW s, Goto(p, s), Follows(at[p], s) PROVE Others(p) /\ Proceeds(p)
  BY <1>1, <1>4 DEF Goto, Others, Proceeds
<1>5. ASSUME StatementFails(p) PROVE Others(p) /\ Proceeds(p)
  <2>1. Follows(at[p], Logged[at[p]])
    BY <1>5 DEF StatementFails, Logged, Follows
  <2> QED BY <1>1, <1>5, <2>1 DEF StatementFails, Others, Proceeds
<1>6. ASSUME CreateUserStats(p) PROVE Others(p) /\ (Ends(p) \/ Proceeds(p))
  <2>1. CASE Goto(p, "ack")
    BY <1>4, <1>6, <2>1 DEF CreateUserStats, Follows
  <2>2. CASE End(p) /\ UNCHANGED queue
    BY <1>1, <1>6, <2>2 DEF CreateUserStats, End, Others, Ends, queue
  <2> QED BY <1>6, <2>1, <2>2 DEF CreateUserStats
<1>7. ASSUME \/ CreateDeckStats(p) \/ IncrementDeckTotalCards(p) \/ IncrementUserCards(p)
             \/ handleDeckDeleted(p)
      PROVE  Others(p) /\ Proceeds(p)
  BY <1>4, <1>7
  DEF CreateDeckStats, IncrementDeckTotalCards, IncrementUserCards, handleDeckDeleted,
      GetDeckTotal, DecrementUserCards, DeleteDeckProgressSnapshots, DeleteDeckStats, Follows
<1>8. ASSUME handleCardReviewed(p) PROVE Others(p) /\ Proceeds(p)
  BY <1>4, <1>8
  DEF handleCardReviewed, EnsureUserStats, IncrementReview, GetUserStats, UpdateStreak,
      BumpActivityBucket, UpsertDailyStats, ShiftDeckCardStates, GetDeckStats,
      UpsertDeckProgressSnapshot, Follows
<1> QED BY <1>2, <1>3, <1>5, <1>6, <1>7, <1>8 DEF Step

LEMMA QueueStep ==
  ASSUME TypeOK, [Next]_vars
  PROVE  \/ UNCHANGED <<at, ev, queue>>
         \/ \E p \in Procs :
              Others(p) /\ ((\E e \in Events : Dispatch(p, e)) \/ Ends(p) \/ Proceeds(p))
<1>1. CASE UNCHANGED vars
  BY <1>1 DEF vars
<1>2. Next => \E p \in Procs : Step(p)
  BY DEF Next, Step
<1> QED BY <1>1, <1>2, HandlersStep

\* A handler that proceeds has taken the step itself.
LEMMA WhoProceeds ==
  ASSUME TypeOK, [Next]_vars, NEW p \in Procs, at'[p] # at[p]
  PROVE  Step(p)
<1>1. Next
  BY DEF vars
<1>2. PICK q \in Procs : Step(q)
  BY <1>1 DEF Next, Step
<1> QED BY <1>2, HandlersStep DEF Others

\* The statements that are counted, and who executes them.
LEMMA WhoCounts ==
  ASSUME TypeOK, [Next]_vars, NEW p \in Procs, at'[p] # at[p], at'[p] # "idle"
  PROVE  /\ at[p] = "daily" => UpsertDailyStats(p)
         /\ at[p] = "incReview" => IncrementReview(p)
         /\ at[p] = "ensure" => EnsureUserStats(p) \/ StatementFails(p)
<1>1. Step(p)
  BY WhoProceeds
<1>2. ~Acknowledge(p) /\ ~Die(p)
  BY DEF Acknowledge, Die, End, TypeOK
<1>3. at[p] \notin {"idle", "createUser", "createDeck", "incDeck", "incUser"}
        => StatementFails(p) \/ handleDeckDeleted(p) \/ handleCardReviewed(p)
  BY <1>1, <1>2
  DEF Step, Dispatch, CreateUserStats, CreateDeckStats, IncrementDeckTotalCards,
      IncrementUserCards
<1>4. handleDeckDeleted(p) => at[p] \in {"getTotal", "decrement", "delSnapshots", "delDeck"}
  BY DEF handleDeckDeleted, GetDeckTotal, DecrementUserCards, DeleteDeckProgressSnapshots,
         DeleteDeckStats
<1>5. handleCardReviewed(p) /\ at[p] \in {"daily", "incReview", "ensure"}
        => \/ at[p] = "daily" /\ UpsertDailyStats(p)
           \/ at[p] = "incReview" /\ IncrementReview(p)
           \/ at[p] = "ensure" /\ EnsureUserStats(p)
  BY DEF handleCardReviewed, EnsureUserStats, IncrementReview, GetUserStats, UpdateStreak,
         BumpActivityBucket, UpsertDailyStats, ShiftDeckCardStates, GetDeckStats,
         UpsertDeckProgressSnapshot
<1>6. StatementFails(p) => at[p] # "daily" /\ at[p] # "incReview"
  BY DEF StatementFails, Logged
<1> QED BY <1>3, <1>4, <1>5, <1>6

LEMMA WhoCountsDays ==
  ASSUME TypeOK, [Next]_vars, daily' # daily
  PROVE  \E p \in Procs : UpsertDailyStats(p)
  BY DEF Next, vars, tables, Dispatch, Acknowledge, Die, StatementFails, CreateUserStats,
     CreateDeckStats, IncrementDeckTotalCards, IncrementUserCards, handleDeckDeleted,
     GetDeckTotal, DecrementUserCards, DeleteDeckProgressSnapshots, DeleteDeckStats,
     handleCardReviewed, EnsureUserStats, IncrementReview, GetUserStats, UpdateStreak,
     BumpActivityBucket, ShiftDeckCardStates, GetDeckStats, UpsertDeckProgressSnapshot
-----------------------------------------------------------------------------
LEMMA WaitingFinite ==
  ASSUME NEW W \in SUBSET Procs
  PROVE  IsFiniteSet(W) /\ Cardinality(W) \in Nat
  BY ProcsAssumption, FS_Subset, FS_CardinalityType

LEMMA OneMore ==
  ASSUME NEW A, IsFiniteSet(A), NEW x, NEW B, B \subseteq A \cup {x}
  PROVE  IsFiniteSet(B) /\ Cardinality(B) <= Cardinality(A) + 1
<1>1. IsFiniteSet(A \cup {x}) /\ Cardinality(A \cup {x}) \in Nat /\ Cardinality(A) \in Nat
  BY FS_AddElement, FS_CardinalityType
<1>2. Cardinality(A \cup {x}) <= Cardinality(A) + 1
  BY <1>1, FS_AddElement
<1>3. IsFiniteSet(B) /\ Cardinality(B) <= Cardinality(A \cup {x}) /\ Cardinality(B) \in Nat
  BY <1>1, FS_Subset, FS_CardinalityType
<1> QED BY <1>1, <1>2, <1>3

LEMMA KindStep ==
  ASSUME TypeOK, RunsItsKind, [Next]_vars
  PROVE  RunsItsKind'
<1>1. CASE UNCHANGED <<at, ev, queue>>
  BY <1>1 DEF RunsItsKind
<1>2. ASSUME NEW p \in Procs, Others(p), NEW e \in Events, Dispatch(p, e) PROVE RunsItsKind'
  <2>1. FirstStatement(e.kind) = "createUser" => e.kind = "user.registered"
    BY EventKind DEF FirstStatement
  <2>2. at'[p] = FirstStatement(e.kind) /\ ev'[p] = e
    BY <1>2 DEF Dispatch, TypeOK
  <2> QED BY <1>2, <2>1, <2>2 DEF RunsItsKind, Others
<1>3. ASSUME NEW p \in Procs, Others(p), Ends(p) \/ Proceeds(p) PROVE RunsItsKind'
  BY <1>3 DEF RunsItsKind, Others, Ends, Proceeds, Follows
<1> QED BY <1>1, <1>2, <1>3, QueueStep

-----------------------------------------------------------------------------
LEMMA ReachedFinite ==
  ASSUME NEW f, NEW X, f \in [Procs -> X], NEW A, IsFiniteSet(A),
         NEW T, T \subseteq A \cup {f[q] : q \in Procs}
  PROVE  IsFiniteSet(T) /\ Cardinality(T) \in Nat
<1> DEFINE F == {f[q] : q \in Procs}
<1>1. IsFiniteSet(F)
  <2>1. f \in Surjection(Procs, F)
    BY DEF Surjection
  <2> QED BY <2>1, ProcsAssumption, FS_Surjection
<1> HIDE DEF F
<1>2. IsFiniteSet(A \cup F)
  BY <1>1, FS_Union
<1>3. T \in SUBSET (A \cup F)
  BY DEF F
<1> QED BY <1>2, <1>3, FS_Subset, FS_CardinalityType

\* S holds every statement that follows one of its own: a step makes at most
\* one event reach S, that of a handler that enters S.
LEMMA ReachedGrows ==
  ASSUME TypeOK, TypeOK', [Next]_vars,
         NEW CONSTANT S, NEW CONSTANT E, "ack" \in S, "idle" \notin S,
         \A e \in Events : FirstStatement(e.kind) \notin S,
         \A s, t : Follows(s, t) /\ s \in S => t \in S
  PROVE  LET R == Reached(S, E) IN
         /\ Cardinality(R) \in Nat /\ Cardinality(R') \in Nat
         /\ \/ Cardinality(R') <= Cardinality(R)
            \/ /\ Cardinality(R') <= Cardinality(R) + 1
               /\ \E p \in Procs : /\ at[p] \notin S /\ at'[p] \in S /\ Follows(at[p], at'[p])
                                   /\ ev[p] \in E
<1> DEFINE R == Reached(S, E)
<1>1. \A e : /\ e \in R <=> e \in E /\ (e \in acked \/ \E q \in Procs : at[q] \in S /\ ev[q] = e)
             /\ e \in R' <=> e \in E /\ (e \in acked' \/ \E q \in Procs : at'[q] \in S /\ ev'[q] = e)
  BY DEF Reached
<1> HIDE DEF R
<1>2. /\ ev \in [Procs -> Events \cup {NoEvent}] /\ ev' \in [Procs -> Events \cup {NoEvent}]
      /\ IsFiniteSet(acked) /\ IsFiniteSet(acked')
  BY DEF TypeOK
<1>3. IsFiniteSet(R) /\ Cardinality(R) \in Nat
  <2>1. R \subseteq acked \cup {ev[q] : q \in Procs}
    BY <1>1
  <2> QED BY <1>2, <2>1, ReachedFinite
<1>4. Cardinality(R') \in Nat
  <2>1. R' \subseteq acked' \cup {ev'[q] : q \in Procs}
    BY <1>1
  <2> QED BY <1>2, <2>1, ReachedFinite
<1>5. R' \subseteq R => Cardinality(R') <= Cardinality(R)
  BY <1>3, FS_Subset
<1>6. CASE UNCHANGED <<at, ev, queue>>
  <2>1. R' \subseteq R
    BY <1>1, <1>6 DEF queue
  <2> QED BY <1>3, <1>4, <1>5, <2>1 DEF R
<1>7. ASSUME NEW p \in Procs, Others(p), NEW e \in Events, Dispatch(p, e)
      PROVE  R' \subseteq R
  <2>1. acked' = acked /\ at'[p] \notin S
    BY <1>7 DEF Dispatch, TypeOK
  <2> QED BY <1>1, <1>7, <2>1 DEF Others
<1>8. ASSUME NEW p \in Procs, Others(p), Ends(p)
      PROVE  R' \subseteq R
  <2>1. at'[p] \notin S /\ (acked' = acked \/ (at[p] \in S /\ acked' = acked \cup {ev[p]}))
    BY <1>8 DEF Ends
  <2> QED BY <1>1, <1>8, <2>1 DEF Others
<1>9. ASSUME NEW p \in Procs, Others(p), Proceeds(p)
      PROVE  \/ R' \subseteq R
             \/ /\ R' \subseteq R \cup {ev[p]}
                /\ at[p] \notin S /\ at'[p] \in S /\ Follows(at[p], at'[p]) /\ ev[p] \in E
  <2>1. acked' = acked /\ ev'[p] = ev[p] /\ Follows(at[p], at'[p])
    BY <1>9 DEF Proceeds, queue
  <2>2. R' \subseteq R \cup {ev[p]}
    BY <1>1, <1>9, <2>1 DEF Others
  <2>3. at[p] \in S \/ at'[p] \notin S \/ ev[p] \notin E => R' \subseteq R
    BY <1>1, <1>9, <2>1 DEF Others
  <2> QED BY <2>1, <2>2, <2>3
<1>10. \/ R' \subseteq R
       \/ \E p \in Procs : /\ R' \subseteq R \cup {ev[p]}
                           /\ at[p] \notin S /\ at'[p] \in S /\ Follows(at[p], at'[p])
                           /\ ev[p] \in E
  <2>1. CASE UNCHANGED <<at, ev, queue>>
    BY <1>1, <2>1 DEF queue
  <2> QED BY <2>1, <1>7, <1>8, <1>9, QueueStep
<1>11. \A x : R' \subseteq R \cup {x} => Cardinality(R') <= Cardinality(R) + 1
  BY <1>3, OneMore
<1> QED BY <1>3, <1>4, <1>5, <1>10, <1>11 DEF R

\* What reaches the end of a review's handler comes along its statements.
LEMMA ReviewProceeds ==
  ASSUME TypeOK, HandlesItsEvent, RunsItsKind, NEW p \in Procs,
         ev[p].kind = "card.reviewed", at[p] # "idle"
  PROVE  at[p] \in ReviewStatement \cup {"ack"}
  BY DEF HandlesItsEvent, RunsItsKind, TypeOK, Statement, DeckStatement

LEMMA DailyStep ==
  ASSUME TypeOK, TypeOK', HandlesItsEvent, RunsItsKind, DailyIsCounted, [Next]_vars
  PROVE  DailyIsCounted'
<1> SUFFICES ASSUME NEW u \in Users, NEW day \in Days
             PROVE  Cardinality(Reached(AfterDailyCount, ReviewsOn(u, day)))' <= daily'[<<u, day>>]
  BY DEF DailyIsCounted
<1> DEFINE E == ReviewsOn(u, day)
           n == Cardinality(Reached(AfterDailyCount, E))
<1>2. /\ n \in Nat /\ n' \in Nat
      /\ \/ n' <= n
         \/ /\ n' <= n + 1
            /\ \E p \in Procs : /\ at[p] \notin AfterDailyCount /\ at'[p] \in AfterDailyCount
                                /\ Follows(at[p], at'[p]) /\ ev[p] \in E
  <2>1. /\ "ack" \in AfterDailyCount /\ "idle" \notin AfterDailyCount
        /\ \A e \in Events : FirstStatement(e.kind) \notin AfterDailyCount
        /\ \A s, t : Follows(s, t) /\ s \in AfterDailyCount => t \in AfterDailyCount
    BY EventKind DEF AfterDailyCount, FirstStatement, Follows
  <2> QED BY <2>1, ReachedGrows
<1>3. daily[<<u, day>>] \in Nat /\ n <= daily[<<u, day>>]
  BY DEF DailyIsCounted, TypeOK
<1>4. ASSUME NEW p \in Procs, UpsertDailyStats(p)
      PROVE  /\ at[p] = "daily" /\ at'[p] = "shift"
             /\ daily'[<<u, day>>] = IF ev[p] \in E THEN daily[<<u, day>>] + 1 ELSE daily[<<u, day>>]
  <2>1. at[p] = "daily" /\ at'[p] = "shift"
    BY <1>4 DEF UpsertDailyStats, Goto, TypeOK
  <2>2. /\ ev[p] \in Events /\ ev[p].kind = "card.reviewed"
        /\ ev[p].user \in Users /\ ev[p].utcDay \in Days
    BY <2>1, HandledFields DEF ReviewStatement
  <2> DEFINE k == <<ev[p].user, ev[p].utcDay>>
  <2>3. daily' = [daily EXCEPT ![k] = daily[k] + 1]
    BY <1>4 DEF UpsertDailyStats
  <2>4. daily \in [Users \X Days -> Nat] /\ k \in Users \X Days /\ <<u, day>> \in Users \X Days
    BY <2>2 DEF TypeOK
  <2>5. daily'[<<u, day>>] = IF k = <<u, day>> THEN daily[<<u, day>>] + 1 ELSE daily[<<u, day>>]
    <3> HIDE DEF k
    <3> QED BY <2>3, <2>4
  <2>6. k = <<u, day>> <=> ev[p] \in E
    BY <2>2 DEF ReviewsOn, Reviews
  <2> HIDE DEF k
  <2> QED BY <2>1, <2>5, <2>6
<1>5. ASSUME NEW p \in Procs, at[p] \notin AfterDailyCount, at'[p] \in AfterDailyCount,
             Follows(at[p], at'[p]), ev[p] \in E
      PROVE  UpsertDailyStats(p)
  <2>1. at[p] \in ReviewStatement
    BY <1>5, ReviewProceeds DEF Follows, ReviewsOn, Reviews, AfterDailyCount
  <2>2. at[p] = "daily"
    BY <1>5, <2>1 DEF Follows, AfterDailyCount, ReviewStatement
  <2> QED BY <1>5, <2>2, WhoCounts DEF AfterDailyCount
<1> HIDE DEF E, n
<1>6. ASSUME NEW p \in Procs, UpsertDailyStats(p)
      PROVE  n' <= daily'[<<u, day>>]
  <2>1. CASE ev[p] \in E
    BY <1>2, <1>3, <1>4, <1>6, <2>1
  <2>2. CASE ev[p] \notin E
    <3>1. n' <= n
      <4>1. ASSUME NEW q \in Procs, UpsertDailyStats(q) PROVE ev[q] \notin E
        BY <1>4, <1>6, <2>2, <4>1, HandlersStep DEF Others, Step, handleCardReviewed
      <4> QED BY <1>2, <1>5, <4>1
    <3> QED BY <1>2, <1>3, <1>4, <1>6, <2>2, <3>1
  <2> QED BY <2>1, <2>2
<1>7. CASE ~\E p \in Procs : UpsertDailyStats(p)
  <2>1. daily' = daily
    BY <1>7, WhoCountsDays
  <2>2. n' <= n
    BY <1>2, <1>5, <1>7
  <2>3. n' <= daily'[<<u, day>>]
    BY <1>2, <1>3, <2>1, <2>2
  <2> QED BY <2>3 DEF E, n
<1> QED BY <1>6, <1>7 DEF E, n
-----------------------------------------------------------------------------
\* What the other statements write to a row leaves its reviews alone.
LEMMA RowUpdated ==
  ASSUME NEW row \in UserRow, NEW x
  PROVE  /\ [row EXCEPT !.cards = x] # NoRow
         /\ [row EXCEPT !.cards = x].reviews = row.reviews
         /\ [row EXCEPT !.reviews = row.reviews + 1] # NoRow
         /\ [row EXCEPT !.reviews = row.reviews + 1].reviews = row.reviews + 1
<1> DEFINE Columns == {"cards", "reviews", "streak", "longest", "last"}
<1>1. DOMAIN row = Columns /\ DOMAIN NoRow = {"row"} /\ Columns # {"row"}
  BY DEF UserRow, NoRow
<1>2. /\ DOMAIN [row EXCEPT !.cards = x] = Columns
      /\ DOMAIN [row EXCEPT !.reviews = row.reviews + 1] = Columns
  BY DEF UserRow
<1>3. /\ [row EXCEPT !.cards = x].reviews = row.reviews
      /\ [row EXCEPT !.reviews = row.reviews + 1].reviews = row.reviews + 1
  BY DEF UserRow
<1> HIDE DEF Columns
<1> QED BY <1>1, <1>2, <1>3

WithStreak(row, x, y, z) == [row EXCEPT !.streak = x, !.longest = y, !.last = z]

LEMMA StreakUpdated ==
  ASSUME NEW row \in UserRow, NEW x, NEW y, NEW z
  PROVE  /\ WithStreak(row, x, y, z) # NoRow
         /\ WithStreak(row, x, y, z).reviews = row.reviews
<1> DEFINE Columns == {"cards", "reviews", "streak", "longest", "last"}
<1>1. DOMAIN NoRow = {"row"} /\ Columns # {"row"}
  BY DEF NoRow
<1>2. DOMAIN WithStreak(row, x, y, z) = Columns
  BY DEF UserRow, WithStreak
<1>3. WithStreak(row, x, y, z).reviews = row.reviews
  BY DEF UserRow, WithStreak
<1> HIDE DEF Columns
<1> QED BY <1>1, <1>2, <1>3

\* A user's reviews are only ever counted up, by IncrementReview, and the row
\* never goes.
LEMMA ReviewsKept ==
  ASSUME TypeOK, TypeOK', HandlesItsEvent, [Next]_vars, NEW u \in Users
  PROVE  /\ ReviewsCounted(u) \in Nat /\ ReviewsCounted(u)' \in Nat
         /\ userStats'[u] = NoRow => userStats[u] = NoRow
         /\ \/ ReviewsCounted(u)' = ReviewsCounted(u)
            \/ /\ userStats[u] # NoRow /\ ReviewsCounted(u)' = ReviewsCounted(u) + 1
               /\ \E p \in Procs : IncrementReview(p) /\ ev[p].user = u
<1> DEFINE r == userStats[u]
           Same == /\ r' = NoRow => r = NoRow
                   /\ ReviewsCounted(u)' = ReviewsCounted(u)
           Counted == /\ r # NoRow /\ r' # NoRow
                      /\ ReviewsCounted(u)' = ReviewsCounted(u) + 1
<1>1. ReviewsCounted(u) \in Nat /\ ReviewsCounted(u)' \in Nat
  BY DEF ReviewsCounted, TypeOK, UserRow
<1>2. ASSUME userStats' = userStats PROVE Same
  BY <1>2 DEF ReviewsCounted
<1>3. ASSUME NEW p \in Procs, CreateUserStats(p) \/ EnsureUserStats(p) PROVE Same
  <2>1. r' = r \/ (r = NoRow /\ r' = NewUserRow)
    BY <1>3 DEF CreateUserStats, EnsureUserStats, TypeOK
  <2>2. NewUserRow # NoRow /\ NewUserRow.reviews = 0
    BY DEF NewUserRow, NoRow
  <2> QED BY <2>1, <2>2 DEF ReviewsCounted
<1>4. ASSUME NEW p \in Procs, IncrementUserCards(p) \/ DecrementUserCards(p) \/ UpdateStreak(p)
      PROVE  Same
  <2> DEFINE v == ev[p].user
             row == userStats[v]
  <2>1. v \in Users /\ (row # NoRow => row \in UserRow)
    BY <1>4, HandledFields
    DEF IncrementUserCards, DecrementUserCards, UpdateStreak, DeckStatement, ReviewStatement,
        TypeOK
  <2>2. ASSUME NEW new, userStats' = Update(userStats, v, new),
               row # NoRow => new # NoRow /\ new.reviews = row.reviews
        PROVE  Same
    <3>1. r' = r \/ (v = u /\ r # NoRow /\ r' = new)
      BY <2>1, <2>2 DEF Update, TypeOK
    <3> QED BY <2>2, <3>1 DEF ReviewsCounted
  <2>3. ASSUME IncrementUserCards(p) PROVE Same
    BY <2>1, <2>2, <2>3, RowUpdated DEF IncrementUserCards
  <2>4. ASSUME DecrementUserCards(p) PROVE Same
    BY <2>1, <2>2, <2>4, RowUpdated DEF DecrementUserCards
  <2>5. ASSUME UpdateStreak(p) PROVE Same
    <3> DEFINE streak == computeStreak(seen[p].last, ev[p].day, seen[p].streak)
               longest == Greatest(row.longest, streak)
               new == WithStreak(row, streak, longest, ev[p].day)
    <3>1. userStats' = Update(userStats, v, new)
      BY <2>5 DEF UpdateStreak, WithStreak
    <3> HIDE DEF streak, longest
    <3>2. row # NoRow => new # NoRow /\ new.reviews = row.reviews
      <4> HIDE DEF row
      <4> QED BY <2>1, StreakUpdated
    <3> HIDE DEF new
    <3> QED BY <2>2, <3>1, <3>2
  <2> QED BY <1>4, <2>3, <2>4, <2>5
<1>5. ASSUME NEW p \in Procs, IncrementReview(p)
      PROVE  Same \/ (Counted /\ ev[p].user = u)
  <2> DEFINE v == ev[p].user
             row == userStats[v]
             new == [row EXCEPT !.reviews = row.reviews + 1]
  <2>1. v \in Users /\ userStats' = Update(userStats, v, new)
    BY <1>5, HandledFields DEF IncrementReview, ReviewStatement
  <2>2. row # NoRow => new # NoRow /\ new.reviews = row.reviews + 1
    BY <2>1, RowUpdated DEF TypeOK
  <2> HIDE DEF new
  <2>3. r' = r \/ (v = u /\ r # NoRow /\ r' = new)
    BY <2>1 DEF Update, TypeOK
  <2>4. CASE r' = r
    BY <2>4 DEF ReviewsCounted
  <2>5. CASE v = u /\ r # NoRow /\ r' = new
    BY <2>2, <2>5 DEF ReviewsCounted
  <2> QED BY <2>3, <2>4, <2>5
<1> HIDE DEF r
<1>6. CASE \E p \in Procs : Counted /\ IncrementReview(p) /\ ev[p].user = u
  BY <1>1, <1>6 DEF r
<1>7. CASE Same
  BY <1>1, <1>7 DEF r
<1> QED BY <1>2, <1>3, <1>5, <1>4, <1>6, <1>7, WhoWritesUsers

LEMMA AddMonotonic == \A a, b, c \in Nat : a <= b => c + a <= c + b
  OBVIOUS

LEMMA Transitive == \A a, b, c, d, e \in Nat : a <= b + c /\ b + c <= d + e => a <= d + e
  OBVIOUS

LEMMA ReviewsStep ==
  ASSUME TypeOK, TypeOK', HandlesItsEvent, RunsItsKind, ReviewsAreCounted, [Next]_vars
  PROVE  ReviewsAreCounted'
<1> SUFFICES ASSUME NEW u \in Users
             PROVE  Cardinality(Reached(AfterReviewCount, Reviews(u)))'
                      + Cardinality(Uncounted(u))' <= ReviewsCounted(u)' + faults'
  BY DEF ReviewsAreCounted
<1> DEFINE E == Reviews(u)
           n == Cardinality(Reached(AfterReviewCount, E))
           U == Uncounted(u)
           c == ReviewsCounted(u)
<1>2. /\ n \in Nat /\ n' \in Nat
      /\ \/ n' <= n
         \/ /\ n' <= n + 1
            /\ \E p \in Procs : /\ at[p] \notin AfterReviewCount /\ at'[p] \in AfterReviewCount
                                /\ Follows(at[p], at'[p]) /\ ev[p] \in E
  <2>1. /\ "ack" \in AfterReviewCount /\ "idle" \notin AfterReviewCount
        /\ \A e \in Events : FirstStatement(e.kind) \notin AfterReviewCount
        /\ \A s, t : Follows(s, t) /\ s \in AfterReviewCount => t \in AfterReviewCount
    BY EventKind DEF AfterReviewCount, FirstStatement, Follows
  <2> QED BY <2>1, ReachedGrows
<1>3. /\ c \in Nat /\ c' \in Nat
      /\ userStats'[u] = NoRow => userStats[u] = NoRow
      /\ \/ c' = c
         \/ /\ userStats[u] # NoRow /\ c' = c + 1
            /\ \E p \in Procs : IncrementReview(p) /\ ev[p].user = u
  BY ReviewsKept
<1>4. ASSUME NEW p \in Procs, IncrementReview(p), ev[p].user = u
      PROVE  at[p] = "incReview" /\ at'[p] = "getStreak" /\ ev[p] \in E
  BY <1>4, HandledFields DEF IncrementReview, Goto, TypeOK, ReviewStatement, Reviews
<1>6. /\ IsFiniteSet(U) /\ IsFiniteSet(U')
      /\ Cardinality(U) \in Nat /\ Cardinality(U') \in Nat
  <2>1. U \in SUBSET Procs /\ U' \in SUBSET Procs
    BY DEF Uncounted
  <2> QED BY <2>1, WaitingFinite
<1>7. \A p : /\ p \in U <=> /\ p \in Procs /\ userStats[u] = NoRow
                            /\ at[p] = "incReview" /\ ev[p] \in E
             /\ p \in U' <=> /\ p \in Procs /\ userStats'[u] = NoRow
                             /\ at'[p] = "incReview" /\ ev'[p] \in E
  BY DEF Uncounted
<1>8. n + Cardinality(U) <= c + faults
  BY DEF ReviewsAreCounted
<1>9. faults \in Nat /\ faults' \in Nat /\ faults <= faults'
  <2>1. faults' = faults \/ faults' = faults + 1
    BY DEF Next, vars, Dispatch, Acknowledge, Die, StatementFails, CreateUserStats,
       CreateDeckStats, IncrementDeckTotalCards, IncrementUserCards, handleDeckDeleted,
       GetDeckTotal, DecrementUserCards, DeleteDeckProgressSnapshots, DeleteDeckStats,
       handleCardReviewed, EnsureUserStats, IncrementReview, GetUserStats, UpdateStreak,
       BumpActivityBucket, UpsertDailyStats, ShiftDeckCardStates, GetDeckStats,
       UpsertDeckProgressSnapshot, Goto
  <2> QED BY <2>1 DEF TypeOK
<1> DEFINE Kept == n' + Cardinality(U') <= c' + faults'
\* A handler that passes the statement counts its review, or was one of those
\* that find no row.
<1>10. ASSUME NEW p \in Procs, IncrementReview(p), ev[p].user = u, n' <= n + 1 PROVE Kept
  <2>1. at[p] = "incReview" /\ at'[p] = "getStreak" /\ ev[p] \in E /\ Others(p)
    BY <1>4, <1>10, HandlersStep DEF Step, handleCardReviewed
  <2>2. CASE userStats[u] = NoRow
    <3>1. U' \subseteq U \ {p} /\ p \in U
      BY <1>3, <1>7, <2>1, <2>2 DEF Others
    <3>2. IsFiniteSet(U \ {p}) /\ Cardinality(U \ {p}) = Cardinality(U) - 1
      BY <1>6, <3>1, FS_RemoveElement
    <3>3. Cardinality(U') <= Cardinality(U) - 1
      BY <3>1, <3>2, FS_Subset
    <3> HIDE DEF n, c, U
    <3> QED BY <1>2, <1>3, <1>6, <1>8, <1>9, <1>10, <2>2, <3>3
  <2>3. CASE userStats[u] # NoRow
    <3>1. U' = {}
      BY <1>3, <1>7, <2>3
    <3>2. Cardinality(U') = 0
      BY <3>1, FS_EmptySet
    <3>3. c' = c + 1
      <4> DEFINE row == userStats[u]
                 new == [row EXCEPT !.reviews = row.reviews + 1]
      <4>1. userStats' = Update(userStats, u, new)
        BY <1>10 DEF IncrementReview
      <4>2. new # NoRow /\ new.reviews = row.reviews + 1
        BY <2>3, RowUpdated DEF TypeOK
      <4> HIDE DEF new
      <4> QED BY <2>3, <4>1, <4>2 DEF ReviewsCounted, Update, TypeOK
    <3>4. n \in Nat /\ n' \in Nat /\ c \in Nat /\ Cardinality(U) \in Nat /\ n' <= n + 1
      BY <1>2, <1>3, <1>6, <1>10
    <3> DEFINE k == Cardinality(U)
               l == k'
    <3>5. k \in Nat /\ l \in Nat /\ l = 0 /\ n + k <= c + faults
      BY <1>6, <1>8, <3>2
    <3>6. c' \in Nat
      BY <1>3
    <3>7. n' + l <= c' + faults'
      <4> HIDE DEF n, c, k, l
      <4>1. n <= c + faults
        BY <1>9, <3>4, <3>5
      <4>2. n' <= (c + 1) + faults
        BY <1>9, <3>4, <4>1
      <4>3. n' <= c' + faults
        BY <3>3, <4>2
      <4>4. c' + faults <= c' + faults'
        BY <1>9, <3>6, AddMonotonic
      <4>5. n' <= c' + faults'
        BY <1>9, <3>4, <3>6, <4>3, <4>4, Transitive
      <4> QED BY <3>4, <3>5, <4>5
    <3> QED BY <3>7
  <2> QED BY <2>2, <2>3
\* Otherwise only the failure to create the row brings a handler to count in a
\* row that is not there, and that is one more fault.
<1>11. ASSUME n' <= n PROVE Kept
  <2>1. CASE U' \subseteq U
    <3>1. Cardinality(U') <= Cardinality(U)
      BY <1>6, <2>1, FS_Subset
    <3> HIDE DEF n, c, U
    <3> QED BY <1>2, <1>3, <1>6, <1>8, <1>9, <1>11, <3>1
  <2>2. ASSUME NEW p \in U', p \notin U PROVE Kept
    <3>1. /\ p \in Procs /\ userStats'[u] = NoRow /\ userStats[u] = NoRow
          /\ at'[p] = "incReview" /\ ev'[p] \in E
          /\ at[p] # "incReview" \/ ev[p] \notin E
      BY <1>3, <1>7, <2>2
    <3>2. at[p] = "ensure" /\ ev'[p] = ev[p] /\ ev[p] \in Events
      <4>1. CASE UNCHANGED <<at, ev, queue>>
        BY <3>1, <4>1
      <4>2. ASSUME NEW q \in Procs, Others(q), NEW e \in Events, Dispatch(q, e)
            PROVE  FALSE
        <5>1. FirstStatement(e.kind) # "incReview"
          BY EventKind DEF FirstStatement
        <5>2. at'[q] # "incReview"
          BY <4>2, <5>1 DEF Dispatch, TypeOK
        <5> QED BY <3>1, <4>2, <5>2 DEF Others
      <4>3. ASSUME NEW q \in Procs, Others(q), Ends(q) PROVE FALSE
        BY <3>1, <4>3 DEF Others, Ends
      <4>4. ASSUME NEW q \in Procs, Others(q), Proceeds(q)
            PROVE  at[p] = "ensure" /\ ev'[p] = ev[p]
        BY <3>1, <4>4 DEF Others, Proceeds, Follows
      <4>5. at[p] = "ensure" /\ ev'[p] = ev[p]
        BY <4>1, <4>2, <4>3, <4>4, QueueStep
      <4> QED BY <3>1, <4>5, HandledFields DEF ReviewStatement
    <3>3. ~EnsureUserStats(p)
      <4>1. ASSUME EnsureUserStats(p) PROVE userStats'[u] # NoRow
        <5>1. ev[p].user = u
          BY <3>1, <3>2 DEF Reviews
        <5>2. NewUserRow # NoRow
          BY DEF NewUserRow, NoRow
        <5> QED BY <4>1, <5>1, <5>2 DEF EnsureUserStats, TypeOK
      <4> QED BY <3>1, <4>1
    <3>4. StatementFails(p)
      BY <3>1, <3>2, <3>3, WhoCounts
    <3>5. faults' = faults + 1 /\ Others(p)
      BY <3>1, <3>4, HandlersStep DEF StatementFails, Step
    <3>6. U' \subseteq U \cup {p}
      BY <1>3, <1>7, <3>5 DEF Others
    <3>7. Cardinality(U') <= Cardinality(U) + 1
      BY <1>6, <3>6, OneMore
    <3> HIDE DEF n, c, U
    <3> QED BY <1>2, <1>3, <1>6, <1>8, <1>9, <1>11, <3>5, <3>7
  <2> QED BY <2>1, <2>2
<1>12. ASSUME NEW p \in Procs, at[p] \notin AfterReviewCount, at'[p] \in AfterReviewCount,
              Follows(at[p], at'[p]), ev[p] \in E
       PROVE  IncrementReview(p) /\ ev[p].user = u
  <2>1. at[p] \in ReviewStatement /\ ev[p].user = u
    BY <1>12, ReviewProceeds DEF Follows, Reviews, AfterReviewCount
  <2>2. at[p] = "incReview" /\ at'[p] = "getStreak"
    BY <1>12, <2>1 DEF Follows, AfterReviewCount, ReviewStatement
  <2> QED BY <2>1, <2>2, WhoCounts
<1>13. Kept
  <2> HIDE DEF n, c, U, Kept
  <2> QED BY <1>2, <1>10, <1>11, <1>12
<1> QED BY <1>13
-----------------------------------------------------------------------------
\* Together they are what is stated: what is answered is past both statements.
LEMMA CountsAreRight ==
  ASSUME TypeOK, DailyIsCounted, ReviewsAreCounted
  PROVE  AcknowledgedIsCounted
<1>1. ASSUME NEW S, NEW E
      PROVE  /\ Cardinality(E \cap acked) <= Cardinality(Reached(S, E))
             /\ Cardinality(E \cap acked) \in Nat /\ Cardinality(Reached(S, E)) \in Nat
  <2> DEFINE R == Reached(S, E)
  <2>1. R \subseteq acked \cup {ev[q] : q \in Procs} /\ E \cap acked \subseteq R
    BY DEF Reached
  <2>2. ev \in [Procs -> Events \cup {NoEvent}] /\ IsFiniteSet(acked)
    BY DEF TypeOK
  <2> HIDE DEF R
  <2>3. IsFiniteSet(R) /\ Cardinality(R) \in Nat
    BY <2>1, <2>2, ReachedFinite
  <2>4. Cardinality(E \cap acked) <= Cardinality(R) /\ Cardinality(E \cap acked) \in Nat
    BY <2>1, <2>3, FS_Subset, FS_CardinalityType
  <2> QED BY <2>3, <2>4 DEF R
<1>2. ASSUME NEW u \in Users, NEW day \in Days
      PROVE  Cardinality(ReviewsOn(u, day) \cap acked) <= daily[<<u, day>>]
  <2> DEFINE E == ReviewsOn(u, day)
  <2>1. /\ daily[<<u, day>>] \in Nat
        /\ Cardinality(Reached(AfterDailyCount, E)) <= daily[<<u, day>>]
    BY DEF DailyIsCounted, TypeOK
  <2> HIDE DEF E
  <2>2. Cardinality(E \cap acked) <= daily[<<u, day>>]
    BY <1>1, <2>1
  <2> QED BY <2>2 DEF E
<1>3. ASSUME NEW u \in Users
      PROVE  Cardinality(Reviews(u) \cap acked) <= ReviewsCounted(u) + faults
  <2> DEFINE E == Reviews(u)
             c == ReviewsCounted(u)
  <2>1. c \in Nat /\ faults \in Nat
    BY DEF ReviewsCounted, TypeOK, UserRow
  <2>2. Cardinality(Reached(AfterReviewCount, E)) + Cardinality(Uncounted(u)) <= c + faults
    BY DEF ReviewsAreCounted
  <2>3. Cardinality(Uncounted(u)) \in Nat
    BY WaitingFinite DEF Uncounted
  <2> HIDE DEF E, c
  <2>4. Cardinality(E \cap acked) <= c + faults
    BY <1>1, <2>1, <2>2, <2>3
  <2> QED BY <2>4 DEF E, c
<1> QED BY <1>2, <1>3 DEF AcknowledgedIsCounted

LEMMA CountsInit ==
  ASSUME Init
  PROVE  RunsItsKind /\ DailyIsCounted /\ ReviewsAreCounted
<1>1. ASSUME NEW S, NEW E, "idle" \notin S PROVE Cardinality(Reached(S, E)) = 0
  <2>1. Reached(S, E) = {}
    BY <1>1 DEF Init, Reached
  <2> QED BY <2>1, FS_EmptySet
<1>2. ASSUME NEW u PROVE Cardinality(Uncounted(u)) = 0
  <2>1. Uncounted(u) = {}
    BY DEF Init, Uncounted
  <2> QED BY <2>1, FS_EmptySet
<1>3. DailyIsCounted
  BY <1>1 DEF Init, DailyIsCounted, AfterDailyCount
<1>4. ReviewsAreCounted
  <2>1. \A u \in Users : ReviewsCounted(u) = 0
    BY DEF Init, ReviewsCounted
  <2> QED BY <1>1, <1>2, <2>1 DEF Init, ReviewsAreCounted, AfterReviewCount
<1> QED BY <1>3, <1>4 DEF Init, RunsItsKind

\* An acknowledged review is counted on its day and, but for the failed
\* statements, in its user's total.
THEOREM AcknowledgedAreCounted == Spec => []AcknowledgedIsCounted
<1> DEFINE Counts == RunsItsKind /\ DailyIsCounted /\ ReviewsAreCounted
<1>1. Init => Counts
  BY CountsInit
<1>2. TypeOK /\ HandlesItsEvent /\ Counts /\ [Next]_vars => Counts'
  <2> SUFFICES ASSUME TypeOK, HandlesItsEvent, Counts, [Next]_vars PROVE Counts'
    OBVIOUS
  <2>1. TypeOK'
    BY TypeStep
  <2> QED BY <2>1, KindStep, DailyStep, ReviewsStep
<1>3. TypeOK /\ Counts => AcknowledgedIsCounted
  BY CountsAreRight
<1> HIDE DEF Counts
<1> QED BY <1>1, <1>2, <1>3, Control, PTL DEF Spec
=============================================================================
