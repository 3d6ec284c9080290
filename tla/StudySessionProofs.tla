------------------------- MODULE StudySessionProofs -------------------------
(***************************************************************************)
(* Proofs about StudySession for every number of sessions, cards, requests *)
(* and failures: types, every grade logged and counted, no session left    *)
(* ongoing with all its cards graded unless a request failed, schedules no *)
(* further than the log, and no recorded figure above it.                  *)
(***************************************************************************)
EXTENDS StudySession, FiniteSetTheorems, TLAPS

USE DEF SessionStatus, ReviewPC, sessionRow

-----------------------------------------------------------------------------
(* Type correctness *)

\* Initially every variable has its type.
LEMMA InitTypeOK == Init => TypeOK
  BY FS_EmptySet DEF Init, TypeOK

\* Each step of a request keeps the types.
LEMMA StepTypeOK == TypeOK /\ [Next]_vars => TypeOK'
<1> SUFFICES ASSUME TypeOK, [Next]_vars PROVE TypeOK'
  OBVIOUS
<1> USE BoundsAssumption DEF TypeOK, OnSession, Selection, NewSession, Review, Summary
<1>1. ASSUME NEW p \in Proc, AbandonStudySession(p) PROVE TypeOK'
  BY <1>1 DEF AbandonStudySession, Enter
<1>2. ASSUME NEW p \in Proc, SelectCards(p) PROVE TypeOK'
  BY <1>2 DEF SelectCards, Enter, Return
<1>3. ASSUME NEW p \in Proc, NEW s \in Session, CreateStudySession(p, s) PROVE TypeOK'
  <2>1. job[p].cards \in SUBSET Card
    BY <1>3 DEF CreateStudySession
  <2>2. Cardinality(job[p].cards) \in Nat
    BY <2>1, FiniteAssumption, FS_Subset, FS_CardinalityType
  <2> QED BY <1>3, <2>2 DEF CreateStudySession, Enter
<1>4. ASSUME NEW p \in Proc, NEW c \in Card, InsertSessionCard(p, c) PROVE TypeOK'
  BY <1>4 DEF InsertSessionCard, Enter, Return
<1>5. ASSUME NEW p \in Proc, ReadSessionCard(p) PROVE TypeOK'
  BY <1>5 DEF ReadSessionCard, Enter, Goto, Return
<1>6. ASSUME NEW p \in Proc, ReadUserCard(p) PROVE TypeOK'
  BY <1>6 DEF ReadUserCard, Enter
<1>7. ASSUME NEW p \in Proc, UpdateUserCardFSRS(p) PROVE TypeOK'
  BY <1>7 DEF UpdateUserCardFSRS, Enter
<1>8. ASSUME NEW p \in Proc, InsertRevlog(p) PROVE TypeOK'
  <2> DEFINE L == LogsOf(job[p].session, job[p].card)
  <2>1. Cardinality(L) \in Nat
    BY FS_Subset, FS_CardinalityType DEF LogsOf
  <2> DEFINE row == [session |-> job[p].session, card |-> job[p].card, no |-> Cardinality(L)]
  <2>2. row \in Revlog
    BY <1>8, <2>1 DEF InsertRevlog, Revlog
  <2>3. revlogs' = revlogs \cup {row}
    BY <1>8 DEF InsertRevlog
  <2> HIDE DEF row
  <2>4. revlogs' \in SUBSET Revlog /\ IsFiniteSet(revlogs')
    BY <2>2, <2>3, FS_AddElement
  <2> QED BY <1>8, <2>4 DEF InsertRevlog, Goto
<1>9. ASSUME NEW p \in Proc, MarkSessionCardReviewed(p) PROVE TypeOK'
  BY <1>9 DEF MarkSessionCardReviewed, Goto
<1>10. ASSUME NEW p \in Proc, IncrementCompletedCards(p) PROVE TypeOK'
  BY <1>10 DEF IncrementCompletedCards, Enter, Return
<1>11. ASSUME NEW p \in Proc, FinishStudySession(p) PROVE TypeOK'
  BY <1>11 DEF FinishStudySession, Goto
<1>12. ASSUME NEW p \in Proc, SummarizeRevlogsBySession(p) PROVE TypeOK'
  <2>1. Cardinality(SessionLogs(job[p].session)) \in Nat
    BY FS_Subset, FS_CardinalityType DEF SessionLogs
  <2> QED BY <1>12, <2>1 DEF SummarizeRevlogsBySession, Enter
<1>13. ASSUME NEW p \in Proc, UpsertStudySessionMetrics(p) PROVE TypeOK'
  BY <1>13 DEF UpsertStudySessionMetrics, Enter, Return
<1>14. ASSUME NEW p \in Proc, HandlerStops(p) PROVE TypeOK'
  BY <1>14 DEF HandlerStops, Enter, Return
<1>15. ASSUME NEW p \in Proc, StartSession(p) PROVE TypeOK'
  BY <1>15 DEF StartSession, Enter
<1>16. ASSUME NEW p \in Proc, NEW s \in Session, FinishSession(p, s) PROVE TypeOK'
  BY <1>16 DEF FinishSession, Enter
<1>17. ASSUME NEW p \in Proc, NEW s \in Session, NEW c \in Card, ReviewCard(p, s, c) PROVE TypeOK'
  BY <1>17 DEF ReviewCard, Enter
<1>18. CASE UNCHANGED vars
  BY <1>18 DEF vars
<1> QED
  BY <1>1, <1>2, <1>3, <1>4, <1>5, <1>6, <1>7, <1>8, <1>9, <1>10, <1>11, <1>12, <1>13, <1>14, <1>15, <1>16, <1>17, <1>18
     DEF Next, HandlerStep

\* Type correctness of the sessions.
THEOREM TypeCorrect == Spec => []TypeOK
  BY InitTypeOK, StepTypeOK, PTL DEF Spec

-----------------------------------------------------------------------------
(* Every grade is counted.  A statement moves a grade from "marked, about   *)
(* to be counted" to "counted", and only a failure takes it out of both.    *)

\* The handlers at a statement are finitely many.
LEMMA AtFinite ==
  \A c, s : IsFiniteSet(At(c, s))
  BY FiniteAssumption, FS_Subset DEF At

\* So are the graded cards of a session.
LEMMA GradedFinite ==
  ASSUME TypeOK
  PROVE  \A s \in Session : IsFiniteSet(graded[s])
  BY FiniteAssumption, FS_Subset DEF TypeOK

\* Adding an element makes a finite set larger by at most one ...
LEMMA CardinalityAdd ==
  ASSUME NEW S, NEW x, IsFiniteSet(S)
  PROVE  /\ Cardinality(S) \in Nat
         /\ Cardinality(S \cup {x}) \in Nat
         /\ Cardinality(S \cup {x}) <= Cardinality(S) + 1
         /\ x \notin S => Cardinality(S \cup {x}) = Cardinality(S) + 1
<1>1. Cardinality(S) \in Nat
  BY FS_CardinalityType
<1>2. Cardinality(S \cup {x}) = IF x \in S THEN Cardinality(S) ELSE Cardinality(S) + 1
  BY FS_AddElement
<1> QED BY <1>1, <1>2

\* ... and removing one makes it smaller by at most one.
LEMMA CardinalityRemove ==
  ASSUME NEW S, NEW x, IsFiniteSet(S)
  PROVE  /\ Cardinality(S) \in Nat
         /\ Cardinality(S \ {x}) \in Nat
         /\ Cardinality(S) <= Cardinality(S \ {x}) + 1
         /\ x \in S => Cardinality(S \ {x}) = Cardinality(S) - 1
<1>1. Cardinality(S) \in Nat
  BY FS_CardinalityType
<1>2. Cardinality(S \ {x}) = IF x \in S THEN Cardinality(S) - 1 ELSE Cardinality(S)
  BY FS_RemoveElement
<1>3. IsFiniteSet(S \ {x}) /\ Cardinality(S \ {x}) \in Nat
  BY FS_RemoveElement, FS_CardinalityType
<1> QED BY <1>1, <1>2, <1>3

\* Each step keeps every grade counted.
LEMMA StepGradesCounted == TypeOK /\ GradesCounted /\ [Next]_vars => GradesCounted'
<1> SUFFICES ASSUME TypeOK, GradesCounted, [Next]_vars PROVE GradesCounted'
  OBVIOUS
<1> USE DEF TypeOK, GradesCounted, OnSession, Selection, NewSession, Review, Summary
<1>1. ASSUME NEW p \in Proc, AbandonStudySession(p) PROVE GradesCounted'
  <2>1. \A s \in Session : At("increment", s)' = At("increment", s)
    BY <1>1 DEF AbandonStudySession, Enter, At
  <2> QED BY <1>1, <2>1 DEF AbandonStudySession
<1>2. ASSUME NEW p \in Proc, SelectCards(p) PROVE GradesCounted'
  <2>1. \A s \in Session : At("increment", s)' = At("increment", s)
    BY <1>2 DEF SelectCards, Enter, Return, At
  <2> QED BY <1>2, <2>1 DEF SelectCards
<1>3. ASSUME NEW p \in Proc, NEW s \in Session, CreateStudySession(p, s) PROVE GradesCounted'
  <2>1. \A t \in Session : At("increment", t)' = At("increment", t)
    BY <1>3 DEF CreateStudySession, Enter, At
  <2> QED BY <1>3, <2>1 DEF CreateStudySession
<1>4. ASSUME NEW p \in Proc, NEW c \in Card, InsertSessionCard(p, c) PROVE GradesCounted'
  <2>1. \A s \in Session : At("increment", s)' = At("increment", s)
    BY <1>4 DEF InsertSessionCard, Enter, Return, At
  <2> QED BY <1>4, <2>1 DEF InsertSessionCard
<1>5. ASSUME NEW p \in Proc, ReadSessionCard(p) PROVE GradesCounted'
  <2>1. \A s \in Session : At("increment", s)' = At("increment", s)
    BY <1>5 DEF ReadSessionCard, Enter, Goto, Return, At
  <2> QED BY <1>5, <2>1 DEF ReadSessionCard
<1>6. ASSUME NEW p \in Proc, ReadUserCard(p) PROVE GradesCounted'
  <2>1. \A s \in Session : At("increment", s)' = At("increment", s)
    BY <1>6 DEF ReadUserCard, Enter, At
  <2> QED BY <1>6, <2>1 DEF ReadUserCard
<1>7. ASSUME NEW p \in Proc, UpdateUserCardFSRS(p) PROVE GradesCounted'
  <2>1. \A s \in Session : At("increment", s)' = At("increment", s)
    BY <1>7 DEF UpdateUserCardFSRS, Enter, At
  <2> QED BY <1>7, <2>1 DEF UpdateUserCardFSRS
<1>8. ASSUME NEW p \in Proc, InsertRevlog(p) PROVE GradesCounted'
  <2>1. \A s \in Session : At("increment", s)' = At("increment", s)
    BY <1>8 DEF InsertRevlog, Goto, At
  <2> QED BY <1>8, <2>1 DEF InsertRevlog
<1>9. ASSUME NEW p \in Proc, MarkSessionCardReviewed(p) PROVE GradesCounted'
  <2>1. PICK s \in Session, c \in Card : job[p].session = s /\ job[p].card = c
    BY <1>9 DEF MarkSessionCardReviewed
  <2>2. /\ At("increment", s)' = At("increment", s) \cup {p}
        /\ p \notin At("increment", s)
    BY <1>9, <2>1 DEF MarkSessionCardReviewed, Goto, At
  <2>3. \A t \in Session \ {s} : At("increment", t)' = At("increment", t)
    BY <1>9, <2>1 DEF MarkSessionCardReviewed, Goto, At
  <2>4. /\ graded'[s] = graded[s] \cup {c}
        /\ \A t \in Session \ {s} : graded'[t] = graded[t]
        /\ UNCHANGED <<completed, faults>>
    BY <1>9, <2>1 DEF MarkSessionCardReviewed
  <2>5. completed[s] \in Nat /\ faults \in Nat
    OBVIOUS
  <2>6. Cardinality(graded[s]) <= completed[s] + Cardinality(At("increment", s)) + faults
    OBVIOUS
  <2>7. Cardinality(graded[s] \cup {c})
          <= completed[s] + Cardinality(At("increment", s) \cup {p}) + faults
    <3> HIDE DEF TypeOK, GradesCounted
    <3>1. IsFiniteSet(graded[s]) BY GradedFinite
    <3>2. IsFiniteSet(At("increment", s)) BY AtFinite
    <3>3. Cardinality(graded[s]) \in Nat /\ Cardinality(graded[s] \cup {c}) \in Nat
      BY <3>1, CardinalityAdd
    <3>4. Cardinality(graded[s] \cup {c}) <= Cardinality(graded[s]) + 1
      BY <3>1, CardinalityAdd
    <3>5. /\ Cardinality(At("increment", s)) \in Nat
          /\ Cardinality(At("increment", s) \cup {p}) = Cardinality(At("increment", s)) + 1
      BY <2>2, <3>2, CardinalityAdd
    <3> QED BY <2>5, <2>6, <3>3, <3>4, <3>5
  <2>8. ASSUME NEW t \in Session
        PROVE  Cardinality(graded'[t]) <= completed'[t] + Cardinality(At("increment", t)') + faults'
    <3> HIDE DEF TypeOK
    <3>1. CASE t = s
      BY <2>2, <2>4, <2>7, <3>1
    <3>2. CASE t # s
      BY <2>3, <2>4, <3>2
    <3> QED BY <3>1, <3>2
  <2> QED BY <2>8
<1>10. ASSUME NEW p \in Proc, IncrementCompletedCards(p) PROVE GradesCounted'
  <2>1. PICK s \in Session : job[p].session = s
    BY <1>10 DEF IncrementCompletedCards
  <2>2. pc[p] = "increment" /\ Return(p) /\ UNCHANGED <<graded, faults>>
    BY <1>10 DEF IncrementCompletedCards
  <2>3. p \in At("increment", s) /\ At("increment", s)' = At("increment", s) \ {p}
    BY <2>1, <2>2 DEF Enter, Return, At
  <2>4. \A t \in Session \ {s} : At("increment", t)' = At("increment", t)
    BY <2>1, <2>2 DEF Enter, Return, At
  <2>5. /\ completed'[s] = completed[s] + 1
        /\ \A t \in Session \ {s} : completed'[t] = completed[t]
    BY <1>10, <2>1 DEF IncrementCompletedCards
  <2>6. completed[s] \in Nat /\ faults \in Nat
    OBVIOUS
  <2>7. Cardinality(graded[s]) <= completed[s] + Cardinality(At("increment", s)) + faults
    OBVIOUS
  <2>8. Cardinality(graded[s])
          <= completed[s] + 1 + Cardinality(At("increment", s) \ {p}) + faults
    <3> HIDE DEF TypeOK, GradesCounted
    <3>1. IsFiniteSet(graded[s]) BY GradedFinite
    <3>2. IsFiniteSet(At("increment", s)) BY AtFinite
    <3>3. Cardinality(graded[s]) \in Nat BY <3>1, FS_CardinalityType
    <3>4. /\ Cardinality(At("increment", s)) \in Nat
          /\ Cardinality(At("increment", s) \ {p}) = Cardinality(At("increment", s)) - 1
      BY <2>3, <3>2, CardinalityRemove
    <3> QED BY <2>6, <2>7, <3>3, <3>4
  <2>9. ASSUME NEW t \in Session
        PROVE  Cardinality(graded'[t]) <= completed'[t] + Cardinality(At("increment", t)') + faults'
    <3> HIDE DEF TypeOK
    <3>1. CASE t = s
      BY <2>2, <2>3, <2>5, <2>8, <3>1
    <3>2. CASE t # s
      BY <2>2, <2>4, <2>5, <3>2
    <3> QED BY <3>1, <3>2
  <2> QED BY <2>9
<1>11. ASSUME NEW p \in Proc, FinishStudySession(p) PROVE GradesCounted'
  <2>1. \A s \in Session : At("increment", s)' = At("increment", s)
    BY <1>11 DEF FinishStudySession, Goto, At
  <2> QED BY <1>11, <2>1 DEF FinishStudySession
<1>12. ASSUME NEW p \in Proc, SummarizeRevlogsBySession(p) PROVE GradesCounted'
  <2>1. \A s \in Session : At("increment", s)' = At("increment", s)
    BY <1>12 DEF SummarizeRevlogsBySession, Enter, At
  <2> QED BY <1>12, <2>1 DEF SummarizeRevlogsBySession
<1>13. ASSUME NEW p \in Proc, UpsertStudySessionMetrics(p) PROVE GradesCounted'
  <2>1. \A s \in Session : At("increment", s)' = At("increment", s)
    BY <1>13 DEF UpsertStudySessionMetrics, Enter, Return, At
  <2> QED BY <1>13, <2>1 DEF UpsertStudySessionMetrics
<1>14. ASSUME NEW p \in Proc, HandlerStops(p) PROVE GradesCounted'
  <2>1. \A s \in Session : At("increment", s)' = At("increment", s) \ {p}
    BY <1>14 DEF HandlerStops, Enter, Return, At
  <2>2. /\ faults' = faults + 1
        /\ UNCHANGED <<graded, completed>>
    BY <1>14 DEF HandlerStops
  <2>3. completed \in [Session -> Nat] /\ faults \in Nat
    BY DEF TypeOK
  <2> HIDE DEF TypeOK, GradesCounted
  <2>4. ASSUME NEW s \in Session
        PROVE  Cardinality(graded[s]) <= completed[s] + Cardinality(At("increment", s)') + (faults + 1)
    <3>1. IsFiniteSet(At("increment", s)) BY AtFinite
    <3>2. Cardinality(graded[s]) \in Nat BY GradedFinite, FS_CardinalityType
    <3>3. /\ Cardinality(At("increment", s)) \in Nat
          /\ Cardinality(At("increment", s) \ {p}) \in Nat
          /\ Cardinality(At("increment", s)) <= Cardinality(At("increment", s) \ {p}) + 1
      BY <3>1, CardinalityRemove
    <3>4. Cardinality(graded[s]) <= completed[s] + Cardinality(At("increment", s)) + faults
      BY DEF GradesCounted
    <3>5. completed[s] \in Nat
      BY <2>3
    <3> QED BY <2>1, <2>3, <3>2, <3>3, <3>4, <3>5
  <2> QED BY <2>2, <2>4 DEF GradesCounted
<1>15. ASSUME NEW p \in Proc, StartSession(p) PROVE GradesCounted'
  <2>1. \A s \in Session : At("increment", s)' = At("increment", s)
    BY <1>15 DEF StartSession, Enter, At
  <2> QED BY <1>15, <2>1 DEF StartSession
<1>16. ASSUME NEW p \in Proc, NEW s \in Session, FinishSession(p, s) PROVE GradesCounted'
  <2>1. \A t \in Session : At("increment", t)' = At("increment", t)
    BY <1>16 DEF FinishSession, Enter, At
  <2> QED BY <1>16, <2>1 DEF FinishSession
<1>17. ASSUME NEW p \in Proc, NEW s \in Session, NEW c \in Card, ReviewCard(p, s, c) PROVE GradesCounted'
  <2>1. \A t \in Session : At("increment", t)' = At("increment", t)
    BY <1>17 DEF ReviewCard, Enter, At
  <2> QED BY <1>17, <2>1 DEF ReviewCard
<1>18. CASE UNCHANGED vars
  BY <1>18 DEF vars, At
<1> QED
  BY <1>1, <1>2, <1>3, <1>4, <1>5, <1>6, <1>7, <1>8, <1>9, <1>10, <1>11, <1>12, <1>13, <1>14, <1>15, <1>16, <1>17, <1>18
     DEF Next, HandlerStep

\* Every graded card is counted, or about to be, or its request failed.
THEOREM GradesAreCounted == Spec => []GradesCounted
<1>1. Init => GradesCounted
  BY FS_EmptySet, AtFinite, FS_CardinalityType DEF Init, GradesCounted, At
<1> QED BY <1>1, InitTypeOK, StepTypeOK, StepGradesCounted, PTL DEF Spec

-----------------------------------------------------------------------------
(* A session that is ongoing has cards left to count: the one UPDATE that   *)
(* counts also completes, and a new session starts from nothing.            *)

\* Requests work on rows that exist; a row starts with nothing counted and at
\* least one card.
RowsExist ==
  /\ \A s \in Session : status[s] = "none" => completed[s] = 0
  /\ \A p \in Proc :
       /\ pc[p] \in ReviewPC \cup {"abandon", "finish"} => status[job[p].session] # "none"
       /\ pc[p] = "create" => job[p].cards # {}

OngoingHasCards ==
  \A s \in Session : status[s] = "ongoing" => completed[s] < total[s]

\* Each step keeps both.
LEMMA StepOngoingHasCards ==
  TypeOK /\ RowsExist /\ OngoingHasCards /\ [Next]_vars => (RowsExist /\ OngoingHasCards)'
<1> SUFFICES ASSUME TypeOK, RowsExist, OngoingHasCards, [Next]_vars
             PROVE  (RowsExist /\ OngoingHasCards)'
  OBVIOUS
<1> USE DEF TypeOK, RowsExist, OngoingHasCards, OnSession, Selection, NewSession, Review, Summary
<1>1. ASSUME NEW p \in Proc, AbandonStudySession(p) PROVE (RowsExist /\ OngoingHasCards)'
  BY <1>1 DEF AbandonStudySession, Enter
<1>2. ASSUME NEW p \in Proc, SelectCards(p) PROVE (RowsExist /\ OngoingHasCards)'
  BY <1>2 DEF SelectCards, Enter, Return
<1>3. ASSUME NEW p \in Proc, NEW s \in Session, CreateStudySession(p, s) PROVE (RowsExist /\ OngoingHasCards)'
  <2>1. job[p].cards \in SUBSET Card /\ job[p].cards # {}
    BY <1>3 DEF CreateStudySession
  <2>2. Cardinality(job[p].cards) \in Nat \ {0}
    BY <2>1, FiniteAssumption, FS_Subset, FS_CardinalityType, FS_EmptySet
  <2> QED BY <1>3, <2>2 DEF CreateStudySession, Enter
<1>4. ASSUME NEW p \in Proc, NEW c \in Card, InsertSessionCard(p, c) PROVE (RowsExist /\ OngoingHasCards)'
  BY <1>4 DEF InsertSessionCard, Enter, Return
<1>5. ASSUME NEW p \in Proc, ReadSessionCard(p) PROVE (RowsExist /\ OngoingHasCards)'
  BY <1>5 DEF ReadSessionCard, Enter, Goto, Return
<1>6. ASSUME NEW p \in Proc, ReadUserCard(p) PROVE (RowsExist /\ OngoingHasCards)'
  BY <1>6 DEF ReadUserCard, Enter
<1>7. ASSUME NEW p \in Proc, UpdateUserCardFSRS(p) PROVE (RowsExist /\ OngoingHasCards)'
  BY <1>7 DEF UpdateUserCardFSRS, Enter
<1>8. ASSUME NEW p \in Proc, InsertRevlog(p) PROVE (RowsExist /\ OngoingHasCards)'
  BY <1>8 DEF InsertRevlog, Goto
<1>9. ASSUME NEW p \in Proc, MarkSessionCardReviewed(p) PROVE (RowsExist /\ OngoingHasCards)'
  BY <1>9 DEF MarkSessionCardReviewed, Goto
<1>10. ASSUME NEW p \in Proc, IncrementCompletedCards(p) PROVE (RowsExist /\ OngoingHasCards)'
  BY <1>10 DEF IncrementCompletedCards, Enter, Return
<1>11. ASSUME NEW p \in Proc, FinishStudySession(p) PROVE (RowsExist /\ OngoingHasCards)'
  BY <1>11 DEF FinishStudySession, Goto
<1>12. ASSUME NEW p \in Proc, SummarizeRevlogsBySession(p) PROVE (RowsExist /\ OngoingHasCards)'
  BY <1>12 DEF SummarizeRevlogsBySession, Enter
<1>13. ASSUME NEW p \in Proc, UpsertStudySessionMetrics(p) PROVE (RowsExist /\ OngoingHasCards)'
  BY <1>13 DEF UpsertStudySessionMetrics, Enter, Return
<1>14. ASSUME NEW p \in Proc, HandlerStops(p) PROVE (RowsExist /\ OngoingHasCards)'
  BY <1>14 DEF HandlerStops, Enter, Return
<1>15. ASSUME NEW p \in Proc, StartSession(p) PROVE (RowsExist /\ OngoingHasCards)'
  BY <1>15 DEF StartSession, Enter
<1>16. ASSUME NEW p \in Proc, NEW s \in Session, FinishSession(p, s) PROVE (RowsExist /\ OngoingHasCards)'
  BY <1>16 DEF FinishSession, Enter
<1>17. ASSUME NEW p \in Proc, NEW s \in Session, NEW c \in Card, ReviewCard(p, s, c) PROVE (RowsExist /\ OngoingHasCards)'
  BY <1>17 DEF ReviewCard, Enter
<1>18. CASE UNCHANGED vars
  BY <1>18 DEF vars
<1> QED
  BY <1>1, <1>2, <1>3, <1>4, <1>5, <1>6, <1>7, <1>8, <1>9, <1>10, <1>11, <1>12, <1>13, <1>14, <1>15, <1>16, <1>17, <1>18
     DEF Next, HandlerStep

\* A session whose cards are all graded has ended, unless a request failed.
THEOREM GradedSessionsEnd == Spec => []GradedSessionEnds
<1>1. Init => RowsExist /\ OngoingHasCards
  BY DEF Init, RowsExist, OngoingHasCards
<1>2. TypeOK /\ GradesCounted /\ OngoingHasCards => GradedSessionEnds
  <2> SUFFICES ASSUME TypeOK, GradesCounted, OngoingHasCards, NEW s \in Session,
                      faults = 0, FullyGraded(s)
               PROVE  status[s] # "ongoing"
    BY DEF GradedSessionEnds
  <2>1. Cardinality(At("increment", s)) = 0
    BY FS_EmptySet DEF FullyGraded
  <2>2. Cardinality(graded[s]) \in Nat /\ Cardinality(graded[s]) >= total[s]
    BY GradedFinite, FS_CardinalityType DEF FullyGraded
  <2> QED BY <2>1, <2>2 DEF TypeOK, GradesCounted, OngoingHasCards
<1> QED BY <1>1, <1>2, InitTypeOK, StepTypeOK, StepOngoingHasCards, GradesAreCounted, PTL DEF Spec

-----------------------------------------------------------------------------
(* Every grade is logged.  A request marks a card only after it has         *)
(* rescheduled and logged it, and rows of the log are never deleted.        *)

\* What a review has done by the time it reaches its later statements.
ReviewsLogged ==
  \A p \in Proc :
    /\ pc[p] \in {"insertLog", "markReviewed"} => reps[job[p].card] > 0
    /\ pc[p] = "markReviewed" => LogsOf(job[p].session, job[p].card) # {}

\* Each step keeps the log complete.
LEMMA StepGradedIsLogged ==
  TypeOK /\ ReviewsLogged /\ GradedIsLogged /\ [Next]_vars => (ReviewsLogged /\ GradedIsLogged)'
<1> SUFFICES ASSUME TypeOK, ReviewsLogged, GradedIsLogged, [Next]_vars
             PROVE  (ReviewsLogged /\ GradedIsLogged)'
  OBVIOUS
<1> USE DEF TypeOK, ReviewsLogged, GradedIsLogged, LogsOf, OnSession, Selection, NewSession,
            Review, Summary
<1>1. ASSUME NEW p \in Proc, AbandonStudySession(p) PROVE (ReviewsLogged /\ GradedIsLogged)'
  BY <1>1 DEF AbandonStudySession, Enter
<1>2. ASSUME NEW p \in Proc, SelectCards(p) PROVE (ReviewsLogged /\ GradedIsLogged)'
  BY <1>2 DEF SelectCards, Enter, Return
<1>3. ASSUME NEW p \in Proc, NEW s \in Session, CreateStudySession(p, s) PROVE (ReviewsLogged /\ GradedIsLogged)'
  BY <1>3 DEF CreateStudySession, Enter
<1>4. ASSUME NEW p \in Proc, NEW c \in Card, InsertSessionCard(p, c) PROVE (ReviewsLogged /\ GradedIsLogged)'
  BY <1>4 DEF InsertSessionCard, Enter, Return
<1>5. ASSUME NEW p \in Proc, ReadSessionCard(p) PROVE (ReviewsLogged /\ GradedIsLogged)'
  <2>1. Goto(p, "readUserCard") \/ Return(p)
    BY <1>5 DEF ReadSessionCard
  <2>2. UNCHANGED <<graded, reps, revlogs>>
    BY <1>5 DEF ReadSessionCard
  <2> QED BY <2>1, <2>2 DEF Enter, Goto, Return
<1>6. ASSUME NEW p \in Proc, ReadUserCard(p) PROVE (ReviewsLogged /\ GradedIsLogged)'
  BY <1>6 DEF ReadUserCard, Enter
<1>7. ASSUME NEW p \in Proc, UpdateUserCardFSRS(p) PROVE (ReviewsLogged /\ GradedIsLogged)'
  BY <1>7 DEF UpdateUserCardFSRS, Enter
<1>8. ASSUME NEW p \in Proc, InsertRevlog(p) PROVE (ReviewsLogged /\ GradedIsLogged)'
  <2> DEFINE s == job[p].session
             c == job[p].card
             row == [session |-> s, card |-> c, no |-> Cardinality(LogsOf(s, c))]
  <2>1. revlogs' = revlogs \cup {row}
    BY <1>8 DEF InsertRevlog
  <2>2. row.session = s /\ row.card = c
    OBVIOUS
  <2>3. /\ Goto(p, "markReviewed") /\ pc[p] = "insertLog"
        /\ UNCHANGED <<graded, reps>>
    BY <1>8 DEF InsertRevlog
  <2> HIDE DEF row
  <2> QED BY <2>1, <2>2, <2>3 DEF Goto
<1>9. ASSUME NEW p \in Proc, MarkSessionCardReviewed(p) PROVE (ReviewsLogged /\ GradedIsLogged)'
  BY <1>9 DEF MarkSessionCardReviewed, Goto
<1>10. ASSUME NEW p \in Proc, IncrementCompletedCards(p) PROVE (ReviewsLogged /\ GradedIsLogged)'
  BY <1>10 DEF IncrementCompletedCards, Enter, Return
<1>11. ASSUME NEW p \in Proc, FinishStudySession(p) PROVE (ReviewsLogged /\ GradedIsLogged)'
  BY <1>11 DEF FinishStudySession, Goto
<1>12. ASSUME NEW p \in Proc, SummarizeRevlogsBySession(p) PROVE (ReviewsLogged /\ GradedIsLogged)'
  BY <1>12 DEF SummarizeRevlogsBySession, Enter
<1>13. ASSUME NEW p \in Proc, UpsertStudySessionMetrics(p) PROVE (ReviewsLogged /\ GradedIsLogged)'
  BY <1>13 DEF UpsertStudySessionMetrics, Enter, Return
<1>14. ASSUME NEW p \in Proc, HandlerStops(p) PROVE (ReviewsLogged /\ GradedIsLogged)'
  BY <1>14 DEF HandlerStops, Enter, Return
<1>15. ASSUME NEW p \in Proc, StartSession(p) PROVE (ReviewsLogged /\ GradedIsLogged)'
  BY <1>15 DEF StartSession, Enter
<1>16. ASSUME NEW p \in Proc, NEW s \in Session, FinishSession(p, s) PROVE (ReviewsLogged /\ GradedIsLogged)'
  BY <1>16 DEF FinishSession, Enter
<1>17. ASSUME NEW p \in Proc, NEW s \in Session, NEW c \in Card, ReviewCard(p, s, c) PROVE (ReviewsLogged /\ GradedIsLogged)'
  BY <1>17 DEF ReviewCard, Enter
<1>18. CASE UNCHANGED vars
  BY <1>18 DEF vars
<1> QED
  BY <1>1, <1>2, <1>3, <1>4, <1>5, <1>6, <1>7, <1>8, <1>9, <1>10, <1>11, <1>12, <1>13, <1>14, <1>15, <1>16, <1>17, <1>18
     DEF Next, HandlerStep

\* No card is greyed out without its review on record.
THEOREM GradedAreLogged == Spec => []GradedIsLogged
<1>1. Init => ReviewsLogged /\ GradedIsLogged
  BY DEF Init, ReviewsLogged, GradedIsLogged
<1> QED BY <1>1, InitTypeOK, StepTypeOK, StepGradedIsLogged, PTL DEF Spec

-----------------------------------------------------------------------------
(* The schedule is never ahead of the log.  What a request has read may be  *)
(* old, but what is accounted for only grows, so an old count is safe, too. *)

\* The numbers of a card's logs in a session are used up: a new one is new.
LogsAreNumbered ==
  \A r \in revlogs : r.no < Cardinality(LogsOf(r.session, r.card))

\* The reviews of card c that are logged, about to be, or given up on.
LogsOfCard(c) == {r \in revlogs : r.card = c}
Logging(c) == {p \in Proc : pc[p] = "insertLog" /\ job[p].card = c}
Accounted(c) == Cardinality(LogsOfCard(c)) + Cardinality(Logging(c)) + faults

\* What a request has read of a card's state is accounted for.
ReadIsAccounted ==
  \A p \in Proc : pc[p] = "updateCard" => job[p].reps <= Accounted(job[p].card)

\* Subsets of the log, and sets of requests, are finite.
LEMMA LogsFinite ==
  ASSUME TypeOK
  PROVE  /\ \A s, c : IsFiniteSet(LogsOf(s, c))
         /\ \A c : IsFiniteSet(LogsOfCard(c)) /\ IsFiniteSet(Logging(c))
         /\ \A s : IsFiniteSet(SessionLogs(s))
  BY FiniteAssumption, FS_Subset DEF TypeOK, LogsOf, LogsOfCard, Logging, SessionLogs

\* The row a request inserts is a new one, and the only one.
LEMMA NewLog ==
  ASSUME TypeOK, LogsAreNumbered, NEW p \in Proc, InsertRevlog(p)
  PROVE  \E r \in Revlog \ revlogs :
           /\ revlogs' = revlogs \cup {r}
           /\ r.session = job[p].session /\ r.card = job[p].card
           /\ r.no = Cardinality(LogsOf(r.session, r.card))
<1> DEFINE s == job[p].session
           c == job[p].card
           row == [session |-> s, card |-> c, no |-> Cardinality(LogsOf(s, c))]
<1>1. Cardinality(LogsOf(s, c)) \in Nat
  BY LogsFinite, FS_CardinalityType
<1>2. s \in Session /\ c \in Card
  BY DEF InsertRevlog, TypeOK, Review
<1>3. row \in Revlog
  BY <1>1, <1>2 DEF Revlog
<1>4. row \notin revlogs
  BY <1>1 DEF LogsAreNumbered
<1>5. revlogs' = revlogs \cup {row}
  BY DEF InsertRevlog
<1> QED BY <1>3, <1>4, <1>5

\* Only one statement writes the log; a card's state changes by another, and
\* any other step leaves both, and who is about to log, alone, or fails.
LEMMA WhoLogs ==
  ASSUME TypeOK, [Next]_vars
  PROVE  \/ \E p \in Proc : InsertRevlog(p)
         \/ \E p \in Proc : UpdateUserCardFSRS(p)
         \/ \E p \in Proc : HandlerStops(p)
         \/ /\ UNCHANGED <<revlogs, reps, faults>>
            /\ \A c : Logging(c)' = Logging(c)
<1> DEFINE Quiet == UNCHANGED <<revlogs, reps, faults>> /\ \A c : Logging(c)' = Logging(c)
\* A request moves from one statement to another, neither of them insertLog.
<1>1. ASSUME NEW p \in Proc, pc[p] # "insertLog",
             NEW where, where # "insertLog", pc' = [pc EXCEPT ![p] = where],
             \A q \in Proc \ {p} : job'[q] = job[q]
      PROVE  \A c : Logging(c)' = Logging(c)
  BY <1>1 DEF Logging, TypeOK
<1>2. ASSUME NEW p \in Proc, NEW where, NEW j, Enter(p, where, j)
      PROVE  pc' = [pc EXCEPT ![p] = where] /\ \A q \in Proc \ {p} : job'[q] = job[q]
  BY <1>2 DEF Enter, TypeOK
<1>3. ASSUME NEW p \in Proc, NEW where, Goto(p, where)
      PROVE  pc' = [pc EXCEPT ![p] = where] /\ \A q \in Proc \ {p} : job'[q] = job[q]
  BY <1>3 DEF Goto
<1>4. ASSUME NEW p \in Proc, AbandonStudySession(p) PROVE Quiet
  BY <1>1, <1>2, <1>4 DEF AbandonStudySession
<1>5. ASSUME NEW p \in Proc, SelectCards(p) PROVE Quiet
  BY <1>1, <1>2, <1>5 DEF SelectCards, Return
<1>6. ASSUME NEW p \in Proc, NEW s \in Session, CreateStudySession(p, s) PROVE Quiet
  BY <1>1, <1>2, <1>6 DEF CreateStudySession
<1>7. ASSUME NEW p \in Proc, NEW c \in Card, InsertSessionCard(p, c) PROVE Quiet
  BY <1>1, <1>2, <1>7 DEF InsertSessionCard, Return
<1>8. ASSUME NEW p \in Proc, ReadSessionCard(p) PROVE Quiet
  BY <1>1, <1>2, <1>3, <1>8 DEF ReadSessionCard, Return
<1>9. ASSUME NEW p \in Proc, ReadUserCard(p) PROVE Quiet
  BY <1>1, <1>2, <1>9 DEF ReadUserCard
<1>10. ASSUME NEW p \in Proc, MarkSessionCardReviewed(p) PROVE Quiet
  BY <1>1, <1>3, <1>10 DEF MarkSessionCardReviewed
<1>11. ASSUME NEW p \in Proc, IncrementCompletedCards(p) PROVE Quiet
  BY <1>1, <1>2, <1>11 DEF IncrementCompletedCards, Return
<1>12. ASSUME NEW p \in Proc, FinishStudySession(p) PROVE Quiet
  BY <1>1, <1>3, <1>12 DEF FinishStudySession
<1>13. ASSUME NEW p \in Proc, SummarizeRevlogsBySession(p) PROVE Quiet
  BY <1>1, <1>2, <1>13 DEF SummarizeRevlogsBySession
<1>14. ASSUME NEW p \in Proc, UpsertStudySessionMetrics(p) PROVE Quiet
  BY <1>1, <1>2, <1>14 DEF UpsertStudySessionMetrics, Return
<1>15. ASSUME NEW p \in Proc, StartSession(p) PROVE Quiet
  <2>1. \E to \in {"abandon", "select"} : \E j : Enter(p, to, j)
    BY <1>15 DEF StartSession
  <2> QED BY <1>1, <1>2, <1>15, <2>1 DEF StartSession
<1>16. ASSUME NEW p \in Proc, NEW s \in Session, FinishSession(p, s) PROVE Quiet
  BY <1>1, <1>2, <1>16 DEF FinishSession
<1>17. ASSUME NEW p \in Proc, NEW s \in Session, NEW c \in Card, ReviewCard(p, s, c) PROVE Quiet
  BY <1>1, <1>2, <1>17 DEF ReviewCard
<1>18. ASSUME UNCHANGED vars PROVE Quiet
  BY <1>18 DEF vars, Logging
<1> HIDE DEF Quiet
<1>19. ASSUME NEW p \in Proc, HandlerStep(p)
       PROVE  InsertRevlog(p) \/ UpdateUserCardFSRS(p) \/ Quiet
  BY <1>4, <1>5, <1>6, <1>7, <1>8, <1>9, <1>10, <1>11, <1>12, <1>13, <1>14, <1>19 DEF HandlerStep
<1>20. \/ \E p \in Proc : InsertRevlog(p) \/ UpdateUserCardFSRS(p) \/ HandlerStops(p)
       \/ Quiet
  BY <1>15, <1>16, <1>17, <1>18, <1>19 DEF Next
<1> QED BY <1>20 DEF Quiet

\* Only its own reads bring a request to the statements that use them.
LEMMA WhoReads ==
  ASSUME TypeOK, [Next]_vars, NEW q \in Proc,
         NEW where \in {"updateCard", "recordMetrics"}, pc'[q] = where
  PROVE  \/ pc[q] = where /\ job'[q] = job[q]
         \/ where = "updateCard" /\ ReadUserCard(q)
         \/ where = "recordMetrics" /\ SummarizeRevlogsBySession(q)
<1> DEFINE Still == pc[q] = where /\ job'[q] = job[q]
<1>1. ASSUME NEW p \in Proc, NEW to, to # where, NEW j, Enter(p, to, j) PROVE Still
  BY <1>1 DEF Enter, TypeOK
<1>2. ASSUME NEW p \in Proc, NEW to, to # where, Goto(p, to) PROVE Still
  BY <1>2 DEF Goto, TypeOK
<1>3. ASSUME NEW p \in Proc, p # q, NEW to, NEW j, Enter(p, to, j) PROVE Still
  BY <1>3 DEF Enter, TypeOK
<1> HIDE DEF Still
<1>4. ASSUME NEW p \in Proc, AbandonStudySession(p) PROVE Still
  BY <1>1, <1>4 DEF AbandonStudySession
<1>5. ASSUME NEW p \in Proc, SelectCards(p) PROVE Still
  BY <1>1, <1>5 DEF SelectCards, Return
<1>6. ASSUME NEW p \in Proc, NEW s \in Session, CreateStudySession(p, s) PROVE Still
  BY <1>1, <1>6 DEF CreateStudySession
<1>7. ASSUME NEW p \in Proc, NEW c \in Card, InsertSessionCard(p, c) PROVE Still
  BY <1>1, <1>7 DEF InsertSessionCard, Return
<1>8. ASSUME NEW p \in Proc, ReadSessionCard(p) PROVE Still
  BY <1>1, <1>2, <1>8 DEF ReadSessionCard, Return
<1>9. ASSUME NEW p \in Proc, ReadUserCard(p)
      PROVE  Still \/ (where = "updateCard" /\ ReadUserCard(q))
  <2>1. \E j : Enter(p, "updateCard", j)
    BY <1>9 DEF ReadUserCard
  <2> QED BY <1>1, <1>3, <1>9, <2>1
<1>10. ASSUME NEW p \in Proc, UpdateUserCardFSRS(p) PROVE Still
  BY <1>1, <1>10 DEF UpdateUserCardFSRS
<1>11. ASSUME NEW p \in Proc, InsertRevlog(p) PROVE Still
  BY <1>2, <1>11 DEF InsertRevlog
<1>12. ASSUME NEW p \in Proc, MarkSessionCardReviewed(p) PROVE Still
  BY <1>2, <1>12 DEF MarkSessionCardReviewed
<1>13. ASSUME NEW p \in Proc, IncrementCompletedCards(p) PROVE Still
  BY <1>1, <1>13 DEF IncrementCompletedCards, Return
<1>14. ASSUME NEW p \in Proc, FinishStudySession(p) PROVE Still
  BY <1>2, <1>14 DEF FinishStudySession
<1>15. ASSUME NEW p \in Proc, SummarizeRevlogsBySession(p)
       PROVE  Still \/ (where = "recordMetrics" /\ SummarizeRevlogsBySession(q))
  <2>1. \E j : Enter(p, "recordMetrics", j)
    BY <1>15 DEF SummarizeRevlogsBySession
  <2> QED BY <1>1, <1>3, <1>15, <2>1
<1>16. ASSUME NEW p \in Proc, UpsertStudySessionMetrics(p) PROVE Still
  BY <1>1, <1>16 DEF UpsertStudySessionMetrics, Return
<1>17. ASSUME NEW p \in Proc, HandlerStops(p) PROVE Still
  BY <1>1, <1>17 DEF HandlerStops, Return
<1>18. ASSUME NEW p \in Proc, StartSession(p) PROVE Still
  <2>1. \E to \in {"abandon", "select"} : \E j : Enter(p, to, j)
    BY <1>18 DEF StartSession
  <2> QED BY <1>1, <2>1
<1>19. ASSUME NEW p \in Proc, NEW s \in Session, FinishSession(p, s) PROVE Still
  BY <1>1, <1>19 DEF FinishSession
<1>20. ASSUME NEW p \in Proc, NEW s \in Session, NEW c \in Card, ReviewCard(p, s, c) PROVE Still
  BY <1>1, <1>20 DEF ReviewCard
<1>21. ASSUME UNCHANGED vars PROVE Still
  BY <1>21 DEF vars, Still
<1> DEFINE Reads == \/ where = "updateCard" /\ ReadUserCard(q)
                    \/ where = "recordMetrics" /\ SummarizeRevlogsBySession(q)
<1>22. ASSUME NEW p \in Proc, HandlerStep(p) PROVE Still \/ Reads
  BY <1>4, <1>5, <1>6, <1>7, <1>8, <1>9, <1>10, <1>11, <1>12, <1>13, <1>14, <1>15, <1>16, <1>22
     DEF HandlerStep
<1> HIDE DEF Reads
<1>23. Still \/ Reads
  BY <1>17, <1>18, <1>19, <1>20, <1>21, <1>22 DEF Next
<1> QED BY <1>23 DEF Still, Reads

\* Every step keeps the logs numbered.
LEMMA StepNumbered ==
  ASSUME TypeOK, TypeOK', LogsAreNumbered, [Next]_vars
  PROVE  LogsAreNumbered'
<1>1. ASSUME NEW p \in Proc, InsertRevlog(p) PROVE LogsAreNumbered'
  <2>1. PICK r \in Revlog \ revlogs :
          /\ revlogs' = revlogs \cup {r}
          /\ r.no = Cardinality(LogsOf(r.session, r.card))
    BY <1>1, NewLog
  <2>2. SUFFICES ASSUME NEW x \in revlogs'
                 PROVE  x.no < Cardinality(LogsOf(x.session, x.card)')
    BY DEF LogsAreNumbered
  <2> DEFINE Old == LogsOf(x.session, x.card)
  <2>3. IsFiniteSet(Old) /\ Cardinality(Old) \in Nat
    BY LogsFinite, FS_CardinalityType
  <2>4. CASE x = r
    <3>1. Old' = Old \cup {r} /\ r \notin Old
      BY <2>1, <2>4 DEF LogsOf
    <3>2. Cardinality(Old') = Cardinality(Old) + 1
      BY <2>3, <3>1, CardinalityAdd
    <3> QED BY <2>1, <2>3, <2>4, <3>2
  <2>5. CASE x \in revlogs
    <3>1. Old' = Old \/ (Old' = Old \cup {r} /\ r \notin Old)
      BY <2>1 DEF LogsOf
    <3>2. Cardinality(Old') \in Nat /\ Cardinality(Old') >= Cardinality(Old)
      BY <2>3, <3>1, CardinalityAdd
    <3>3. x.no \in Nat /\ x.no < Cardinality(Old)
      BY <2>5 DEF LogsAreNumbered, TypeOK, Revlog
    <3> QED BY <2>3, <3>2, <3>3
  <2>6. x = r \/ x \in revlogs
    BY <2>1, <2>2
  <2> HIDE DEF Old
  <2> QED BY <2>4, <2>5, <2>6
<1>2. CASE UNCHANGED revlogs
  BY <1>2 DEF LogsAreNumbered, LogsOf
<1> QED BY <1>1, <1>2, WhoLogs DEF UpdateUserCardFSRS, HandlerStops

\* What is accounted for never shrinks, and grows when a card is rescheduled.
LEMMA AccountedGrows ==
  ASSUME TypeOK, TypeOK', LogsAreNumbered, [Next]_vars, NEW c
  PROVE  /\ Accounted(c) \in Nat /\ Accounted(c)' \in Nat
         /\ Accounted(c)' >= Accounted(c)
         /\ \A p \in Proc : UpdateUserCardFSRS(p) /\ job[p].card = c =>
              Accounted(c)' = Accounted(c) + 1
<1> DEFINE L == LogsOfCard(c)
           G == Logging(c)
<1>1. /\ IsFiniteSet(L) /\ Cardinality(L) \in Nat
      /\ IsFiniteSet(G) /\ Cardinality(G) \in Nat
      /\ faults \in Nat
  BY LogsFinite, FS_CardinalityType DEF TypeOK
<1>2. ASSUME NEW p \in Proc, InsertRevlog(p)
      PROVE  Accounted(c)' = Accounted(c)
  <2>1. PICK r \in Revlog \ revlogs :
          revlogs' = revlogs \cup {r} /\ r.card = job[p].card
    BY <1>2, NewLog
  <2>2. faults' = faults /\ pc[p] = "insertLog" /\ Goto(p, "markReviewed")
    BY <1>2 DEF InsertRevlog
  <2>3. CASE job[p].card = c
    <3>1. L' = L \cup {r} /\ r \notin L
      BY <2>1, <2>3 DEF LogsOfCard
    <3>2. G' = G \ {p} /\ p \in G
      BY <2>2, <2>3 DEF Logging, Goto, TypeOK
    <3>3. Cardinality(L') = Cardinality(L) + 1 /\ Cardinality(G') = Cardinality(G) - 1
      BY <1>1, <3>1, <3>2, CardinalityAdd, CardinalityRemove
    <3> HIDE DEF L, G
    <3>4. Cardinality(L') + Cardinality(G') + faults' = Cardinality(L) + Cardinality(G) + faults
      BY <1>1, <2>2, <3>3
    <3> QED BY <3>4 DEF Accounted, L, G
  <2>4. CASE job[p].card # c
    <3>1. L' = L /\ G' = G
      BY <2>1, <2>2, <2>4 DEF LogsOfCard, Logging, Goto, TypeOK
    <3> QED BY <2>2, <3>1 DEF Accounted
  <2> QED BY <2>3, <2>4
<1>3. ASSUME NEW p \in Proc, UpdateUserCardFSRS(p)
      PROVE  Accounted(c)' = IF job[p].card = c THEN Accounted(c) + 1 ELSE Accounted(c)
  <2>1. L' = L /\ faults' = faults
    BY <1>3 DEF UpdateUserCardFSRS, LogsOfCard
  <2>2. pc[p] = "updateCard" /\ job[p] \in Review
    BY <1>3 DEF UpdateUserCardFSRS, TypeOK
  <2>3. pc' = [pc EXCEPT ![p] = "insertLog"] /\ job' = [job EXCEPT ![p] = [job[p] EXCEPT !.reps = 0]]
    BY <1>3 DEF UpdateUserCardFSRS, Enter
  <2>4. job'[p].card = job[p].card
    BY <2>2, <2>3 DEF TypeOK, Review
  <2>5. p \notin G /\ G' = IF job[p].card = c THEN G \cup {p} ELSE G
    BY <2>2, <2>3, <2>4 DEF Logging, TypeOK
  <2>6. Cardinality(G') = IF job[p].card = c THEN Cardinality(G) + 1 ELSE Cardinality(G)
    BY <1>1, <2>5, CardinalityAdd
  <2> HIDE DEF L, G
  <2>7. Cardinality(L') + Cardinality(G') + faults' =
          Cardinality(L) + Cardinality(G) + faults + IF job[p].card = c THEN 1 ELSE 0
    BY <1>1, <2>1, <2>6
  <2>8. Accounted(c) = Cardinality(L) + Cardinality(G) + faults
        /\ Accounted(c)' = Cardinality(L') + Cardinality(G') + faults'
    BY DEF Accounted, L, G
  <2> QED BY <1>1, <2>7, <2>8
<1>4. ASSUME NEW p \in Proc, HandlerStops(p)
      PROVE  Accounted(c)' >= Accounted(c)
  <2>1. L' = L /\ faults' = faults + 1
    BY <1>4 DEF HandlerStops, LogsOfCard
  <2>2. G' = G \ {p}
    BY <1>4 DEF HandlerStops, Return, Enter, Logging, TypeOK
  <2>3. Cardinality(G') \in Nat /\ Cardinality(G) <= Cardinality(G') + 1
    BY <1>1, <2>2, CardinalityRemove
  <2> HIDE DEF L, G
  <2>4. Cardinality(L') + Cardinality(G') + faults' >= Cardinality(L) + Cardinality(G) + faults
    BY <1>1, <2>1, <2>3
  <2> QED BY <2>4 DEF Accounted, L, G
<1>5. ASSUME UNCHANGED <<revlogs, reps, faults>>, Logging(c)' = Logging(c)
      PROVE  Accounted(c)' = Accounted(c)
  BY <1>5 DEF Accounted, LogsOfCard
<1>6. Accounted(c) \in Nat
  BY <1>1 DEF Accounted
<1>7. Accounted(c)' \in Nat
  <2>1. TypeOK' => /\ Cardinality(LogsOfCard(c)') \in Nat
                   /\ Cardinality(Logging(c)') \in Nat
                   /\ faults' \in Nat
    BY FiniteAssumption, FS_Subset, FS_CardinalityType DEF TypeOK, LogsOfCard, Logging
  <2> QED BY <2>1 DEF Accounted
<1>8. \A p \in Proc : UpdateUserCardFSRS(p) /\ job[p].card = c => Accounted(c)' = Accounted(c) + 1
  BY <1>3
<1>9. Accounted(c)' >= Accounted(c)
  BY <1>2, <1>3, <1>4, <1>5, <1>6, WhoLogs
<1> QED BY <1>6, <1>7, <1>8, <1>9

\* Every step keeps the schedule, and what was read of it, accounted for.
LEMMA StepScheduleIsLogged ==
  TypeOK /\ TypeOK' /\ LogsAreNumbered /\ ReadIsAccounted /\ ScheduleIsLogged /\ [Next]_vars
    => (ReadIsAccounted /\ ScheduleIsLogged)'
<1> SUFFICES ASSUME TypeOK, TypeOK', LogsAreNumbered, ReadIsAccounted, ScheduleIsLogged,
                    [Next]_vars
             PROVE  (ReadIsAccounted /\ ScheduleIsLogged)'
  OBVIOUS
<1> DEFINE Schedule == \A c \in Card : reps[c] <= Accounted(c)
<1>1. ScheduleIsLogged <=> Schedule
  BY DEF ScheduleIsLogged, Accounted, LogsOfCard, Logging
<1>2. ScheduleIsLogged' <=> Schedule'
  BY DEF ScheduleIsLogged, Accounted, LogsOfCard, Logging
<1>3. \A c \in Card : reps[c] \in Nat /\ reps'[c] \in Nat
  BY DEF TypeOK
<1>4. Schedule'
  <2>1. ASSUME NEW c \in Card, reps'[c] = reps[c] PROVE reps'[c] <= Accounted(c)'
    BY <1>1, <1>3, <2>1, AccountedGrows
  <2>2. ASSUME NEW p \in Proc, UpdateUserCardFSRS(p), NEW c \in Card
        PROVE  reps'[c] <= Accounted(c)'
    <3>1. CASE c # job[p].card
      <4>1. reps'[c] = reps[c]
        BY <2>2, <3>1 DEF UpdateUserCardFSRS, TypeOK
      <4> QED BY <2>1, <4>1
    <3>2. CASE c = job[p].card
      <4>1. reps'[c] = job[p].reps + 1
        BY <2>2, <3>2 DEF UpdateUserCardFSRS, TypeOK
      <4>2. job[p].reps \in Nat /\ job[p].reps <= Accounted(c)
        BY <2>2, <3>2 DEF UpdateUserCardFSRS, ReadIsAccounted, TypeOK, Review
      <4>3. Accounted(c)' = Accounted(c) + 1 /\ Accounted(c) \in Nat
        BY <2>2, <3>2, AccountedGrows
      <4> QED BY <4>1, <4>2, <4>3
    <3> QED BY <3>1, <3>2
  <2>3. UNCHANGED reps \/ \E p \in Proc : UpdateUserCardFSRS(p)
    BY WhoLogs DEF InsertRevlog, HandlerStops
  <2> QED BY <2>1, <2>2, <2>3
<1>5. ReadIsAccounted'
  <2> SUFFICES ASSUME NEW q \in Proc, pc'[q] = "updateCard", NEW c, c = job'[q].card
               PROVE  job'[q].reps <= Accounted(c)'
    BY DEF ReadIsAccounted, Accounted, LogsOfCard, Logging
  <2>1. CASE pc[q] = "updateCard" /\ job'[q] = job[q]
    <3>1. job[q].reps \in Nat /\ job[q].reps <= Accounted(c)
      BY <2>1 DEF ReadIsAccounted, TypeOK, Review
    <3> QED BY <2>1, <3>1, AccountedGrows
  <2>2. CASE ReadUserCard(q)
    <3>1. job[q] \in Review
      BY <2>2 DEF ReadUserCard, TypeOK
    <3>2. job'[q] = [job[q] EXCEPT !.reps = reps[job[q].card]] /\ UNCHANGED reps
      BY <2>2 DEF ReadUserCard, Enter, TypeOK
    <3>3. c \in Card /\ job'[q].reps = reps'[c]
      BY <3>1, <3>2 DEF Review
    <3> QED BY <1>4, <3>3
  <2>3. (pc[q] = "updateCard" /\ job'[q] = job[q]) \/ ReadUserCard(q)
    BY WhoReads
  <2> QED BY <2>1, <2>2, <2>3
<1> QED BY <1>2, <1>4, <1>5

\* A card's state is never ahead of its log, but for the requests between the
\* two writes and those that failed: whatever reads and writes overlap.
THEOREM SchedulesAreLogged == Spec => []ScheduleIsLogged
<1>1. Init => LogsAreNumbered /\ ReadIsAccounted /\ ScheduleIsLogged
  <2> SUFFICES ASSUME Init PROVE LogsAreNumbered /\ ReadIsAccounted /\ ScheduleIsLogged
    OBVIOUS
  <2>1. LogsAreNumbered /\ ReadIsAccounted
    BY DEF Init, LogsAreNumbered, ReadIsAccounted
  <2>2. ASSUME NEW c \in Card PROVE reps[c] <= Accounted(c)
    <3>1. LogsOfCard(c) = {} /\ Logging(c) = {} /\ faults = 0 /\ reps[c] = 0
      BY DEF Init, LogsOfCard, Logging
    <3> QED BY <3>1, FS_EmptySet DEF Accounted
  <2> QED BY <2>1, <2>2 DEF ScheduleIsLogged, Accounted, LogsOfCard, Logging
<1>2. TypeOK /\ TypeOK' /\ LogsAreNumbered /\ [Next]_vars => LogsAreNumbered'
  BY StepNumbered
<1> QED BY <1>1, <1>2, InitTypeOK, StepTypeOK, StepScheduleIsLogged, PTL DEF Spec
-----------------------------------------------------------------------------
(* A summary counts logs, and logs are never taken back.                    *)

\* What a request is about to record has been logged.
SummaryIsLogged ==
  \A p \in Proc :
    pc[p] = "recordMetrics" => job[p].reviewed <= Cardinality(SessionLogs(job[p].session))

\* The log of a session only grows.
LEMMA SessionLogsGrow ==
  ASSUME TypeOK, TypeOK', LogsAreNumbered, [Next]_vars, NEW s
  PROVE  /\ Cardinality(SessionLogs(s)) \in Nat /\ Cardinality(SessionLogs(s)') \in Nat
         /\ Cardinality(SessionLogs(s)) <= Cardinality(SessionLogs(s)')
<1>1. SessionLogs(s) \subseteq SessionLogs(s)'
  <2>1. revlogs \subseteq revlogs'
    <3>1. ASSUME NEW p \in Proc, InsertRevlog(p) PROVE revlogs \subseteq revlogs'
      BY <3>1, NewLog
    <3> QED BY <3>1, WhoLogs DEF UpdateUserCardFSRS, HandlerStops
  <2> QED BY <2>1 DEF SessionLogs
<1>2. IsFiniteSet(SessionLogs(s)')
  <2>1. TypeOK' => IsFiniteSet(SessionLogs(s)')
    BY FS_Subset DEF TypeOK, SessionLogs
  <2> QED BY <2>1
<1> QED BY <1>1, <1>2, LogsFinite, FS_Subset, FS_CardinalityType

\* Every step keeps the metrics, and what is about to become one, within the log.
LEMMA StepMetricsNotInflated ==
  TypeOK /\ TypeOK' /\ LogsAreNumbered /\ SummaryIsLogged /\ MetricsNotInflated /\ [Next]_vars
    => (SummaryIsLogged /\ MetricsNotInflated)'
<1> SUFFICES ASSUME TypeOK, TypeOK', LogsAreNumbered, SummaryIsLogged, MetricsNotInflated,
                    [Next]_vars
             PROVE  (SummaryIsLogged /\ MetricsNotInflated)'
  OBVIOUS
<1>1. ASSUME NEW p \in Proc, UpsertStudySessionMetrics(p) PROVE MetricsNotInflated'
  <2>1. job[p].reviewed \in Nat /\ job[p].reviewed <= Cardinality(SessionLogs(job[p].session))
    BY <1>1 DEF UpsertStudySessionMetrics, SummaryIsLogged, TypeOK, Summary
  <2>2. metrics' = [metrics EXCEPT ![job[p].session] = job[p].reviewed] /\ UNCHANGED revlogs
    BY <1>1 DEF UpsertStudySessionMetrics
  <2>3. \A s : SessionLogs(s)' = SessionLogs(s)
    BY <2>2 DEF SessionLogs
  <2> QED BY <2>1, <2>2, <2>3 DEF MetricsNotInflated, TypeOK
<1>2. ASSUME UNCHANGED metrics PROVE MetricsNotInflated'
  <2> SUFFICES ASSUME NEW s \in Session PROVE metrics[s] <= Cardinality(SessionLogs(s)')
    BY <1>2 DEF MetricsNotInflated
  <2>1. metrics[s] \in Nat /\ metrics[s] <= Cardinality(SessionLogs(s))
    BY DEF MetricsNotInflated, TypeOK
  <2> QED BY <2>1, SessionLogsGrow
<1>3. MetricsNotInflated'
  <2>1. UNCHANGED metrics \/ \E p \in Proc : UpsertStudySessionMetrics(p)
    BY DEF Next, HandlerStep, vars, AbandonStudySession, SelectCards, CreateStudySession,
       InsertSessionCard, ReadSessionCard, ReadUserCard, UpdateUserCardFSRS, InsertRevlog,
       MarkSessionCardReviewed, IncrementCompletedCards, FinishStudySession,
       SummarizeRevlogsBySession, HandlerStops, StartSession, FinishSession, ReviewCard
  <2> QED BY <1>1, <1>2, <2>1
<1>4. SummaryIsLogged'
  <2> SUFFICES ASSUME NEW q \in Proc, pc'[q] = "recordMetrics", NEW s, s = job'[q].session
               PROVE  job'[q].reviewed <= Cardinality(SessionLogs(s)')
    BY DEF SummaryIsLogged, SessionLogs
  <2>1. CASE pc[q] = "recordMetrics" /\ job'[q] = job[q]
    <3>1. job[q].reviewed \in Nat /\ job[q].reviewed <= Cardinality(SessionLogs(s))
      BY <2>1 DEF SummaryIsLogged, TypeOK, Summary
    <3> QED BY <2>1, <3>1, SessionLogsGrow
  <2>2. CASE SummarizeRevlogsBySession(q)
    <3>1. job'[q] = [session |-> job[q].session,
                     reviewed |-> Cardinality(SessionLogs(job[q].session))]
          /\ UNCHANGED revlogs
      BY <2>2 DEF SummarizeRevlogsBySession, Enter, TypeOK
    <3>2. SessionLogs(s)' = SessionLogs(s) /\ Cardinality(SessionLogs(s)) \in Nat
      BY <3>1, SessionLogsGrow DEF SessionLogs
    <3>3. job'[q].reviewed = Cardinality(SessionLogs(s))
      BY <3>1
    <3> QED BY <3>2, <3>3
  <2>3. (pc[q] = "recordMetrics" /\ job'[q] = job[q]) \/ SummarizeRevlogsBySession(q)
    BY WhoReads
  <2> QED BY <2>1, <2>2, <2>3
<1> QED BY <1>3, <1>4

\* What a finish records, and a creator is paid by, was logged.
THEOREM MetricsAreNotInflated == Spec => []MetricsNotInflated
<1>1. Init => LogsAreNumbered /\ SummaryIsLogged /\ MetricsNotInflated
  <2> SUFFICES ASSUME Init PROVE LogsAreNumbered /\ SummaryIsLogged /\ MetricsNotInflated
    OBVIOUS
  <2>1. \A s \in Session : SessionLogs(s) = {} /\ metrics[s] = 0
    BY DEF Init, SessionLogs
  <2> QED BY <2>1, FS_EmptySet DEF Init, LogsAreNumbered, SummaryIsLogged, MetricsNotInflated
<1>2. TypeOK /\ TypeOK' /\ LogsAreNumbered /\ [Next]_vars => LogsAreNumbered'
  BY StepNumbered
<1> QED BY <1>1, <1>2, InitTypeOK, StepTypeOK, StepMetricsNotInflated, PTL DEF Spec
=============================================================================
