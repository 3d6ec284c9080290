---------------------------- MODULE StudySession ----------------------------
(***************************************************************************)
(* Study sessions of study-service: one user studying one deck.            *)
(*                                                                         *)
(* StartSession closes the ongoing session it finds and opens a new one;   *)
(* ReviewCard grades one of its cards; FinishSession closes it and records *)
(* the figures the revenue share is computed from.  Each of them is a      *)
(* sequence of statements without a transaction, and a double click, a     *)
(* second device or a retry runs several of them at once.  A handler makes *)
(* one statement per step and may stop after any of them.  The user's card *)
(* rows exist from the start: upserting them leaves their state alone.     *)
(***************************************************************************)
EXTENDS Integers, FiniteSets

CONSTANTS
  Session,    \* study_sessions rows
  Card,       \* cards of the deck, each with the user's user_cards row
  Proc,       \* concurrently running request handlers
  MaxFaults   \* bound on failed statements and crashes

ASSUME FiniteAssumption == IsFiniteSet(Card) /\ IsFiniteSet(Proc)
ASSUME BoundsAssumption == MaxFaults \in Nat

VARIABLES
  status,     \* study_sessions.status, "none" before the INSERT
  total,      \* study_sessions.total_cards
  completed,  \* study_sessions.completed_cards
  cards,      \* session_cards rows of the session
  graded,     \* those with a reviewed_at
  reps,       \* user_cards.reps; 0 while the card is new
  revlogs,    \* revlogs rows
  metrics,    \* study_session_metrics.reviewed_cards, 0 before the INSERT
  pc, job,    \* control state and locals of each handler
  faults      \* failed statements and crashes so far

sessionRow == <<status, total, completed>>
vars == <<sessionRow, cards, graded, reps, revlogs, metrics, pc, job, faults>>
-----------------------------------------------------------------------------
SessionStatus == {"none", "ongoing", "completed", "abandoned"}

\* no tells apart the reviews of one card in one session.
Revlog == [session : Session, card : Card, no : Nat]

\* Control points and, for each, the handler's locals: the session found, the
\* cards selected or still to insert, the card reviewed and the reps read (until
\* they are used), the reviews counted.
ReviewPC == {"readSessionCard", "readUserCard", "updateCard", "insertLog",
             "markReviewed", "increment"}
OnSession  == [session : Session]
Selection  == [cards : SUBSET Card]
NewSession == [session : Session, cards : SUBSET Card]
Review     == [session : Session, card : Card, reps : Nat]
Summary    == [session : Session, reviewed : Nat]
NoJob      == [idle |-> TRUE]

TypeOK ==
  /\ status \in [Session -> SessionStatus]
  /\ total \in [Session -> Nat]
  /\ completed \in [Session -> Nat]
  /\ cards \in [Session -> SUBSET Card]
  /\ graded \in [Session -> SUBSET Card]
  /\ reps \in [Card -> Nat]
  /\ revlogs \in SUBSET Revlog /\ IsFiniteSet(revlogs)
  /\ metrics \in [Session -> Nat]
  /\ pc \in [Proc -> {"idle", "abandon", "select", "create", "insertCards",
                      "finish", "summarize", "recordMetrics"} \cup ReviewPC]
  /\ job \in [Proc -> OnSession \cup Selection \cup NewSession \cup Review
                      \cup Summary \cup {NoJob}]
  /\ \A p \in Proc :
       /\ pc[p] \in {"abandon", "finish", "summarize"} => job[p] \in OnSession
       /\ pc[p] = "create" => job[p] \in Selection
       /\ pc[p] = "insertCards" => job[p] \in NewSession
       /\ pc[p] \in ReviewPC => job[p] \in Review
       /\ pc[p] = "recordMetrics" => job[p] \in Summary
  /\ faults \in Nat

Init ==
  /\ status = [s \in Session |-> "none"]
  /\ total = [s \in Session |-> 0]
  /\ completed = [s \in Session |-> 0]
  /\ cards = [s \in Session |-> {}]
  /\ graded = [s \in Session |-> {}]
  /\ reps = [c \in Card |-> 0]
  /\ revlogs = {}
  /\ metrics = [s \in Session |-> 0]
  /\ pc = [p \in Proc |-> "idle"]
  /\ job = [p \in Proc |-> NoJob]
  /\ faults = 0
-----------------------------------------------------------------------------
\* Handler p moves to the control point c with the locals j.
Enter(p, c, j) ==
  /\ pc' = [pc EXCEPT ![p] = c]
  /\ job' = [job EXCEPT ![p] = j]

Goto(p, c) == pc' = [pc EXCEPT ![p] = c] /\ UNCHANGED job

Return(p) == Enter(p, "idle", NoJob)
-----------------------------------------------------------------------------
(* StartSession *)

\* GetOngoingSessionByDeck returns one ongoing session, or none.
StartSession(p) ==
  /\ pc[p] = "idle"
  /\ \/ \E s \in Session : status[s] = "ongoing" /\ Enter(p, "abandon", [session |-> s])
     \/ /\ \A s \in Session : status[s] # "ongoing"
        /\ Enter(p, "select", NoJob)
  /\ UNCHANGED <<sessionRow, cards, graded, reps, revlogs, metrics, faults>>

\* The old session is closed, whatever has become of it since it was read.
AbandonStudySession(p) ==
  /\ pc[p] = "abandon"
  /\ status' = [status EXCEPT ![job[p].session] = "abandoned"]
  /\ Enter(p, "select", NoJob)
  /\ UNCHANGED <<total, completed, cards, graded, reps, revlogs, metrics, faults>>

\* Cards that are due (a scheduled card may be, enough time having passed) and
\* new cards, as many as the limits allow.  None, an empty deck, or no access to
\* the deck ends the request, with the old session already closed.
SelectCards(p) ==
  /\ pc[p] = "select"
  /\ \/ Return(p)
     \/ \E due \in SUBSET {c \in Card : reps[c] > 0},
          new \in SUBSET {c \in Card : reps[c] = 0} :
          /\ due \cup new # {}
          /\ Enter(p, "create", [cards |-> due \cup new])
  /\ UNCHANGED <<sessionRow, cards, graded, reps, revlogs, metrics, faults>>

\* s is the new row's fresh id.
CreateStudySession(p, s) ==
  /\ pc[p] = "create"
  /\ status[s] = "none"
  /\ status' = [status EXCEPT ![s] = "ongoing"]
  /\ total' = [total EXCEPT ![s] = Cardinality(job[p].cards)]
  /\ Enter(p, "insertCards", [session |-> s, cards |-> job[p].cards])
  /\ UNCHANGED <<completed, cards, graded, reps, revlogs, metrics, faults>>

\* The session's cards are inserted concurrently, in any order.
InsertSessionCard(p, c) ==
  /\ pc[p] = "insertCards"
  /\ c \in job[p].cards
  /\ cards' = [cards EXCEPT ![job[p].session] = @ \cup {c}]
  /\ IF job[p].cards = {c}
     THEN Return(p)
     ELSE Enter(p, "insertCards", [session |-> job[p].session, cards |-> job[p].cards \ {c}])
  /\ UNCHANGED <<sessionRow, graded, reps, revlogs, metrics, faults>>
-----------------------------------------------------------------------------
(* ReviewCard *)

\* GetStudySession: only an ongoing session is reviewed.
ReviewCard(p, s, c) ==
  /\ pc[p] = "idle"
  /\ status[s] = "ongoing"
  /\ Enter(p, "readSessionCard", [session |-> s, card |-> c, reps |-> 0])
  /\ UNCHANGED <<sessionRow, cards, graded, reps, revlogs, metrics, faults>>

\* Wrong on purpose: the card is marked before its review is checked.
ReadSessionCardMarking(p) ==
  LET c == job[p].card
      s == job[p].session
  IN  /\ pc[p] = "readSessionCard"
      /\ IF c \in cards[s] \ graded[s]
         THEN graded' = [graded EXCEPT ![s] = @ \cup {c}] /\ Goto(p, "readUserCard")
         ELSE Return(p) /\ UNCHANGED graded
      /\ UNCHANGED <<sessionRow, cards, reps, revlogs, metrics, faults>>

\* GetSessionCardByCard: a card of the session that has not been reviewed.
ReadSessionCard(p) ==
  LET c == job[p].card
      s == job[p].session
  IN  /\ pc[p] = "readSessionCard"
      /\ IF c \in cards[s] \ graded[s] THEN Goto(p, "readUserCard") ELSE Return(p)
      /\ UNCHANGED <<sessionRow, cards, graded, reps, revlogs, metrics, faults>>

ReadUserCard(p) ==
  /\ pc[p] = "readUserCard"
  /\ Enter(p, "updateCard", [job[p] EXCEPT !.reps = reps[job[p].card]])
  /\ UNCHANGED <<sessionRow, cards, graded, reps, revlogs, metrics, faults>>

\* Wrong on purpose: a forgotten card takes a repetition back.
UpdateUserCardFSRSUndone(p) ==
  LET c == job[p].card
  IN  /\ pc[p] = "updateCard"
      /\ \E step \in {1, -1} : reps' = [reps EXCEPT ![c] = job[p].reps + step]
      /\ Goto(p, "insertLog")
      /\ UNCHANGED <<sessionRow, cards, graded, revlogs, metrics, faults>>

\* UpdateUserCardFSRS: the next state is computed from the row as it was read.
UpdateUserCardFSRS(p) ==
  LET c == job[p].card
  IN  /\ pc[p] = "updateCard"
      /\ reps' = [reps EXCEPT ![c] = job[p].reps + 1]
      /\ Enter(p, "insertLog", [job[p] EXCEPT !.reps = 0])
      /\ UNCHANGED <<sessionRow, cards, graded, revlogs, metrics, faults>>

\* The reviews of card c logged for session s.
LogsOf(s, c) == {r \in revlogs : r.session = s /\ r.card = c}

\* Wrong on purpose: one log per session and card, a second one is ignored.
InsertRevlogOnce(p) ==
  LET s == job[p].session
      c == job[p].card
  IN  /\ pc[p] = "insertLog"
      /\ revlogs' = revlogs \cup {[session |-> s, card |-> c, no |-> 0]}
      /\ Goto(p, "markReviewed")
      /\ UNCHANGED <<sessionRow, cards, graded, reps, metrics, faults>>

InsertRevlog(p) ==
  LET s == job[p].session
      c == job[p].card
  IN  /\ pc[p] = "insertLog"
      /\ revlogs' = revlogs \cup {[session |-> s, card |-> c, no |-> Cardinality(LogsOf(s, c))]}
      /\ Goto(p, "markReviewed")
      /\ UNCHANGED <<sessionRow, cards, graded, reps, metrics, faults>>

MarkSessionCardReviewed(p) ==
  /\ pc[p] = "markReviewed"
  /\ graded' = [graded EXCEPT ![job[p].session] = @ \cup {job[p].card}]
  /\ Goto(p, "increment")
  /\ UNCHANGED <<sessionRow, cards, reps, revlogs, metrics, faults>>

\* Wrong on purpose: the session completes one card late.
IncrementCompletedCardsLate(p) ==
  LET s == job[p].session
  IN  /\ pc[p] = "increment"
      /\ completed' = [completed EXCEPT ![s] = @ + 1]
      /\ status' = [status EXCEPT ![s] = IF completed[s] >= total[s] THEN "completed" ELSE @]
      /\ Return(p)
      /\ UNCHANGED <<total, cards, graded, reps, revlogs, metrics, faults>>

\* Wrong on purpose: only an ongoing session counts its reviews.
IncrementCompletedCardsIfOngoing(p) ==
  LET s == job[p].session
  IN  /\ pc[p] = "increment"
      /\ IF status[s] = "ongoing"
         THEN /\ completed' = [completed EXCEPT ![s] = @ + 1]
              /\ status' = [status EXCEPT ![s] =
                              IF completed[s] + 1 >= total[s] THEN "completed" ELSE @]
         ELSE UNCHANGED <<completed, status>>
      /\ Return(p)
      /\ UNCHANGED <<total, cards, graded, reps, revlogs, metrics, faults>>

\* One UPDATE counts the review and completes the session on its last card,
\* whatever the session's status has become.  Then card.reviewed is published,
\* as far as Pub/Sub lets it, and the request returns.
IncrementCompletedCards(p) ==
  LET s == job[p].session
  IN  /\ pc[p] = "increment"
      /\ completed' = [completed EXCEPT ![s] = @ + 1]
      /\ status' = [status EXCEPT ![s] = IF completed[s] + 1 >= total[s] THEN "completed" ELSE @]
      /\ Return(p)
      /\ UNCHANGED <<total, cards, graded, reps, revlogs, metrics, faults>>
-----------------------------------------------------------------------------
(* FinishSession and recordSessionMetrics *)

\* A session that has ended already only gets its metrics recorded again.
FinishSession(p, s) ==
  /\ pc[p] = "idle"
  /\ status[s] # "none"
  /\ Enter(p, IF status[s] = "ongoing" THEN "finish" ELSE "summarize", [session |-> s])
  /\ UNCHANGED <<sessionRow, cards, graded, reps, revlogs, metrics, faults>>

FinishStudySession(p) ==
  /\ pc[p] = "finish"
  /\ status' = [status EXCEPT ![job[p].session] = "completed"]
  /\ Goto(p, "summarize")
  /\ UNCHANGED <<total, completed, cards, graded, reps, revlogs, metrics, faults>>

\* The reviews logged for session s.
SessionLogs(s) == {r \in revlogs : r.session = s}

\* Wrong on purpose: the cards shown are taken for the cards reviewed.
SummarizeByTotal(p) ==
  LET s == job[p].session
  IN  /\ pc[p] = "summarize"
      /\ Enter(p, "recordMetrics", [session |-> s, reviewed |-> total[s]])
      /\ UNCHANGED <<sessionRow, cards, graded, reps, revlogs, metrics, faults>>

SummarizeRevlogsBySession(p) ==
  LET s == job[p].session
  IN  /\ pc[p] = "summarize"
      /\ Enter(p, "recordMetrics", [session |-> s, reviewed |-> Cardinality(SessionLogs(s))])
      /\ UNCHANGED <<sessionRow, cards, graded, reps, revlogs, metrics, faults>>

\* Eligibility for the revenue share (creator known and not the user, cards
\* reviewed, not too fast) is decided here from the same figures.
UpsertStudySessionMetrics(p) ==
  /\ pc[p] = "recordMetrics"
  /\ metrics' = [metrics EXCEPT ![job[p].session] = job[p].reviewed]
  /\ Return(p)
  /\ UNCHANGED <<sessionRow, cards, graded, reps, revlogs, faults>>
-----------------------------------------------------------------------------
\* A statement of handler p fails, or the instance dies.
HandlerStops(p) ==
  /\ pc[p] # "idle"
  /\ faults < MaxFaults
  /\ faults' = faults + 1
  /\ Return(p)
  /\ UNCHANGED <<sessionRow, cards, graded, reps, revlogs, metrics>>

HandlerStep(p) ==
  \/ AbandonStudySession(p)
  \/ SelectCards(p)
  \/ \E s \in Session : CreateStudySession(p, s)
  \/ \E c \in Card : InsertSessionCard(p, c)
  \/ ReadSessionCard(p)
  \/ ReadUserCard(p)
  \/ UpdateUserCardFSRS(p)
  \/ InsertRevlog(p)
  \/ MarkSessionCardReviewed(p)
  \/ IncrementCompletedCards(p)
  \/ FinishStudySession(p)
  \/ SummarizeRevlogsBySession(p)
  \/ UpsertStudySessionMetrics(p)

Next ==
  \/ \E p \in Proc :
       \/ HandlerStep(p)
       \/ HandlerStops(p)
       \/ StartSession(p)
       \/ \E s \in Session : FinishSession(p, s) \/ \E c \in Card : ReviewCard(p, s, c)

Spec == Init /\ [][Next]_vars
-----------------------------------------------------------------------------
(* Properties *)

\* Handlers of session s that are about to make the statement at c.
At(c, s) == {p \in Proc : pc[p] = c /\ job[p].session = s}

\* A card is never greyed out without its review on record: it has been
\* rescheduled and logged, also when the request died half way.
GradedIsLogged ==
  \A s \in Session : \A c \in graded[s] : LogsOf(s, c) # {} /\ reps[c] > 0

\* No grade is forgotten: every graded card is in the session's count, or is
\* about to be, or its request failed.
GradesCounted ==
  \A s \in Session :
    Cardinality(graded[s]) <= completed[s] + Cardinality(At("increment", s)) + faults

\* All cards of session s exist and are graded, and nobody is about to count one.
FullyGraded(s) ==
  /\ status[s] # "none"
  /\ Cardinality(graded[s]) >= total[s]
  /\ At("increment", s) = {}

\* As long as no request fails, a session whose cards are all graded has ended,
\* however its reviews, a finish and a restart of the session overlapped.
GradedSessionEnds ==
  \A s \in Session : faults = 0 /\ FullyGraded(s) => status[s] # "ongoing"

\* A card's FSRS state is never ahead of its review log, except for a request
\* that is between the two writes or died there.
ScheduleIsLogged ==
  \A c \in Card :
    reps[c] <= Cardinality({r \in revlogs : r.card = c})
               + Cardinality({p \in Proc : pc[p] = "insertLog" /\ job[p].card = c})
               + faults

\* Creators are paid for reviews that were logged: what a finish records never
\* exceeds the session's log, whatever ran between the count and the record.
MetricsNotInflated ==
  \A s \in Session : metrics[s] <= Cardinality(SessionLogs(s))
=============================================================================
