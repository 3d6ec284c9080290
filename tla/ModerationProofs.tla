-------------------------- MODULE ModerationProofs --------------------------
(***************************************************************************)
(* Proofs about Moderation for every number of violations, reports,        *)
(* concurrent handlers and failures: types, one link and one decision per  *)
(* appeal, announced outcomes that happened, and an open appeal for every  *)
(* removal before its decision, unless a call failed.                      *)
(***************************************************************************)
EXTENDS Moderation, TLAPS

USE DEF DeckStatus, AppealStatus, Verdict, Message, deckRow, published, messages
USE DEF CardJob, RemovalJob, StatusJob, ReportJob, AppealJob, NoJob

-----------------------------------------------------------------------------
(* Type correctness *)

\* Initially every variable has its type.
LEMMA InitTypeOK == Init => TypeOK
  BY DEF Init, TypeOK

\* Each step keeps the types.
LEMMA StepTypeOK == TypeOK /\ [Next]_vars => TypeOK'
<1> SUFFICES ASSUME TypeOK, [Next]_vars PROVE TypeOK'
  OBVIOUS
<1> USE BoundsAssumption DEF TypeOK
<1>1. ASSUME DeleteDeck PROVE TypeOK'
  BY <1>1 DEF DeleteDeck
<1>2. ASSUME SubmitAppeal PROVE TypeOK'
  BY <1>2 DEF SubmitAppeal
<1>3. ASSUME NEW e \in Event, CardPublished(e) PROVE TypeOK'
  BY <1>3 DEF CardPublished
<1>4. ASSUME NEW r \in Report, HandleReportSubmitted(r) PROVE TypeOK'
  BY <1>4 DEF HandleReportSubmitted
<1>5. ASSUME NEW p \in Proc, DeleteViolatingDeck(p) PROVE TypeOK'
  <2>1. status' \in DeckStatus /\ removedBy' \in {"owner", "moderator"} /\ done' \subseteq DeckStatus
    BY <1>5 DEF DeleteViolatingDeck, AdminUpdateDeckStatus
  <2>2. faults' \in Nat
    BY <1>5 DEF DeleteViolatingDeck, Fail
  <2>3. Goto(p, "publishRemoval") /\ job[p] \in CardJob /\ UNCHANGED <<appeal, reports, published, messages>>
    BY <1>5 DEF DeleteViolatingDeck
  <2> QED BY <2>1, <2>2, <2>3 DEF Goto
<1>6. ASSUME NEW p \in Proc, PublishDeckDeleted(p) PROVE TypeOK'
  BY <1>6 DEF PublishDeckDeleted, Ack, Return
<1>7. ASSUME NEW p \in Proc, CreateDeckAppeal(p) PROVE TypeOK'
  BY <1>7 DEF CreateDeckAppeal, AppealEnsured, Ack, Fail, Goto, Return
<1>8. ASSUME NEW p \in Proc, PublishDeckAppealAvailable(p) PROVE TypeOK'
  BY <1>8 DEF PublishDeckAppealAvailable, AppealEnsured, Ack, Fail, Goto, Return
<1>9. ASSUME NEW p \in Proc, ReadAppeal(p) PROVE TypeOK'
  BY <1>9 DEF ReadAppeal, Goto, Return
<1>10. ASSUME NEW p \in Proc, RestoreDeck(p) PROVE TypeOK'
  BY <1>10 DEF RestoreDeck, AdminUpdateDeckStatus, Goto
<1>11. ASSUME NEW p \in Proc, DecideDeckAppeal(p) PROVE TypeOK'
  BY <1>11 DEF DecideDeckAppeal, Goto, Return
<1>12. ASSUME NEW p \in Proc, PublishAppealDecided(p) PROVE TypeOK'
  <2>1. decisions' \subseteq {"approved", "rejected"}
    BY <1>12 DEF PublishAppealDecided
  <2>2. Return(p) /\ UNCHANGED <<deckRow, appeal, reports, links, told, messages, faults>>
    BY <1>12 DEF PublishAppealDecided
  <2> QED BY <2>1, <2>2 DEF Return
<1>13. ASSUME NEW p \in Proc, SetDeckStatus(p) PROVE TypeOK'
  <2>1. job[p] \in StatusJob \cup ReportJob
    BY <1>13 DEF SetDeckStatus
  <2>2. job[p].verdict \in DeckStatus
    BY <1>13 DEF SetDeckStatus
  <2>3. status' \in DeckStatus /\ removedBy' \in {"owner", "moderator"} /\ done' \subseteq DeckStatus
    BY <1>13, <2>2 DEF SetDeckStatus, AdminUpdateDeckStatus
  <2>4. UNCHANGED <<appeal, reports, published, messages, faults>>
    BY <1>13 DEF SetDeckStatus
  <2>5. Goto(p, "createAppeal") \/ (job[p].kind = "report" /\ Goto(p, "resolve")) \/ Return(p)
    BY <1>13 DEF SetDeckStatus
  <2>6. job[p].kind = "report" => job[p] \in ReportJob
    <3> HIDE DEF TypeOK
    <3>1. \A j \in StatusJob : j.kind = "status" OBVIOUS
    <3> QED BY <2>1, <3>1
  <2>7. CASE Goto(p, "createAppeal")
    BY <2>1, <2>3, <2>4, <2>7 DEF Goto
  <2>8. CASE job[p].kind = "report" /\ Goto(p, "resolve")
    BY <2>3, <2>4, <2>6, <2>8 DEF Goto
  <2>9. CASE Return(p)
    BY <2>3, <2>4, <2>9 DEF Return
  <2> QED BY <2>5, <2>7, <2>8, <2>9
<1>14. ASSUME NEW p \in Proc, BulkResolveReports(p) PROVE TypeOK'
  BY <1>14 DEF BulkResolveReports, Goto, Return
<1>15. ASSUME NEW p \in Proc, PublishReportResolved(p) PROVE TypeOK'
  <2>1. told' \subseteq Verdict
    BY <1>15 DEF PublishReportResolved
  <2>2. Return(p) /\ UNCHANGED <<deckRow, appeal, reports, links, decisions, messages, faults>>
    BY <1>15 DEF PublishReportResolved
  <2> QED BY <2>1, <2>2 DEF Return
<1>16. ASSUME NEW p \in Proc, HandlerStops(p) PROVE TypeOK'
  BY <1>16 DEF HandlerStops, Fail, Return
<1>17. ASSUME NEW p \in Proc, NEW e \in Event, ModerateCard(p, e) PROVE TypeOK'
  BY <1>17 DEF ModerateCard, Enter
<1>18. ASSUME NEW p \in Proc, NEW e \in Event, HandleModerationDeckDeleted(p, e) PROVE TypeOK'
  BY <1>18 DEF HandleModerationDeckDeleted, Enter
<1>19. ASSUME NEW p \in Proc, NEW e \in Event, ModerateDeck(p, e) PROVE TypeOK'
  BY <1>19 DEF ModerateDeck, Enter
<1>20. ASSUME NEW p \in Proc, NEW s \in DeckStatus, UpdateDeckStatus(p, s) PROVE TypeOK'
  BY <1>20 DEF UpdateDeckStatus, Enter
<1>21. ASSUME NEW p \in Proc, NEW v \in Verdict, ProcessReport(p, v) PROVE TypeOK'
  BY <1>21 DEF ProcessReport, Enter
<1>22. ASSUME NEW p \in Proc, NEW v \in {"approved", "rejected"}, DecideAppeal(p, v) PROVE TypeOK'
  BY <1>22 DEF DecideAppeal, Enter
<1>23. CASE UNCHANGED vars
  BY <1>23 DEF vars
<1> HIDE DEF TypeOK
<1> QED
  BY <1>1, <1>2, <1>3, <1>4, <1>5, <1>6, <1>7, <1>8, <1>9, <1>10, <1>11, <1>12, <1>13,
     <1>14, <1>15, <1>16, <1>17, <1>18, <1>19, <1>20, <1>21, <1>22, <1>23
     DEF Next, HandlerStep, Deliver

\* Type correctness of removals and appeals.
THEOREM TypeCorrect == Spec => []TypeOK
  BY InitTypeOK, StepTypeOK, PTL DEF Spec

-----------------------------------------------------------------------------
(* One link.  Only the handler whose INSERT created the row publishes it.   *)

\* Whoever is about to publish the link is alone, the first, and has its row.
LinkHasOneSender ==
  /\ \A p, q \in Proc : pc[p] = "publishLink" /\ pc[q] = "publishLink" => p = q
  /\ \A p \in Proc : pc[p] = "publishLink" => links = 0 /\ appeal # "none"
  /\ appeal = "none" => links = 0
  /\ links <= 1

\* Each step keeps the link's sender alone.
LEMMA StepLinkHasOneSender == TypeOK /\ LinkHasOneSender /\ [Next]_vars => LinkHasOneSender'
<1> SUFFICES ASSUME TypeOK, LinkHasOneSender, [Next]_vars PROVE LinkHasOneSender'
  OBVIOUS
<1> USE DEF TypeOK, LinkHasOneSender
<1>1. ASSUME DeleteDeck PROVE LinkHasOneSender'
  BY <1>1 DEF DeleteDeck
<1>2. ASSUME SubmitAppeal PROVE LinkHasOneSender'
  BY <1>2 DEF SubmitAppeal
<1>3. ASSUME NEW e \in Event, CardPublished(e) PROVE LinkHasOneSender'
  BY <1>3 DEF CardPublished
<1>4. ASSUME NEW r \in Report, HandleReportSubmitted(r) PROVE LinkHasOneSender'
  BY <1>4 DEF HandleReportSubmitted
<1>5. ASSUME NEW p \in Proc, DeleteViolatingDeck(p) PROVE LinkHasOneSender'
  BY <1>5 DEF DeleteViolatingDeck, AdminUpdateDeckStatus, Fail, Goto
<1>6. ASSUME NEW p \in Proc, PublishDeckDeleted(p) PROVE LinkHasOneSender'
  BY <1>6 DEF PublishDeckDeleted, Ack, Return
<1>7. ASSUME NEW p \in Proc, CreateDeckAppeal(p) PROVE LinkHasOneSender'
  BY <1>7 DEF CreateDeckAppeal, AppealEnsured, Ack, Fail, Goto, Return
<1>8. ASSUME NEW p \in Proc, PublishDeckAppealAvailable(p) PROVE LinkHasOneSender'
  BY <1>8 DEF PublishDeckAppealAvailable, AppealEnsured, Ack, Fail, Goto, Return
<1>9. ASSUME NEW p \in Proc, ReadAppeal(p) PROVE LinkHasOneSender'
  BY <1>9 DEF ReadAppeal, Goto, Return
<1>10. ASSUME NEW p \in Proc, RestoreDeck(p) PROVE LinkHasOneSender'
  BY <1>10 DEF RestoreDeck, AdminUpdateDeckStatus, Goto
<1>11. ASSUME NEW p \in Proc, DecideDeckAppeal(p) PROVE LinkHasOneSender'
  BY <1>11 DEF DecideDeckAppeal, Goto, Return
<1>12. ASSUME NEW p \in Proc, PublishAppealDecided(p) PROVE LinkHasOneSender'
  BY <1>12 DEF PublishAppealDecided, Return
<1>13. ASSUME NEW p \in Proc, SetDeckStatus(p) PROVE LinkHasOneSender'
  BY <1>13 DEF SetDeckStatus, AdminUpdateDeckStatus, Goto, Return
<1>14. ASSUME NEW p \in Proc, BulkResolveReports(p) PROVE LinkHasOneSender'
  BY <1>14 DEF BulkResolveReports, Goto, Return
<1>15. ASSUME NEW p \in Proc, PublishReportResolved(p) PROVE LinkHasOneSender'
  BY <1>15 DEF PublishReportResolved, Return
<1>16. ASSUME NEW p \in Proc, HandlerStops(p) PROVE LinkHasOneSender'
  BY <1>16 DEF HandlerStops, Fail, Return
<1>17. ASSUME NEW p \in Proc, NEW e \in Event, ModerateCard(p, e) PROVE LinkHasOneSender'
  BY <1>17 DEF ModerateCard, Enter
<1>18. ASSUME NEW p \in Proc, NEW e \in Event, HandleModerationDeckDeleted(p, e) PROVE LinkHasOneSender'
  BY <1>18 DEF HandleModerationDeckDeleted, Enter
<1>19. ASSUME NEW p \in Proc, NEW e \in Event, ModerateDeck(p, e) PROVE LinkHasOneSender'
  BY <1>19 DEF ModerateDeck, Enter
<1>20. ASSUME NEW p \in Proc, NEW s \in DeckStatus, UpdateDeckStatus(p, s) PROVE LinkHasOneSender'
  BY <1>20 DEF UpdateDeckStatus, Enter
<1>21. ASSUME NEW p \in Proc, NEW v \in Verdict, ProcessReport(p, v) PROVE LinkHasOneSender'
  BY <1>21 DEF ProcessReport, Enter
<1>22. ASSUME NEW p \in Proc, NEW v \in {"approved", "rejected"}, DecideAppeal(p, v) PROVE LinkHasOneSender'
  BY <1>22 DEF DecideAppeal, Enter
<1>23. CASE UNCHANGED vars
  BY <1>23 DEF vars
<1> QED
  BY <1>1, <1>2, <1>3, <1>4, <1>5, <1>6, <1>7, <1>8, <1>9, <1>10, <1>11, <1>12, <1>13,
     <1>14, <1>15, <1>16, <1>17, <1>18, <1>19, <1>20, <1>21, <1>22, <1>23
     DEF Next, HandlerStep, Deliver

\* The owner of a deck gets at most one appeal link.
THEOREM AtMostOneLink == Spec => []OneLink
<1>1. Init => LinkHasOneSender
  BY DEF Init, LinkHasOneSender
<1>2. LinkHasOneSender => OneLink
  BY DEF LinkHasOneSender, OneLink
<1> QED BY <1>1, <1>2, InitTypeOK, StepTypeOK, StepLinkHasOneSender, PTL DEF Spec

-----------------------------------------------------------------------------
(* One decision.  The UPDATE decides a submitted appeal, and only whoever   *)
(* it decided for goes on to announce it.                                   *)

\* A decision about to be announced is the one on record.
DecisionIsRecorded ==
  /\ \A p \in Proc : pc[p] = "publishDecision" => appeal = job[p].verdict
  /\ OneDecision

\* Each step keeps announced decisions on record.
LEMMA StepDecisionIsRecorded == TypeOK /\ DecisionIsRecorded /\ [Next]_vars => DecisionIsRecorded'
<1> SUFFICES ASSUME TypeOK, DecisionIsRecorded, [Next]_vars PROVE DecisionIsRecorded'
  OBVIOUS
<1> USE DEF TypeOK, DecisionIsRecorded, OneDecision
<1>1. ASSUME DeleteDeck PROVE DecisionIsRecorded'
  BY <1>1 DEF DeleteDeck
<1>2. ASSUME SubmitAppeal PROVE DecisionIsRecorded'
  BY <1>2 DEF SubmitAppeal
<1>3. ASSUME NEW e \in Event, CardPublished(e) PROVE DecisionIsRecorded'
  BY <1>3 DEF CardPublished
<1>4. ASSUME NEW r \in Report, HandleReportSubmitted(r) PROVE DecisionIsRecorded'
  BY <1>4 DEF HandleReportSubmitted
<1>5. ASSUME NEW p \in Proc, DeleteViolatingDeck(p) PROVE DecisionIsRecorded'
  BY <1>5 DEF DeleteViolatingDeck, AdminUpdateDeckStatus, Fail, Goto
<1>6. ASSUME NEW p \in Proc, PublishDeckDeleted(p) PROVE DecisionIsRecorded'
  BY <1>6 DEF PublishDeckDeleted, Ack, Return
<1>7. ASSUME NEW p \in Proc, CreateDeckAppeal(p) PROVE DecisionIsRecorded'
  BY <1>7 DEF CreateDeckAppeal, AppealEnsured, Ack, Fail, Goto, Return
<1>8. ASSUME NEW p \in Proc, PublishDeckAppealAvailable(p) PROVE DecisionIsRecorded'
  BY <1>8 DEF PublishDeckAppealAvailable, AppealEnsured, Ack, Fail, Goto, Return
<1>9. ASSUME NEW p \in Proc, ReadAppeal(p) PROVE DecisionIsRecorded'
  BY <1>9 DEF ReadAppeal, Goto, Return
<1>10. ASSUME NEW p \in Proc, RestoreDeck(p) PROVE DecisionIsRecorded'
  BY <1>10 DEF RestoreDeck, AdminUpdateDeckStatus, Goto
<1>11. ASSUME NEW p \in Proc, DecideDeckAppeal(p) PROVE DecisionIsRecorded'
  BY <1>11 DEF DecideDeckAppeal, Goto, Return
<1>12. ASSUME NEW p \in Proc, PublishAppealDecided(p) PROVE DecisionIsRecorded'
  BY <1>12 DEF PublishAppealDecided, Return
<1>13. ASSUME NEW p \in Proc, SetDeckStatus(p) PROVE DecisionIsRecorded'
  BY <1>13 DEF SetDeckStatus, AdminUpdateDeckStatus, Goto, Return
<1>14. ASSUME NEW p \in Proc, BulkResolveReports(p) PROVE DecisionIsRecorded'
  BY <1>14 DEF BulkResolveReports, Goto, Return
<1>15. ASSUME NEW p \in Proc, PublishReportResolved(p) PROVE DecisionIsRecorded'
  BY <1>15 DEF PublishReportResolved, Return
<1>16. ASSUME NEW p \in Proc, HandlerStops(p) PROVE DecisionIsRecorded'
  BY <1>16 DEF HandlerStops, Fail, Return
<1>17. ASSUME NEW p \in Proc, NEW e \in Event, ModerateCard(p, e) PROVE DecisionIsRecorded'
  BY <1>17 DEF ModerateCard, Enter
<1>18. ASSUME NEW p \in Proc, NEW e \in Event, HandleModerationDeckDeleted(p, e) PROVE DecisionIsRecorded'
  BY <1>18 DEF HandleModerationDeckDeleted, Enter
<1>19. ASSUME NEW p \in Proc, NEW e \in Event, ModerateDeck(p, e) PROVE DecisionIsRecorded'
  BY <1>19 DEF ModerateDeck, Enter
<1>20. ASSUME NEW p \in Proc, NEW s \in DeckStatus, UpdateDeckStatus(p, s) PROVE DecisionIsRecorded'
  BY <1>20 DEF UpdateDeckStatus, Enter
<1>21. ASSUME NEW p \in Proc, NEW v \in Verdict, ProcessReport(p, v) PROVE DecisionIsRecorded'
  BY <1>21 DEF ProcessReport, Enter
<1>22. ASSUME NEW p \in Proc, NEW v \in {"approved", "rejected"}, DecideAppeal(p, v) PROVE DecisionIsRecorded'
  BY <1>22 DEF DecideAppeal, Enter
<1>23. CASE UNCHANGED vars
  BY <1>23 DEF vars
<1> QED
  BY <1>1, <1>2, <1>3, <1>4, <1>5, <1>6, <1>7, <1>8, <1>9, <1>10, <1>11, <1>12, <1>13,
     <1>14, <1>15, <1>16, <1>17, <1>18, <1>19, <1>20, <1>21, <1>22, <1>23
     DEF Next, HandlerStep, Deliver

\* The owner hears at most one decision, the one on record.
THEOREM AtMostOneDecision == Spec => []OneDecision
<1>1. Init => DecisionIsRecorded
  BY DEF Init, DecisionIsRecorded, OneDecision
<1>2. DecisionIsRecorded => OneDecision
  BY DEF DecisionIsRecorded
<1> QED BY <1>1, <1>2, InitTypeOK, StepTypeOK, StepDecisionIsRecorded, PTL DEF Spec

-----------------------------------------------------------------------------
(* No fake outcome.  The deck's status is set before the outcome is stored  *)
(* and announced, and the call that set it succeeded.                       *)

\* What a handler has carried out by the time it stores and announces it.
ActedBefore ==
  \A p \in Proc :
    /\ /\ pc[p] \in {"createAppeal", "publishLink", "resolve", "publishResolved"}
       /\ job[p].kind = "report"
       => job[p].verdict \in done \cup {"dismissed"}
    /\ pc[p] = "decide" /\ job[p].verdict = "approved" => "active" \in done

\* Each step keeps outcomes real.
LEMMA StepActedBefore ==
  TypeOK /\ ActedBefore /\ NoFakeOutcome /\ [Next]_vars => (ActedBefore /\ NoFakeOutcome)'
<1> SUFFICES ASSUME TypeOK, ActedBefore, NoFakeOutcome, [Next]_vars
             PROVE  (ActedBefore /\ NoFakeOutcome)'
  OBVIOUS
<1> USE DEF TypeOK, ActedBefore, NoFakeOutcome
<1>1. ASSUME DeleteDeck PROVE (ActedBefore /\ NoFakeOutcome)'
  BY <1>1 DEF DeleteDeck
<1>2. ASSUME SubmitAppeal PROVE (ActedBefore /\ NoFakeOutcome)'
  BY <1>2 DEF SubmitAppeal
<1>3. ASSUME NEW e \in Event, CardPublished(e) PROVE (ActedBefore /\ NoFakeOutcome)'
  BY <1>3 DEF CardPublished
<1>4. ASSUME NEW r \in Report, HandleReportSubmitted(r) PROVE (ActedBefore /\ NoFakeOutcome)'
  BY <1>4 DEF HandleReportSubmitted
<1>5. ASSUME NEW p \in Proc, DeleteViolatingDeck(p) PROVE (ActedBefore /\ NoFakeOutcome)'
  BY <1>5 DEF DeleteViolatingDeck, AdminUpdateDeckStatus, Fail, Goto
<1>6. ASSUME NEW p \in Proc, PublishDeckDeleted(p) PROVE (ActedBefore /\ NoFakeOutcome)'
  BY <1>6 DEF PublishDeckDeleted, Ack, Return
<1>7. ASSUME NEW p \in Proc, CreateDeckAppeal(p) PROVE (ActedBefore /\ NoFakeOutcome)'
  BY <1>7 DEF CreateDeckAppeal, AppealEnsured, Ack, Fail, Goto, Return
<1>8. ASSUME NEW p \in Proc, PublishDeckAppealAvailable(p) PROVE (ActedBefore /\ NoFakeOutcome)'
  BY <1>8 DEF PublishDeckAppealAvailable, AppealEnsured, Ack, Fail, Goto, Return
<1>9. ASSUME NEW p \in Proc, ReadAppeal(p) PROVE (ActedBefore /\ NoFakeOutcome)'
  BY <1>9 DEF ReadAppeal, Goto, Return
<1>10. ASSUME NEW p \in Proc, RestoreDeck(p) PROVE (ActedBefore /\ NoFakeOutcome)'
  BY <1>10 DEF RestoreDeck, AdminUpdateDeckStatus, Goto
<1>11. ASSUME NEW p \in Proc, DecideDeckAppeal(p) PROVE (ActedBefore /\ NoFakeOutcome)'
  BY <1>11 DEF DecideDeckAppeal, Goto, Return
<1>12. ASSUME NEW p \in Proc, PublishAppealDecided(p) PROVE (ActedBefore /\ NoFakeOutcome)'
  BY <1>12 DEF PublishAppealDecided, Return
<1>13. ASSUME NEW p \in Proc, SetDeckStatus(p) PROVE (ActedBefore /\ NoFakeOutcome)'
  BY <1>13 DEF SetDeckStatus, AdminUpdateDeckStatus, Goto, Return
<1>14. ASSUME NEW p \in Proc, BulkResolveReports(p) PROVE (ActedBefore /\ NoFakeOutcome)'
  BY <1>14 DEF BulkResolveReports, Goto, Return
<1>15. ASSUME NEW p \in Proc, PublishReportResolved(p) PROVE (ActedBefore /\ NoFakeOutcome)'
  <2>1. told' = told \cup {job[p].verdict} /\ Return(p) /\ UNCHANGED <<done, appeal>>
    BY <1>15 DEF PublishReportResolved
  <2>2. job[p].verdict \in done \cup {"dismissed"}
    BY <1>15 DEF PublishReportResolved
  <2>3. NoFakeOutcome'
    <3> HIDE DEF TypeOK, ActedBefore
    <3> QED BY <2>1, <2>2
  <2>4. ActedBefore'
    BY <2>1 DEF Return
  <2> QED BY <2>3, <2>4
<1>16. ASSUME NEW p \in Proc, HandlerStops(p) PROVE (ActedBefore /\ NoFakeOutcome)'
  BY <1>16 DEF HandlerStops, Fail, Return
<1>17. ASSUME NEW p \in Proc, NEW e \in Event, ModerateCard(p, e) PROVE (ActedBefore /\ NoFakeOutcome)'
  BY <1>17 DEF ModerateCard, Enter
<1>18. ASSUME NEW p \in Proc, NEW e \in Event, HandleModerationDeckDeleted(p, e) PROVE (ActedBefore /\ NoFakeOutcome)'
  BY <1>18 DEF HandleModerationDeckDeleted, Enter
<1>19. ASSUME NEW p \in Proc, NEW e \in Event, ModerateDeck(p, e) PROVE (ActedBefore /\ NoFakeOutcome)'
  BY <1>19 DEF ModerateDeck, Enter
<1>20. ASSUME NEW p \in Proc, NEW s \in DeckStatus, UpdateDeckStatus(p, s) PROVE (ActedBefore /\ NoFakeOutcome)'
  BY <1>20 DEF UpdateDeckStatus, Enter
<1>21. ASSUME NEW p \in Proc, NEW v \in Verdict, ProcessReport(p, v) PROVE (ActedBefore /\ NoFakeOutcome)'
  BY <1>21 DEF ProcessReport, Enter
<1>22. ASSUME NEW p \in Proc, NEW v \in {"approved", "rejected"}, DecideAppeal(p, v) PROVE (ActedBefore /\ NoFakeOutcome)'
  BY <1>22 DEF DecideAppeal, Enter
<1>23. CASE UNCHANGED vars
  BY <1>23 DEF vars
<1> QED
  BY <1>1, <1>2, <1>3, <1>4, <1>5, <1>6, <1>7, <1>8, <1>9, <1>10, <1>11, <1>12, <1>13,
     <1>14, <1>15, <1>16, <1>17, <1>18, <1>19, <1>20, <1>21, <1>22, <1>23
     DEF Next, HandlerStep, Deliver

\* Nobody is told of an outcome that never was.
THEOREM OutcomesAreReal == Spec => []NoFakeOutcome
<1>1. Init => ActedBefore /\ NoFakeOutcome
  BY DEF Init, ActedBefore, NoFakeOutcome
<1> QED BY <1>1, InitTypeOK, StepTypeOK, StepActedBefore, PTL DEF Spec

-----------------------------------------------------------------------------
(* Removals are mailed.  Without failures the obligation to offer the deck's *)
(* one appeal is handed on: from the handler that deleted the deck to the   *)
(* message about it, to the handler that inserts the appeal, to the link.   *)
(* A removal after that appeal's decision puts nobody under it.             *)

\* Who will still offer the appeal of a removed deck.
SomeoneOffers ==
  \/ \E p \in Proc : pc[p] \in {"publishRemoval", "createAppeal"}
  \/ \E e \in Event : removal[e] = "out"

ObligationIsHeld ==
  faults = 0 =>
    /\ Removed /\ appeal = "none" => SomeoneOffers
    /\ appeal # "none" => links > 0 \/ \E p \in Proc : pc[p] = "publishLink"

\* Each step hands the obligation on.
LEMMA StepObligationIsHeld ==
  TypeOK /\ LinkHasOneSender /\ ObligationIsHeld /\ [Next]_vars => ObligationIsHeld'
<1> SUFFICES ASSUME TypeOK, LinkHasOneSender, ObligationIsHeld, [Next]_vars
             PROVE  ObligationIsHeld'
  OBVIOUS
<1> USE DEF TypeOK, LinkHasOneSender, ObligationIsHeld, SomeoneOffers, Removed
<1>1. ASSUME DeleteDeck PROVE ObligationIsHeld'
  BY <1>1 DEF DeleteDeck
<1>2. ASSUME SubmitAppeal PROVE ObligationIsHeld'
  BY <1>2 DEF SubmitAppeal
<1>3. ASSUME NEW e \in Event, CardPublished(e) PROVE ObligationIsHeld'
  BY <1>3 DEF CardPublished
<1>4. ASSUME NEW r \in Report, HandleReportSubmitted(r) PROVE ObligationIsHeld'
  BY <1>4 DEF HandleReportSubmitted
<1>5. ASSUME NEW p \in Proc, DeleteViolatingDeck(p) PROVE ObligationIsHeld'
  BY <1>5 DEF DeleteViolatingDeck, AdminUpdateDeckStatus, Fail, Goto
<1>6. ASSUME NEW p \in Proc, PublishDeckDeleted(p) PROVE ObligationIsHeld'
  BY <1>6 DEF PublishDeckDeleted, Ack, Return
<1>7. ASSUME NEW p \in Proc, CreateDeckAppeal(p) PROVE ObligationIsHeld'
  BY <1>7 DEF CreateDeckAppeal, AppealEnsured, Ack, Fail, Goto, Return
<1>8. ASSUME NEW p \in Proc, PublishDeckAppealAvailable(p) PROVE ObligationIsHeld'
  BY <1>8 DEF PublishDeckAppealAvailable, AppealEnsured, Ack, Fail, Goto, Return
<1>9. ASSUME NEW p \in Proc, ReadAppeal(p) PROVE ObligationIsHeld'
  BY <1>9 DEF ReadAppeal, Goto, Return
<1>10. ASSUME NEW p \in Proc, RestoreDeck(p) PROVE ObligationIsHeld'
  BY <1>10 DEF RestoreDeck, AdminUpdateDeckStatus, Goto
<1>11. ASSUME NEW p \in Proc, DecideDeckAppeal(p) PROVE ObligationIsHeld'
  BY <1>11 DEF DecideDeckAppeal, Goto, Return
<1>12. ASSUME NEW p \in Proc, PublishAppealDecided(p) PROVE ObligationIsHeld'
  BY <1>12 DEF PublishAppealDecided, Return
<1>13. ASSUME NEW p \in Proc, SetDeckStatus(p) PROVE ObligationIsHeld'
  BY <1>13 DEF SetDeckStatus, AdminUpdateDeckStatus, Goto, Return
<1>14. ASSUME NEW p \in Proc, BulkResolveReports(p) PROVE ObligationIsHeld'
  BY <1>14 DEF BulkResolveReports, Goto, Return
<1>15. ASSUME NEW p \in Proc, PublishReportResolved(p) PROVE ObligationIsHeld'
  BY <1>15 DEF PublishReportResolved, Return
<1>16. ASSUME NEW p \in Proc, HandlerStops(p) PROVE ObligationIsHeld'
  BY <1>16 DEF HandlerStops, Fail, Return
<1>17. ASSUME NEW p \in Proc, NEW e \in Event, ModerateCard(p, e) PROVE ObligationIsHeld'
  BY <1>17 DEF ModerateCard, Enter
<1>18. ASSUME NEW p \in Proc, NEW e \in Event, HandleModerationDeckDeleted(p, e) PROVE ObligationIsHeld'
  BY <1>18 DEF HandleModerationDeckDeleted, Enter
<1>19. ASSUME NEW p \in Proc, NEW e \in Event, ModerateDeck(p, e) PROVE ObligationIsHeld'
  BY <1>19 DEF ModerateDeck, Enter
<1>20. ASSUME NEW p \in Proc, NEW s \in DeckStatus, UpdateDeckStatus(p, s) PROVE ObligationIsHeld'
  BY <1>20 DEF UpdateDeckStatus, Enter
<1>21. ASSUME NEW p \in Proc, NEW v \in Verdict, ProcessReport(p, v) PROVE ObligationIsHeld'
  BY <1>21 DEF ProcessReport, Enter
<1>22. ASSUME NEW p \in Proc, NEW v \in {"approved", "rejected"}, DecideAppeal(p, v) PROVE ObligationIsHeld'
  BY <1>22 DEF DecideAppeal, Enter
<1>23. CASE UNCHANGED vars
  BY <1>23 DEF vars
<1> QED
  BY <1>1, <1>2, <1>3, <1>4, <1>5, <1>6, <1>7, <1>8, <1>9, <1>10, <1>11, <1>12, <1>13,
     <1>14, <1>15, <1>16, <1>17, <1>18, <1>19, <1>20, <1>21, <1>22, <1>23
     DEF Next, HandlerStep, Deliver

\* As long as no call fails, and until the deck's only appeal is decided, a
\* removed deck's owner can appeal once all is quiet.
THEOREM RemovalsAreMailed == Spec => []RemovalIsMailed
<1>1. Init => LinkHasOneSender /\ ObligationIsHeld
  BY DEF Init, LinkHasOneSender, ObligationIsHeld, Removed
<1>2. TypeOK /\ ObligationIsHeld => RemovalIsMailed
  BY DEF TypeOK, ObligationIsHeld, SomeoneOffers, RemovalIsMailed, Quiet, Removed, Decided
<1> QED BY <1>1, <1>2, InitTypeOK, StepTypeOK, StepLinkHasOneSender, StepObligationIsHeld, PTL DEF Spec

-----------------------------------------------------------------------------
(* The appeal's life *)

\* No step takes an appeal back or decides it early.
LEMMA StepAppealMovesForward ==
  ASSUME TypeOK, [Next]_vars, appeal' # appeal
  PROVE  \/ appeal = "none" /\ appeal' = "pending"
         \/ appeal = "pending" /\ appeal' = "submitted"
         \/ appeal = "submitted" /\ appeal' \in {"approved", "rejected"}
<1> DEFINE Forward == \/ appeal = "none" /\ appeal' = "pending"
                      \/ appeal = "pending" /\ appeal' = "submitted"
                      \/ appeal = "submitted" /\ appeal' \in {"approved", "rejected"}
<1> USE DEF TypeOK
<1>1. ASSUME DeleteDeck PROVE Forward
  BY <1>1 DEF DeleteDeck
<1>2. ASSUME SubmitAppeal PROVE Forward
  BY <1>2 DEF SubmitAppeal
<1>3. ASSUME NEW e \in Event, CardPublished(e) PROVE Forward
  BY <1>3 DEF CardPublished
<1>4. ASSUME NEW r \in Report, HandleReportSubmitted(r) PROVE Forward
  BY <1>4 DEF HandleReportSubmitted
<1>5. ASSUME NEW p \in Proc, DeleteViolatingDeck(p) PROVE Forward
  BY <1>5 DEF DeleteViolatingDeck, AdminUpdateDeckStatus, Fail, Goto
<1>6. ASSUME NEW p \in Proc, PublishDeckDeleted(p) PROVE Forward
  BY <1>6 DEF PublishDeckDeleted, Ack, Return
<1>7. ASSUME NEW p \in Proc, CreateDeckAppeal(p) PROVE Forward
  BY <1>7 DEF CreateDeckAppeal, AppealEnsured, Ack, Fail, Goto, Return
<1>8. ASSUME NEW p \in Proc, PublishDeckAppealAvailable(p) PROVE Forward
  BY <1>8 DEF PublishDeckAppealAvailable, AppealEnsured, Ack, Fail, Goto, Return
<1>9. ASSUME NEW p \in Proc, ReadAppeal(p) PROVE Forward
  BY <1>9 DEF ReadAppeal, Goto, Return
<1>10. ASSUME NEW p \in Proc, RestoreDeck(p) PROVE Forward
  BY <1>10 DEF RestoreDeck, AdminUpdateDeckStatus, Goto
<1>11. ASSUME NEW p \in Proc, DecideDeckAppeal(p) PROVE Forward
  BY <1>11 DEF DecideDeckAppeal, Goto, Return
<1>12. ASSUME NEW p \in Proc, PublishAppealDecided(p) PROVE Forward
  BY <1>12 DEF PublishAppealDecided, Return
<1>13. ASSUME NEW p \in Proc, SetDeckStatus(p) PROVE Forward
  BY <1>13 DEF SetDeckStatus, AdminUpdateDeckStatus, Goto, Return
<1>14. ASSUME NEW p \in Proc, BulkResolveReports(p) PROVE Forward
  BY <1>14 DEF BulkResolveReports, Goto, Return
<1>15. ASSUME NEW p \in Proc, PublishReportResolved(p) PROVE Forward
  BY <1>15 DEF PublishReportResolved, Return
<1>16. ASSUME NEW p \in Proc, HandlerStops(p) PROVE Forward
  BY <1>16 DEF HandlerStops, Fail, Return
<1>17. ASSUME NEW p \in Proc, NEW e \in Event, ModerateCard(p, e) PROVE Forward
  BY <1>17 DEF ModerateCard, Enter
<1>18. ASSUME NEW p \in Proc, NEW e \in Event, HandleModerationDeckDeleted(p, e) PROVE Forward
  BY <1>18 DEF HandleModerationDeckDeleted, Enter
<1>19. ASSUME NEW p \in Proc, NEW e \in Event, ModerateDeck(p, e) PROVE Forward
  BY <1>19 DEF ModerateDeck, Enter
<1>20. ASSUME NEW p \in Proc, NEW s \in DeckStatus, UpdateDeckStatus(p, s) PROVE Forward
  BY <1>20 DEF UpdateDeckStatus, Enter
<1>21. ASSUME NEW p \in Proc, NEW v \in Verdict, ProcessReport(p, v) PROVE Forward
  BY <1>21 DEF ProcessReport, Enter
<1>22. ASSUME NEW p \in Proc, NEW v \in {"approved", "rejected"}, DecideAppeal(p, v) PROVE Forward
  BY <1>22 DEF DecideAppeal, Enter
<1>23. CASE UNCHANGED vars
  BY <1>23 DEF vars
<1> QED
  BY <1>1, <1>2, <1>3, <1>4, <1>5, <1>6, <1>7, <1>8, <1>9, <1>10, <1>11, <1>12, <1>13,
     <1>14, <1>15, <1>16, <1>17, <1>18, <1>19, <1>20, <1>21, <1>22, <1>23
     DEF Next, HandlerStep, Deliver

\* An appeal is never reopened, nor decided before it is submitted.
THEOREM AppealsMoveForward == Spec => AppealMovesForward
<1>1. TypeOK /\ [Next]_vars =>
        [\/ appeal = "none" /\ appeal' = "pending"
         \/ appeal = "pending" /\ appeal' = "submitted"
         \/ appeal = "submitted" /\ appeal' \in {"approved", "rejected"} ]_appeal
  BY StepAppealMovesForward
<1> QED BY <1>1, InitTypeOK, StepTypeOK, PTL DEF Spec, AppealMovesForward
=============================================================================
