----------------------------- MODULE Moderation -----------------------------
(***************************************************************************)
(* Removal and appeal of one deck, across four services.                   *)
(*                                                                         *)
(* moderation-fsrs deletes the deck when a card violates the rules and     *)
(* publishes moderation.deck_deleted; admin-service mints an appeal for a  *)
(* deleted deck and publishes the link the owner is mailed; moderators     *)
(* triage reports, set the deck's status and decide the appeal; the deck's *)
(* row is in deck-service.  Every call and statement is a step of its own, *)
(* any of them may fail, and Pub/Sub delivers at least once.               *)
(***************************************************************************)
EXTENDS Integers

CONSTANTS
  Event,      \* violations found, each the id of the message about it
  Report,     \* reports about the deck
  Proc,       \* concurrently running request and message handlers
  MaxFaults   \* bound on failed calls and crashes

ASSUME BoundsAssumption == MaxFaults \in Nat

VARIABLES
  status,     \* decks.status
  removedBy,  \* who wrote it last
  appeal,     \* deck_appeals.status of the deck's only appeal, "none" before
  links,      \* times deck.appeal_available was published
  reports,    \* reports: "none", "pending", or the verdict it was closed with
  told,       \* verdicts published in report.resolved
  decisions,  \* decisions published in appeal.decided
  done,       \* statuses that moderators' calls have given the deck
  violation, removal, \* card.created / moderation.deck_deleted messages
  pc, job,    \* control state and locals of each handler
  faults      \* failed calls and crashes so far

deckRow == <<status, removedBy, done>>
published == <<links, told, decisions>>
messages == <<violation, removal>>
vars == <<deckRow, appeal, reports, published, messages, pc, job, faults>>
-----------------------------------------------------------------------------
DeckStatus == {"active", "hidden", "deleted"}
AppealStatus == {"none", "pending", "submitted", "approved", "rejected"}
\* What a report is closed with: the deck's new status, or nothing was done.
Verdict == {"hidden", "deleted", "dismissed"}
Message == {"none", "out", "acked"}

\* Locals of a handler: what it handles and what it has been asked to do.
CardJob    == [kind : {"card", "rpc"}, event : Event, verdict : {"deleted"}]
RemovalJob == [kind : {"removal"}, event : Event]
StatusJob  == [kind : {"status"}, verdict : DeckStatus]
ReportJob  == [kind : {"report"}, verdict : Verdict]
AppealJob  == [kind : {"appeal"}, verdict : {"approved", "rejected"}]
NoJob      == [kind |-> "none"]

TypeOK ==
  /\ status \in DeckStatus
  /\ removedBy \in {"owner", "moderator"}
  /\ appeal \in AppealStatus
  /\ links \in Nat
  /\ reports \in [Report -> {"none", "pending"} \cup Verdict]
  /\ told \subseteq Verdict
  /\ decisions \subseteq {"approved", "rejected"}
  /\ done \subseteq DeckStatus
  /\ violation \in [Event -> Message]
  /\ removal \in [Event -> Message]
  /\ pc \in [Proc -> {"idle", "setStatus", "publishRemoval", "createAppeal", "publishLink",
                      "resolve", "publishResolved", "readAppeal", "restore", "decide",
                      "publishDecision"}]
  /\ job \in [Proc -> CardJob \cup RemovalJob \cup StatusJob \cup ReportJob \cup AppealJob \cup {NoJob}]
  /\ \A p \in Proc :
       /\ pc[p] = "setStatus" => /\ job[p] \in CardJob \cup StatusJob \cup ReportJob
                                 /\ job[p].verdict \in DeckStatus
       /\ pc[p] = "publishRemoval" => job[p] \in CardJob
       /\ pc[p] \in {"createAppeal", "publishLink"} => job[p] \in RemovalJob \cup StatusJob \cup ReportJob
       /\ pc[p] \in {"resolve", "publishResolved"} => job[p] \in ReportJob
       /\ pc[p] \in {"readAppeal", "restore", "decide", "publishDecision"} => job[p] \in AppealJob
  /\ faults \in Nat

Init ==
  /\ status = "active" /\ removedBy = "owner" /\ done = {}
  /\ appeal = "none"
  /\ reports = [r \in Report |-> "none"]
  /\ links = 0 /\ told = {} /\ decisions = {}
  /\ violation = [e \in Event |-> "none"]
  /\ removal = [e \in Event |-> "none"]
  /\ pc = [p \in Proc |-> "idle"]
  /\ job = [p \in Proc |-> NoJob]
  /\ faults = 0
-----------------------------------------------------------------------------
\* Handler p starts on the job j at the control point c.
Enter(p, c, j) ==
  /\ pc[p] = "idle"
  /\ pc' = [pc EXCEPT ![p] = c]
  /\ job' = [job EXCEPT ![p] = j]

Goto(p, c) == pc' = [pc EXCEPT ![p] = c] /\ UNCHANGED job

Return(p) ==
  /\ pc' = [pc EXCEPT ![p] = "idle"]
  /\ job' = [job EXCEPT ![p] = NoJob]

\* A call fails and the caller goes on.
Fail == faults < MaxFaults /\ faults' = faults + 1

\* Pub/Sub takes the acknowledgement of message e, or misses it.
Ack(queue, e) == {queue, [queue EXCEPT ![e] = "acked"]}
-----------------------------------------------------------------------------
(* deck-service *)

\* AdminUpdateDeckStatus: unconditional, whatever the status was.
AdminUpdateDeckStatus(s) ==
  /\ status' = s
  /\ removedBy' = "moderator"
  /\ done' = done \cup {s}

\* The owner's DeleteDeck, also of a deck that a moderator hid or deleted.
DeleteDeck ==
  /\ status' = "deleted"
  /\ removedBy' = "owner"
  /\ UNCHANGED <<done, appeal, reports, published, messages, pc, job, faults>>
-----------------------------------------------------------------------------
(* moderation-fsrs-service *)

\* A card that violates the rules is created or updated.
CardPublished(e) ==
  /\ violation[e] = "none"
  /\ violation' = [violation EXCEPT ![e] = "out"]
  /\ UNCHANGED <<deckRow, appeal, reports, published, removal, pc, job, faults>>

\* The message is delivered and the card found to violate the rules.
ModerateCard(p, e) ==
  /\ violation[e] = "out"
  /\ Enter(p, "setStatus", [kind |-> "card", event |-> e, verdict |-> "deleted"])
  /\ UNCHANGED <<deckRow, appeal, reports, published, messages, faults>>

\* The RPC leaves the same to a background task, which nothing retries.
ModerateDeck(p, e) ==
  /\ violation[e] = "none"
  /\ violation' = [violation EXCEPT ![e] = "acked"]
  /\ Enter(p, "setStatus", [kind |-> "rpc", event |-> e, verdict |-> "deleted"])
  /\ UNCHANGED <<deckRow, appeal, reports, published, removal, faults>>

\* Wrong on purpose: the deck is deleted and nobody told.
DeleteViolatingDeckSilently(p) ==
  /\ pc[p] = "setStatus" /\ job[p].kind \in {"card", "rpc"}
  /\ AdminUpdateDeckStatus("deleted")
  /\ Return(p)
  /\ UNCHANGED <<appeal, reports, published, messages, faults>>

\* update_deck_status logs a failure and goes on all the same.
DeleteViolatingDeck(p) ==
  /\ pc[p] = "setStatus" /\ job[p].kind \in {"card", "rpc"}
  /\ \/ AdminUpdateDeckStatus("deleted") /\ UNCHANGED faults
     \/ Fail /\ UNCHANGED deckRow
  /\ Goto(p, "publishRemoval")
  /\ UNCHANGED <<appeal, reports, published, messages>>

\* moderation.deck_deleted goes out; a message is then acknowledged.
PublishDeckDeleted(p) ==
  LET e == job[p].event
  IN  /\ pc[p] = "publishRemoval"
      /\ removal' = [removal EXCEPT ![e] = "out"]
      /\ violation' \in IF job[p].kind = "card" THEN Ack(violation, e) ELSE {violation}
      /\ Return(p)
      /\ UNCHANGED <<deckRow, appeal, reports, published, faults>>
-----------------------------------------------------------------------------
(* admin-service: appeals *)

HandleModerationDeckDeleted(p, e) ==
  /\ removal[e] = "out"
  /\ Enter(p, "createAppeal", [kind |-> "removal", event |-> e])
  /\ UNCHANGED <<deckRow, appeal, reports, published, messages, faults>>

\* EnsureAppealForDeletedDeck returns to its caller, which never fails for it:
\* the message is acknowledged, the report goes on to be resolved.
AppealEnsured(p) ==
  \/ /\ job[p].kind = "removal"
     /\ removal' \in Ack(removal, job[p].event)
     /\ Return(p)
  \/ job[p].kind = "status" /\ Return(p) /\ UNCHANGED removal
  \/ job[p].kind = "report" /\ Goto(p, "resolve") /\ UNCHANGED removal

\* Wrong on purpose: the existing appeal is reopened.
CreateDeckAppealAnew(p) ==
  /\ pc[p] = "createAppeal"
  /\ appeal' = "pending" /\ Goto(p, "publishLink") /\ UNCHANGED removal
  /\ UNCHANGED <<deckRow, reports, published, violation, faults>>

\* Wrong on purpose: the link goes out for an existing appeal too.
CreateDeckAppealOrRemind(p) ==
  /\ pc[p] = "createAppeal"
  /\ appeal' = IF appeal = "none" THEN "pending" ELSE appeal
  /\ Goto(p, "publishLink")
  /\ UNCHANGED <<deckRow, reports, published, messages, faults>>

\* CreateDeckAppeal: deck_id is unique, so the second appeal is not inserted.
CreateDeckAppeal(p) ==
  /\ pc[p] = "createAppeal"
  /\ \/ /\ appeal = "none"
        /\ appeal' = "pending" /\ Goto(p, "publishLink") /\ UNCHANGED <<removal, faults>>
     \/ appeal # "none" /\ AppealEnsured(p) /\ UNCHANGED <<appeal, faults>>
     \/ Fail /\ AppealEnsured(p) /\ UNCHANGED appeal
  /\ UNCHANGED <<deckRow, reports, published, violation>>

PublishDeckAppealAvailable(p) ==
  /\ pc[p] = "publishLink"
  /\ \/ links' = links + 1 /\ UNCHANGED faults
     \/ Fail /\ UNCHANGED links
  /\ AppealEnsured(p)
  /\ UNCHANGED <<deckRow, appeal, reports, told, decisions, violation>>

\* The owner has the token from the mail; the UPDATE wants a pending appeal.
SubmitAppeal ==
  /\ links > 0 /\ appeal = "pending"
  /\ appeal' = "submitted"
  /\ UNCHANGED <<deckRow, reports, published, messages, pc, job, faults>>

\* DecideAppeal: an approval first restores the deck, a rejection does not look.
DecideAppeal(p, verdict) ==
  /\ appeal # "none"
  /\ Enter(p, IF verdict = "approved" THEN "readAppeal" ELSE "decide",
           [kind |-> "appeal", verdict |-> verdict])
  /\ UNCHANGED <<deckRow, appeal, reports, published, messages, faults>>

\* GetDeckAppealByID: only a submitted appeal is approved.
ReadAppeal(p) ==
  /\ pc[p] = "readAppeal"
  /\ IF appeal = "submitted" THEN Goto(p, "restore") ELSE Return(p)
  /\ UNCHANGED <<deckRow, appeal, reports, published, messages, faults>>

RestoreDeck(p) ==
  /\ pc[p] = "restore"
  /\ AdminUpdateDeckStatus("active")
  /\ Goto(p, "decide")
  /\ UNCHANGED <<appeal, reports, published, messages, faults>>

\* Wrong on purpose: the decision is announced although the UPDATE found none.
DecideDeckAppealUnchecked(p) ==
  /\ pc[p] = "decide"
  /\ appeal' = IF appeal = "submitted" THEN job[p].verdict ELSE appeal
  /\ Goto(p, "publishDecision")
  /\ UNCHANGED <<deckRow, reports, published, messages, faults>>

\* Wrong on purpose: the deck's new status is stored as the appeal's.
DecideDeckAppealAsDeck(p) ==
  /\ pc[p] = "decide"
  /\ IF appeal = "submitted"
     THEN /\ appeal' = IF job[p].verdict = "approved" THEN "active" ELSE "rejected"
          /\ Goto(p, "publishDecision")
     ELSE Return(p) /\ UNCHANGED appeal
  /\ UNCHANGED <<deckRow, reports, published, messages, faults>>

\* The UPDATE only decides an appeal that is still submitted.
DecideDeckAppeal(p) ==
  /\ pc[p] = "decide"
  /\ IF appeal = "submitted"
     THEN appeal' = job[p].verdict /\ Goto(p, "publishDecision")
     ELSE Return(p) /\ UNCHANGED appeal
  /\ UNCHANGED <<deckRow, reports, published, messages, faults>>

PublishAppealDecided(p) ==
  /\ pc[p] = "publishDecision"
  /\ decisions' = decisions \cup {job[p].verdict}
  /\ Return(p)
  /\ UNCHANGED <<deckRow, appeal, reports, links, told, messages, faults>>
-----------------------------------------------------------------------------
(* admin-service: moderators *)

UpdateDeckStatus(p, s) ==
  /\ Enter(p, "setStatus", [kind |-> "status", verdict |-> s])
  /\ UNCHANGED <<deckRow, appeal, reports, published, messages, faults>>

\* report.submitted is stored under a fresh id, a redelivery under another.
HandleReportSubmitted(r) ==
  /\ reports[r] = "none"
  /\ reports' = [reports EXCEPT ![r] = "pending"]
  /\ UNCHANGED <<deckRow, appeal, published, messages, pc, job, faults>>

\* Wrong on purpose: the reports are closed whatever became of the deck.
ProcessReportFirst(p, verdict) ==
  /\ \E r \in Report : reports[r] # "none"
  /\ Enter(p, "resolve", [kind |-> "report", verdict |-> verdict])
  /\ UNCHANGED <<deckRow, appeal, reports, published, messages, faults>>

\* Any existing report may be processed, a closed one too.  A dismissal leaves
\* the deck alone.
ProcessReport(p, verdict) ==
  /\ \E r \in Report : reports[r] # "none"
  /\ Enter(p, IF verdict = "dismissed" THEN "resolve" ELSE "setStatus",
           [kind |-> "report", verdict |-> verdict])
  /\ UNCHANGED <<deckRow, appeal, reports, published, messages, faults>>

\* The moderator's call; a deleted deck gets an appeal, a hidden one does not.
SetDeckStatus(p) ==
  /\ pc[p] = "setStatus" /\ job[p].kind \in {"status", "report"}
  /\ AdminUpdateDeckStatus(job[p].verdict)
  /\ \/ job[p].verdict = "deleted" /\ Goto(p, "createAppeal")
     \/ job[p].verdict # "deleted" /\ job[p].kind = "report" /\ Goto(p, "resolve")
     \/ job[p].verdict # "deleted" /\ job[p].kind = "status" /\ Return(p)
  /\ UNCHANGED <<appeal, reports, published, messages, faults>>

\* BulkResolveReportsByTarget closes every pending report; none is an error.
BulkResolveReports(p) ==
  /\ pc[p] = "resolve"
  /\ reports' = [r \in Report |-> IF reports[r] = "pending" THEN job[p].verdict ELSE reports[r]]
  /\ IF reports' # reports THEN Goto(p, "publishResolved") ELSE Return(p)
  /\ UNCHANGED <<deckRow, appeal, published, messages, faults>>

PublishReportResolved(p) ==
  /\ pc[p] = "publishResolved"
  /\ told' = told \cup {job[p].verdict}
  /\ Return(p)
  /\ UNCHANGED <<deckRow, appeal, reports, links, decisions, messages, faults>>
-----------------------------------------------------------------------------
\* A call or statement of handler p fails and ends it, or the instance dies; a
\* message it was handling stays unacknowledged.
HandlerStops(p) ==
  /\ pc[p] # "idle"
  /\ Fail
  /\ Return(p)
  /\ UNCHANGED <<deckRow, appeal, reports, published, messages>>

HandlerStep(p) ==
  \/ DeleteViolatingDeck(p)
  \/ PublishDeckDeleted(p)
  \/ CreateDeckAppeal(p)
  \/ PublishDeckAppealAvailable(p)
  \/ ReadAppeal(p)
  \/ RestoreDeck(p)
  \/ DecideDeckAppeal(p)
  \/ PublishAppealDecided(p)
  \/ SetDeckStatus(p)
  \/ BulkResolveReports(p)
  \/ PublishReportResolved(p)

Deliver(p, e) == ModerateCard(p, e) \/ HandleModerationDeckDeleted(p, e)

Next ==
  \/ DeleteDeck
  \/ SubmitAppeal
  \/ \E e \in Event : CardPublished(e)
  \/ \E r \in Report : HandleReportSubmitted(r)
  \/ \E p \in Proc :
       \/ HandlerStep(p)
       \/ HandlerStops(p)
       \/ \E e \in Event : Deliver(p, e) \/ ModerateDeck(p, e)
       \/ \E s \in DeckStatus : UpdateDeckStatus(p, s)
       \/ \E v \in Verdict : ProcessReport(p, v)
       \/ \E v \in {"approved", "rejected"} : DecideAppeal(p, v)

Spec == Init /\ [][Next]_vars
-----------------------------------------------------------------------------
(* Properties *)

\* Nobody is told of an outcome that never was: reporters of a removal and the
\* owner of an approved appeal hear of it after the deck has had that status,
\* whichever calls failed.
NoFakeOutcome ==
  /\ told \subseteq done \cup {"dismissed"}
  /\ appeal = "approved" => "active" \in done

\* The owner hears at most one decision, and it is the one on record, also when
\* moderators approve and reject at once.
OneDecision == decisions \subseteq {appeal}

\* The owner of a deck gets at most one appeal link, however often it is
\* deleted and the messages about it delivered.
OneLink == links <= 1

\* An appeal is never reopened, nor decided before it is submitted.
AppealMovesForward ==
  [][ \/ appeal = "none" /\ appeal' = "pending"
      \/ appeal = "pending" /\ appeal' = "submitted"
      \/ appeal = "submitted" /\ appeal' \in {"approved", "rejected"} ]_appeal

\* The deck is down because a moderator, or the moderation service, deleted it.
Removed == status = "deleted" /\ removedBy = "moderator"

\* Nothing is under way that could still give the owner an appeal.
Quiet ==
  /\ \A p \in Proc : pc[p] = "idle"
  /\ \A e \in Event : violation[e] # "out" /\ removal[e] # "out"

\* The deck's only appeal has been used up.
Decided == appeal \in {"approved", "rejected"}

\* As long as no call fails, and until the deck's only appeal is decided, the
\* owner of a removed deck, by whichever of the three paths, can appeal by the
\* time the system is quiet: the link is out and the appeal open.  A removal
\* after the decision gives no such chance.
RemovalIsMailed ==
  Quiet /\ faults = 0 /\ Removed /\ ~Decided =>
    links > 0 /\ appeal \in {"pending", "submitted"}
=============================================================================
