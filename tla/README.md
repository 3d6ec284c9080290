# A verification of mem_pan's services

mem_pan is a flashcard platform written as Go microservices (plus one Python
service). Every service owns a Postgres database and answers gRPC and HTTP
requests; services call each other over gRPC and publish events to Google
Pub/Sub, which pushes them to the subscribers at least once and in no
particular order. Payments go through PayOS. No call of one service shares a
database transaction with the next call, so almost everything that is hard to
test in this system is what happens *between* two calls: another request, a
redelivered event, a failure, a restart.

This directory holds TLA+ models of the parts where that matters, TLC
configurations that check them on small instances, and TLAPS proofs for all
instances. `PROJECT.json` maps each definition to the source lines it models.

## Inventory

| component | state | operations | talks to | hard parts |
|---|---|---|---|---|
| billing: payments | `subscriptions`, `payment_transactions`, `payment_webhook_events` | CreateCheckout, ProcessPayOSWebhook, ConfirmPayment, ExpireSubscriptions | PayOS (HTTP + webhooks), auth (`is_plus`) | the webhook and the returning client activate the same order at once; redelivery; a failure half way |
| billing: creators | `creator_earnings`, `creator_balance_transactions`, `creator_withdrawals` | SyncRevenuePool, single/batch payout, CreateCreatorWithdrawal | study (shares), PayOS payouts | double payment, lost answers, ledger and row updated separately |
| study: sessions | `study_sessions`, `session_cards`, `user_cards`, `revlog` | StartSession, ReviewCard, FinishSession | deck, auth, Pub/Sub | a review is several statements; sessions that stay ongoing |
| study: revenue share | `study_session_metrics`, `monthly_revenue_pools`, `creator_earnings` | CalculateMonthlyRevShare | billing | five calls and no transaction; cap and rounding; a sync that arrives late |
| study: FSRS | `fsrs_weights`, settings | optimizeUser, settings | moderation-fsrs | version numbering under concurrency |
| stats | counters per user, deck and day | one handler per event | Pub/Sub, auth | duplicates, reordering, partial failure |
| admin | `reports`, `appeals` | ProcessReport, SubmitAppeal, DecideAppeal | deck, auth, Pub/Sub | side effect first, bookkeeping second |
| moderation-fsrs | none | `_moderate_card` | deck, Pub/Sub | redelivery after an appeal |
| deck | `decks`, `cards`, `folders`, `reviews` | CRUD, publish, clone, admin status | Pub/Sub, study, auth | counters kept by separate statements; a private deck must not be found |
| search | Elasticsearch documents | one handler per event | Pub/Sub | update after delete, orphans |
| auth | `users`, `refresh_tokens`, `verification_tokens`, Redis | register, login, refresh, verify, reset, change password, ban | Pub/Sub | single use of tokens, sessions that outlive a reset |
| notification | devices, templates, `notification_log` | scheduler ticks, event mails | FCM, SMTP, stats, study | tick windows, missing dedup |

What makes each correct: payments must never be granted without money nor lost
after it; a creator must be paid once and debited for it; a session must end
when its cards are graded; counters must agree with what they count; content
removed by moderation must stay removed until an appeal restores it, and then
must come back; a deleted document must not be resurrected; a token must work
once. `PROJECT.json` lists the hazards at their lines.

The four actors that make these properties hard are the same everywhere: a
client that repeats or races its own requests, a third party (PayOS, Pub/Sub)
that delivers again and in any order, a cron or administrator that runs in
between, and a failure or crash after any single statement.

## Plan

Written, in this order (the most valuable behaviour first):

1. `PlusGrant`, the promise of the payment core, and `Subscriptions`, which
   implements it.
2. `CreatorPayouts`: money that leaves the platform, and `EarningPayment`, its
   promise to those who earned it.
3. `StudySession`: the reviews that both the schedule and the creators' income
   are computed from.
4. `Moderation`: one module that composes deck, admin, moderation-fsrs and the
   message queue, since none of its properties is about one of them alone.
5. `StatsConsumer`: an event consumer without deduplication.
6. `DeckEvents`, `DeckCards`, `SearchIndex` and `Catalogue`, which joins the
   last two by the events between them.
7. `Accounts`: tokens, sessions and passwords.
8. `RevenueShare`: where the amounts of `CreatorPayouts` come from.
9. `Reminders`: two crons over the time zones of the users.

What would come next:

- *Weight versions* (`optimizer.go:147`): next version, deactivate, insert. The
  unique index keeps two active rows out; what is left is a user without any.
- *Deck events into* `StatsConsumer`: today its events are any events; fed by
  `DeckCards`, the counters could be compared with the cards themselves.
- *What withdrawals may overdraw*: the code bounds it by what is asked at once;
  a bound has to be agreed on before it can be stated.
- *Proofs*: every invariant and action property that a run checks is proved. An
  abstract specification of withdrawals, as `PlusGrant` is one of checkouts and
  `EarningPayment` one of earnings, would be the next refinement.

## How the models are built

One convention runs through the detailed modules.

- A **handler** is an element of `Proc` (`Procs`) with a control point
  `pc` (`at`) and its locals `job` (`ev`, `seen`; in later modules one variable per kind of request, as
  `request`, `session`, `clone`). One step is one call that
  changes or reads shared state: one SQL statement, one gRPC or PayOS call, one
  publication. What the code computes between two calls belongs to the step
  before or after it. Any other handler may run between two steps, as READ
  COMMITTED allows outside a transaction. What does run in a
  transaction, `SyncRevenuePool` (`billing_repo.go:175`), is one step.
- A **failure** is a step of its own (`HandlerStops`, `Die`, or a named variant
  where the code has an error path): the calls made stand, the rest never
  happens. Errors the code logs and passes over are modelled as passed over.
  `MaxFaults` bounds how many there are; `faults` counts them so that a property
  may say "unless a call failed".
- A **request** the code refuses in its guard changes nothing and is left out:
  it would be a stuttering step.
- An **event or webhook** stays deliverable until, and after, it is acknowledged.
- A definition marked *Wrong on purpose* is the variant that a plausible
  slip would have produced. No specification uses it; `PROJECT.json` lists which
  property each one breaks. They document what the properties depend on.

## Modules

### `PlusGrant` and `Subscriptions` (billing-service)

`PlusGrant` is what a user is promised, without links, webhooks or rows: an
order is granted only once it is paid, a user becomes Plus only through a paid
order of theirs; a grant may lapse, a payment and Plus are not taken back.

| state | code |
|---|---|
| `subStatus`, `periodStart`, `periodEnd` | the `subscriptions` row of each checkout |
| `txStatus` | `payment_transactions.status` |
| `eventKeys` | the unique event keys of `payment_webhook_events` |
| `link`, `paidTime`, `webhooks` | PayOS: the payment link, when it was paid, what was sent (external) |
| `isPlus` | what was pushed to auth-service |
| `now` | the clock, which only `Tick` moves |

The actions are the calls of `CreateCheckout`, `ProcessPayOSWebhook` and
`ConfirmPayment` in the order of `billing_service.go`; the last two end in the
same four calls (mark the transaction paid, read the active subscription,
activate, push `is_plus`), which are shared actions, with `ExpireSubscriptions`
at any time. `PayerPays`, `PayerPaysPart`, `PaymentDeclined`, `LinkCancelled` are
the environment. Money comes by bank transfer, so a payment may be of another amount than the order's:
`LookupTransaction` ends such a webhook with `ErrAmountMismatch`, after its key
was recorded, and thereby for good. `ConfirmPayment` compares no amounts.

### `EarningPayment` and `CreatorPayouts` (billing-service)

`EarningPayment` is the payment of an earning without rows, requests, keys or
recalculations: a payout is ordered only for a claimed earning, one call orders
it at most once, it is recorded as paid only after an order and then for good; a
claim may be given up, order or not. When the money of an order leaves is not
part of the promise, for the code records "paid" on PayOS's approval
(`earningStatusFromPayoutState`, as `json_contract_test.go:115` asserts).

Two doors for the same money. Earnings: `SyncRevenuePool` recomputes a month;
a single or batch payout validates, claims (`MarkCreatorEarningPayoutProcessing`
is the guarded UPDATE), calls PayOS, then settles or fails each row. Withdrawals:
the balance is checked, a row and a ledger reservation are written, PayOS is
called, and row and ledger follow the answer, with the errors of those updates
ignored as in the code (`BestEffort`). `accepted` and `taken` record what PayOS
really took on, by idempotency key, to carry out at once or later; `lost` the
payouts whose answer never arrived. An answer says which payouts are completed or
approved: those are settled as paid, the others stay in processing. The state of
a batch is taken for that of each of its payouts, as the code takes it where a
transaction has none.

### `StudySession` (study-service)

One user and one deck. `StartSession` abandons the ongoing session, selects the
cards, inserts the session and its cards one by one; `ReviewCard` reads the
session card and the user's card, updates the schedule, inserts the revlog,
marks the grade and counts it (`IncrementCompletedCards` ends the session at the
last card); `FinishSession` ends it, counts the log and records the metrics.
The FSRS state of a card is abstracted to `reps`: the number of times it was
rescheduled, which is what "read, compute, write" can lose.

### `Moderation` (deck, admin, moderation-fsrs, Pub/Sub)

One deck. A violating card leads moderation-fsrs to delete the deck and to
publish `moderation.deck_deleted`; admin-service mints the appeal and publishes
its link; moderators resolve reports, set statuses and decide the appeal; the
owner deletes the deck or submits the appeal. `removedBy` tells whose deletion
it is, `done` which statuses moderators have really given the deck, `told` and
`decisions` what was announced.

### `StatsConsumer` (stats-service)

The handler of every event, statement by statement: `user.registered`,
`deck.created`, `deck.deleted`, `card.created`, `card.reviewed`. `userStats`,
`deckStats`, `daily`, `activity`, `snapshots` are the tables; an UPDATE of a
missing row changes nothing (`Update`), an increment is the SQL expression with
its `GREATEST(0, ...)` (`Positive`). `Logged` names the statements whose errors
are passed over, and where the handler goes on; every other error answers 5xx.
`deliveries`, `acked` and `subtracted` only record what happened: the pushes,
numbered per event, which `MaxDeliveries` bounds; the events answered with 204;
how often a deck's deletion lowered the total of its user. `deck.updated`,
usernames and durations are left out: no counter depends on them.

### `DeckEvents`, `DeckCards`, `SearchIndex`, `Catalogue` (deck, search, Pub/Sub)

`DeckEvents` has the events, all that were ever published: a subscriber may be
given any of them at any time, again and out of order. `DeckCards` is
deck-service: creating, updating, moderating, deleting and cloning decks;
creating cards one by one or in bulk, and deleting them. A card's row and the
counter of its deck are written by separate statements, and `disturbed` collects
the decks where one of them failed or was overtaken. `SearchIndex` is the
consumer: `deckDoc` and `cardDoc` are the documents, `Upsert` is Elasticsearch's
`doc_as_upsert`, `purging` a handler between its two calls; `SearchDecks` is
what the two phases of a search show a caller. `Catalogue` conjoins the two.

### `Accounts` (auth-service)

`account`, `token` and `session` are the rows of `users`, `verification_tokens`
and `refresh_tokens`; `request` holds the resets, verifications and changes of
password that are between two statements. A password is known by its *era*, the
number of resets before it, since what matters is which passwords a reset has
made worthless. `shared` are the tokens that were marked used while another
request had them in hand, `late` marks what a reset could not see: a login or a
change of password that had read the older password and finished afterwards.

### `RevenueShare` (study-service, and billing-service's side of the sync)

The five calls of `CalculateMonthlyRevShare`, of any number of calculations of
one month at once. `recorded` is `study_session_metrics`; `pool` and `earnings`
are the month's rows; `Allocation` is the INSERT ... SELECT with its rounding,
cap and threshold, `Part` the cut to whole amounts (rates are exact here, floats
in the code). `alone` are the calculations that no other one ran beside, `clean`
says that such a one finalized the month, `basis` what its earnings were
computed from. `late` are syncs the client has given up on.

### `Reminders` (notification-service)

One user with one of six profiles, one cron. `Clock` fires a tick every quarter
of an hour, `HandleTick` is a delivery, which takes the time at which it is
handled, `RunForUser` decides and pushes. `Promised` is what the header of
`scheduler.go` says; `entitled` holds from the opening of the user's window for
as long as nothing went wrong, `calm` on days whose ticks came once and at once.
The names that every module has (`RemindersInit`, `RemindersTypeOK`) carry the
module's here, because `CronJobsProofs` reasons about `RevenueShare` as well.

## What each run checks

A quarter of an hour of TLC on two cores covers all of them.

| run | question | instance |
|---|---|---|
| `subs_safety` | can any race or failure lose a paid order, shorten a period, or break the promise of `PlusGrant`, that access is for those who paid? | 1 user, 2 orders, 2 handlers, clock 0..1, 1 failure |
| `subs_live` | does a payment become Plus through webhooks alone? | 1 order, 2 handlers, 1 failure, `FairSpec` |
| `payouts_safety` | is an earning claimed by one request, paid once and for all, and does the ledger follow the money? | 2 earnings in 2 months, 1 withdrawal, 2 requests at once, 1 batch, 1 failure |
| `study_safety` | do log, grades, count, status and recorded figures agree? | 2 sessions, 2 cards, 2 requests at once, 1 failure |
| `moderation_safety` | are announced outcomes real, is there one link, one decision, and can the owner appeal a removal as long as no appeal was decided? | 2 violations, 1 report, 2 handlers, 1 failure |
| `stats_safety` | are streaks earned, cards covered and acknowledged reviews counted under redelivery and reordering? | 7 events over 3 days, 2 handlers, 4 deliveries, 1 failure |
| `catalogue` | does a search show only decks that are, or have been, public, no deleted deck, and does a deck count its cards? | 2 decks, 2 cards, 2 users, 2 deletions and 1 clone at once, 5 requests, 1 failure, any delivery |
| `accounts` | does a reset end the sessions of the older passwords, and a mailed token work once? | 1 user, 2 logins, 3 tokens, 2 requests at once, 1 failure |
| `cron_jobs` | does a finalized month hold the shares of its own pool, and do they stay within it? Is everyone who is due reminded, and once? | 6 creators, 7 sessions, 2 calculations at once, 1 late sync; 6 profiles, 20 hours into a weekend, 2 handlers, delays up to 17 minutes |

`CHECK_DEADLOCK FALSE` is set where the system comes to rest: all orders
decided, all deliveries or sessions used up, no failure left. `Moderation` never
rests (a moderator may always set the status again), nor do the jobs of
`cron_jobs` within its bounds, so these two runs check deadlock.

`cron_jobs` checks `RevenueShare` and `Reminders` beside each other. They share
no state, and no question is about both: `looked` names the job that a behaviour
follows, while the variables of the other keep one of their initial values.

### Bounds and why they are enough

- *Two handlers* are what a race between two statements takes; the
  runs that look for one find it with two. The proofs below have no such bound.
- *Two orders* are what stacking needs; *two sessions* what `StartSession`
  closing the earlier one needs; *two earnings in two months* tell a batch from
  a single payout and a recalculated month from the other one.
- *One failure*: each property says what holds after failures in terms of
  `faults` or of what PayOS really did, and a second failure meets a system
  whose handlers have returned to idle. The theorems hold for every number.
- *Other amounts* (`OtherAmount`) are paid in the two runs about what becomes of
  a payment; to the safety of the rows, which the theorems show for all amounts,
  such a webhook adds a key and nothing else.
- *Clock 0..1*: a checkout lives one unit and a plan one unit, so an order can
  expire, be paid on the last instant, and stack behind another.
- *Amounts {2}, minimum 1*: `SyncRevenuePool` changes an earning between 2 and
  0, below and above the minimum; the ledger's arithmetic is about which rows
  are counted, not about the sums.
- *Four deliveries in all*, of seven events: enough for one event twice and two
  more around it, on the same or different days. The three reviews of
  `MCStatsConsumer` include one whose day in the user's timezone is not the UTC
  day, one that masters the card and one that forgets it. *Six deliveries* in
  `stats_redelivered`: what sets up two decks, and the deletion of one twice.
- *Two decks of different users*: a clone needs a source, and a card document
  may be left behind by one deck and lead to it from a search. *Five requests*:
  create, publish, clone, delete, and one more.
- *Three tokens*: two resets and a verification; a mail that is sent again is
  one of them. *Two logins*: one before and one across a reset.
- *Six creators*: five fill the pool with caps of 20%, so that six are needed
  for shares that overrun it by rounding: with a pool of 40 each share is 6 2/3,
  and the six rounded ones are 42. The seventh session gives the first creator
  the second learner that the other request asks for.
- *Friday 12:27 to Saturday 09:00*: it begins as the window of one profile is
  about to open and the day of another to begin; every profile has its window
  within it, and the weekend starts at another instant for each. Ticks and send
  times fall on even instants, deliveries on odd ones: a tick handled at the
  exact nanosecond of both ends of a window would count for both, and is left
  out.
- Symmetry is used for handlers, requests, tokens, and for orders with the same owner and
  duration, never in a run with a liveness property.

### What the code does not do

Three runs state what a document or comment of the repository says, and TLC finds
the behaviour that contradicts it:

| run | contradicted by | what happens |
|---|---|---|
| `subs_lost` | `billing_service.go:372` | one failed call after the event key is stored, and every redelivery is dropped as a duplicate |
| `payouts_twice` | `billing_service.go:1079` | a single payout's answer is lost, a batch pays the same earning under a new key |
| `stats_redelivered` | stats `handler.go:128` | a second delivery of `deck.deleted` still finds the row of the deck and subtracts its cards again |

`PROJECT.json` quotes the sentence each one contradicts. The same models also
reach the following, which the properties above leave room for in so many words:

- Webhook and `ConfirmPayment` both activate an order, and the second activation
  pulls a stacked period back to the payment time (`billing_service.go:544`).
- A crash between mark and count leaves a study session ongoing with every card
  graded (`study_service.go:413`), the state that migration
  `000004_backfill_completed_sessions` was written to repair.
- A deck removed after its appeal was decided has no appeal left, as
  `deck_appeals` has one row per deck (`appeal_service.go:123`), although
  admin's `rpc_decks.go:121` says there to "give the owner the chance to appeal".
- A review delivered again is counted again (stats `handler.go:196`), one of
  those events that `STATS_SERVICE.md:656`, "idempotent for most", leaves out.
- An update delivered after a later one leaves a deck searchable that was made
  private, or `deck.created` delivered again after `deck.deleted` brings it back
  (`indexer.go:167`); a deck hidden by a moderator stays active in the index,
  since no event says so.
- A decrement that overtakes the increment of the same card is lost in
  `GREATEST`, and the deck counts one card too many for ever
  (`card_service.go:333`).
- A login that has read the user before a reset stores its session after it
  (`auth_service.go:198`); two resets that both read the token before either
  marked it set two passwords (`auth_service.go:378`); a change of password
  revokes no session, and may overwrite the reset it overlapped.
- Two calculations of a month that overlap may leave the pool of one with the
  earnings of the other; a sync given up on after 15 seconds may arrive after a
  newer one (`study_service.go:565`).
- A tick handled late or twice reminds a user twice: `dedupeSkip`
  (`scheduler.go:325`) looks for rows of `notification_log`, and only tests call
  `LogNotification`. A user whose best hour is midnight is never reminded: the
  send time is 23:45 of the day before, which no tick of the day can meet
  (`scheduler.go:139`).

## Fairness

Only `PaidIsHonoured` is a liveness property of a passing run, so only
`Subscriptions` has a fair specification. `WF_vars(HandlerStep(p))`: a handler
that has started is a running goroutine. `SF_vars(DeliverWebhook(m))`: PayOS
repeats a webhook until it is accepted, and the server starts a goroutine per
request, so other requests cannot occupy the handlers for ever; weak fairness
would let them, an artefact of the finite `Proc`. Clients, payers, the clock and
`ExpireSubscriptions` get no fairness: nobody has to confirm, pay or look.
`PaidIsHonoured` is about payments of exactly the order's amount, whatever
other transfers are reported beside them; the code refuses any other amount. It
allows for `faults > 0`, since `subs_lost` shows that a failure can in fact lose
the activation.

## What is proved

The theorems hold for every number of users, orders, earnings, sessions, cards,
decks, tokens, calculations, events, handlers and failures. Every invariant and
action property that a run checks is one of them; only liveness is not. They are
in `SubscriptionsProofs`, `CreatorPayoutsProofs`, `StudySessionProofs`,
`ModerationProofs`, `StatsConsumerProofs`, `CatalogueProofs`, `AccountsProofs`
and, for the two jobs that a cron starts, `RevenueShare` and `Reminders`,
`CronJobsProofs`. What they assume of the constants:

- `Subscriptions`: every order has an owner and a positive duration.
- `CreatorPayouts`: earnings have a month and a payee, withdrawals a requester;
  amounts and the minimum are natural numbers.
- `StudySession`: finitely many cards and handlers, so that both can be counted.
- `StatsConsumer`: days are positive numbers, events have the fields that the
  handlers read, and the deck events of one deck carry one user; finitely many
  handlers.
- `Catalogue`: finitely many cards and deletions; every deck has an owner.
- `RevenueShare`: sessions have a creator and a score; requests are any integers;
  finitely many sessions and creators.
- `Reminders`: hours, time zones and reminder times fall on even units of the
  clock, as ticks do, and deliveries are handled on odd ones; the span of time
  considered is not empty.
- everywhere: the bounds are natural numbers, and model values differ from what
  they stand beside.

Each module's type correctness comes first. It already carries what the
properties need of the handlers' locals, for instance that a handler reviewing a
card holds a session and a card. The others:

**Money before access** (`PaymentCorrect`, from which `ActiveAfterPayment`,
`PlusAfterPayment`, `PaymentNotLost`, `PeriodIsFull`). "Active only if paid" is
not inductive: activation looks at no payment, it trusts the branch taken four
calls earlier. `PaymentInv` adds what justifies that trust: webhooks and PayOS
answers remain true once given (`WebhookTruth`, `HandlerTruth`), a paid link is
never reopened because its order code is fresh (`FreshLink`), a payment needs a
transaction row (`TransactionTruth`), and the start a handler computed is not
before the payment (`StartAfterPayment`). `SubscriptionsImplementPlusGrant` maps
each step to a step of `PlusGrant` or a stutter, and uses the same invariant.

**One payout at a time** (`ClaimsExclusive`, then `PaidOnceAndForAll`). The guarded
UPDATE makes the claim exclusive, and a recalculation leaves a claimed row alone;
a paid row can then be neither claimed nor ordered again (`PaidStays`, an action
property). `PayoutsImplementEarningPayment` rests on the same invariant, and on
`AnswersAreTrue`, that what a handler takes for approved PayOS has taken on: the
claim maps to `Claim`, a call to PayOS to `Order`, settling and failing to
`Settle` and `GiveUp`. `RepeatsTakeFaults` says how far the finding `payouts_twice` goes: a
payout of an earning is taken on at most once more than calls have failed, and
once if none has. Its invariant, `PayoutsFollowFaults`, is a count for earnings that are open
and one more for those that nobody will send for any more (`Closed`).

**The ledger follows the money** (`TransfersDebited`, `FailuresRefunded`). Row
and ledger are written by separate calls, so `WithdrawalInv` says for each
control point what both hold there (`Before`), that one handler writes a row
(`RowHasOneWriter`), and what is left when that handler has died
(`LedgerFollows`).

**Grades are counted** (`GradesAreCounted`, then `GradedSessionsEnd`). The
equation between graded cards, count and requests about to count is inductive
by itself; its proof is about cardinalities of sets of handlers.
`GradedSessionsEnd` also needs that an ongoing session has a card to go
(`OngoingHasCards`), which rests on the count and the end being one UPDATE.

**Schedules and figures follow the log.** `SchedulesAreLogged` is an equation of
the same kind: the repetitions a schedule counts are covered by the rows of the
log and by the requests between their row and their schedule, and what a request
has read is accounted for until it writes (`ReadIsAccounted`), which is why two
reviews at once may lose a repetition and never invent one.
`MetricsAreNotInflated` from `SummaryIsLogged`: a summary was true of the log
when it was read, and the log only grows.

**Moderation.** `AtMostOneLink` from `LinkHasOneSender`: only the handler that
inserted the appeal may publish. `AtMostOneDecision` from `DecisionIsRecorded`,
`OutcomesAreReal` from `ActedBefore` (the side effect precedes the
bookkeeping). `RemovalsAreMailed` from `ObligationIsHeld`: as long as no call
fails and the deck has no appeal, a handler or a message holds the duty to open
one; once it has, the link is out or in the hands of the handler that made it.
It is about removals before the appeal is decided, the code offers no other.

**Statistics.** `BucketsCover`: a review takes a card out of at most one bucket
and puts it into one, and `GREATEST` only errs upwards (`DeltaIsBalanced`,
`ShiftedRow`). `StreaksAreEarned`: the streak a handler has read was earned then
and stays so (`SeenIsEarned`, `EarnedGrows`), which is why overwriting without a
lock may lose a day but never invents one. Both rest on `HandlesItsEvent`.
`AcknowledgedAreCounted`: an acknowledged review is one whose handler went past
every statement, so the invariant is about all reviews that are answered or past
the statement that counts them (`Reached`, in `DailyIsCounted` and
`ReviewsAreCounted`). A step that reaches one more review adds one to the count,
or has found no row (`Uncounted`), which takes a failed statement.

**Search and counters.** `FoundWasPublic` from `PublicTruth`: whatever a row, an
event in flight or a document calls public has been public, so that no order of
deliveries can invent it. `DeletedIsHidden` from `ClosedTruth`: an upsert gives a
new document no status, and the search asks for an active one. `CountsAreExact`
from `Exact`: the count is the number of stored cards that no creation has left
to count yet and no deletion has taken away already, an equation between
cardinalities in which every step moves both sides.

**Passwords.** `ResetIsFinal` from `EraInv`: whoever holds a password or has
proved one holds one of the current era, or is marked late; a session of an era
before the last completed reset is over, or late. `TokenUsedOnce` from
`TokenInv`: unless it is shared, at most one request is past `MarkUsed` with a
token, and from then on nobody can get it in hand.

**Revenue share.** `FinalMonthIsConsistent` from `ProgressInv`, what a
calculation that is alone has done so far is still there, and `SettledInv`,
nobody is between two calls of a month that is final and clean: to get there he
would have made it a draft. `MonthIsWithinItsPool` is about sums over sets of any
size. They are folds, of which the provers can only use the defining equation, so
the lemmas argue by a smallest counterexample instead of by induction
(`MinimalSubset`): the fold exists and is unique (`SumExists`, `SumIsUnique`), a
sum splits over disjoint sets (`SumOfDisjoint`), grows with its terms
(`SumGrows`), and what the creators get adds up to the pool's share of their
scores and at most half an amount of rounding each (`SharesAddUp`).

**Reminders.** `CalmDaysRemindOnce` from `OnceInv`: on a calm day only one
delivery is within the window (`OneDue`), and once it is in hand or has reminded
the user no other is left (`Spent`). `EntitledAreReminded` from `EntitledInv`:
a window has a tick (`SomeTick`), and as long as nothing goes wrong each of its
ticks is still to be handled, or in the hands of a run that will send
(`InHand`), or the user has been reminded. Both use `SendIsPromised`: the send
time that `RunForUser` computes is the one the header of `scheduler.go` promises.

### Only model-checked

`PaidIsHonoured` is liveness under fairness, which the prover does not reach.
The three contradictions found are counterexamples, which need no proof.

## Gaps in the code met while modelling

Not held against a stated promise, and therefore no run of their own:

- Nothing ever resets `is_plus` when a subscription runs out; study-service
  trusts the flag.
- Two withdrawals at once both pass the balance check and overdraw it
  (`billing_service.go:773`).
- A claim does not look at the amount again: a recalculation in between may have
  made it 0 (`billing_service.go:1203`).
- Nothing asks PayOS again about a payout: a row left in `processing` (a batch
  that fails on a later item, a payout pending or rejected at PayOS, a crash) is
  never reconciled, and an earning is "paid" from PayOS's approval on, whatever
  becomes of the transfer.
- A transfer of another amount is refused by the webhook for good
  (`billing_service.go:379`), yet `ConfirmPayment` activates the same order
  without comparing amounts.
- An approved appeal restores a deck that its owner has deleted meanwhile; and a
  restored deck may end with a rejected appeal when two moderators decide at once.
- moderation-fsrs swallows a failed `AdminUpdateDeckStatus` and still tells the
  owner that the deck was deleted.
- The title in the appeal mail comes from the first result of
  `deckclient.UpdateDeckStatus`, which is the status.
- A late review resets a streak. A card in review that reaches 21 days of
  stability moves from mastered to mastered and is never counted as mastered.
- A redelivered `user.registered`, or one that follows the first review, is
  refused for ever: `ON CONFLICT DO NOTHING RETURNING` yields no row, which is
  taken for an error.
- A clone's `deck.created` already has the `card_count` that its cards then add
  again in the index. A `card.created` after `deck.deleted` leaves an orphaned
  document (the comment at search `handler.go:147` knows), and `folder.updated`
  after `folder.deleted` brings the folder back.
- `RecomputeOptimalHours` has no caller and nothing writes
  `reminder_local_time`: today every user is reminded at 19:45 and warned at
  21:00.
- Two statements of the optimizer apart, a user has no active weights
  (`optimizer.go:147`) and is scheduled with the defaults.
- study-service's `TESTS.md:22` describes resuming a session; `StartSession`
  abandons it.

## What is not modelled, and why

- Folders, ratings and access levels of deck-service, reports about users,
  profiles and roles: single statements that nothing else depends on. Weight
  versions: see the plan.
- FSRS scheduling and optimisation are floating-point; only that a card is
  rescheduled once per review is kept. The classification of a card's text by
  moderation-fsrs is an external answer (violation or not).
- PayOS signatures, HTTP, JSON and gRPC conversions, authentication middleware
  and the gateway carry no state the properties are about.
- Read-only queries (lists, searches, dashboards) change nothing.
- `pb/`, the sqlc output and the mocks are generated from `.proto` and `.sql`
  files: more than half of all lines of Go. What they do is modelled where it is
  written, in the queries and services, and a definition is mapped there.
- `third_party`, the frontend, `ml_model`, scripts and deployment files hold no
  logic of the services.
