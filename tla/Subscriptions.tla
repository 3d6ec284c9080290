--------------------------- MODULE Subscriptions ---------------------------
(***************************************************************************)
(* The payment and subscription core of billing-service.                   *)
(*                                                                         *)
(* A checkout creates one subscriptions row, one PayOS payment link and    *)
(* one payment_transactions row; all three are named here by the Order.    *)
(* Every HTTP request runs in a goroutine of its own, so a handler is a    *)
(* process p whose control state pc[p] advances one repository or client   *)
(* call at a time (no call shares a database transaction with the next).   *)
(* A handler may stop after any call: the call fails, or the instance      *)
(* dies.  PayOS is external: it is modelled by what the handlers observe   *)
(* of it (a link's status, webhooks delivered at least once, any order).   *)
(***************************************************************************)
EXTENDS Naturals

CONSTANTS
  User,         \* accounts
  Order,        \* checkouts, by PayOS order code
  Owner,        \* the account that starts the checkout
  Duration,     \* length of the plan bought by the checkout
  OtherAmount,  \* orders that may be paid another amount than theirs, too
  Proc,         \* concurrently running request handlers
  CheckoutTTL,  \* life of a pending subscription (24h in the code)
  MaxTime,      \* bound on the clock
  MaxFaults     \* bound on failed calls and crashes

ASSUME OwnerAssumption == Owner \in [Order -> User]
ASSUME DurationAssumption == Duration \in [Order -> Nat \ {0}]
ASSUME OtherAmountAssumption == OtherAmount \subseteq Order
ASSUME BoundsAssumption ==
  /\ CheckoutTTL \in Nat \ {0}
  /\ MaxTime \in Nat
  /\ MaxFaults \in Nat

VARIABLES
  now,          \* the clock read by now() in SQL and s.now() in Go
  subStatus,    \* subscriptions.status, "none" before the INSERT
  periodStart,  \* subscriptions.current_period_start
  periodEnd,    \* subscriptions.current_period_end
  txStatus,     \* payment_transactions.status, "none" before the INSERT
  link,         \* PayOS: status of the payment link
  paidTime,     \* PayOS: transactionDateTime of the payment
  webhooks,     \* PayOS: webhooks sent; any of them may be delivered again
  eventKeys,    \* payment_webhook_events.event_key
  isPlus,       \* auth-service users.is_plus
  pc,           \* where each handler is
  job,          \* the handler's local variables
  faults        \* failed calls and crashes so far

vars == <<now, subStatus, periodStart, periodEnd, txStatus, link, paidTime,
          webhooks, eventKeys, isPlus, pc, job, faults>>

subRow   == <<subStatus, periodStart, periodEnd>>
payOS    == <<link, paidTime, webhooks>>
-----------------------------------------------------------------------------
SubStatus == {"none", "pending", "active", "cancelled", "expired"}
TxStatus  == {"none", "pending", "paid", "failed", "cancelled"}
LinkStatus == {"none", "open", "paid", "cancelled"}

\* A webhook tells of one payment attempt: how it ended, and whether its amount
\* is exactly the order's.  Attempts have event keys of their own.
Outcome == {"success", "declined", "cancelled"}
Webhook == [order : Order, outcome : Outcome, exact : BOOLEAN]

\* Control points: the handler is about to make the named call.
ActivationPC == {"markPaid", "readActive", "activate", "syncPlus"}
PC == ActivationPC \cup
      {"idle", "createLink", "cancelSub", "insertTx",
       "lookupTx", "markStatus", "queryPayOS", "markCancelled"}

\* Locals: the request's order; from = the webhook outcome being handled, or
\* the endpoint called; exact = whether the webhook's amount is the order's;
\* start = periodStart computed by activationPeriod.
Job == [order : Order, from : Outcome \cup {"checkout", "confirm"},
        exact : BOOLEAN, start : Nat]
NoJob == [from |-> "none"]

TypeOK ==
  /\ now \in Nat
  /\ subStatus \in [Order -> SubStatus]
  /\ periodStart \in [Order -> Nat]
  /\ periodEnd \in [Order -> Nat]
  /\ txStatus \in [Order -> TxStatus]
  /\ link \in [Order -> LinkStatus]
  /\ paidTime \in [Order -> Nat]
  /\ webhooks \in SUBSET Webhook
  /\ eventKeys \in SUBSET Webhook
  /\ isPlus \in [User -> BOOLEAN]
  /\ pc \in [Proc -> PC]
  /\ job \in [Proc -> Job \cup {NoJob}]
  /\ \A p \in Proc : pc[p] # "idle" => job[p] \in Job
  /\ faults \in Nat

Init ==
  /\ now = 0
  /\ subStatus = [o \in Order |-> "none"]
  /\ periodStart = [o \in Order |-> 0]
  /\ periodEnd = [o \in Order |-> 0]
  /\ txStatus = [o \in Order |-> "none"]
  /\ link = [o \in Order |-> "none"]
  /\ paidTime = [o \in Order |-> 0]
  /\ webhooks = {}
  /\ eventKeys = {}
  /\ isPlus = [u \in User |-> FALSE]
  /\ pc = [p \in Proc |-> "idle"]
  /\ job = [p \in Proc |-> NoJob]
  /\ faults = 0
-----------------------------------------------------------------------------
\* Handler p moves to the control point c and keeps its locals.
Goto(p, c) == pc' = [pc EXCEPT ![p] = c] /\ UNCHANGED job

\* Handler p returns: its locals are gone.
Return(p) ==
  /\ pc' = [pc EXCEPT ![p] = "idle"]
  /\ job' = [job EXCEPT ![p] = NoJob]

\* Handler p is idle and starts at control point c with the locals of a request
\* for order o; a webhook brings its outcome and whether its amount is exact.
BeginWith(p, c, o, f, exact) ==
  /\ pc[p] = "idle"
  /\ pc' = [pc EXCEPT ![p] = c]
  /\ job' = [job EXCEPT ![p] = [order |-> o, from |-> f, exact |-> exact, start |-> 0]]

Begin(p, c, o, f) == BeginWith(p, c, o, f, TRUE)
-----------------------------------------------------------------------------
(* CreateCheckout *)

\* Wrong on purpose: the row is inserted as active, to be cancelled on failure.
CreateSubscriptionActive(p, o) ==
  /\ subStatus[o] = "none"
  /\ Begin(p, "createLink", o, "checkout")
  /\ subStatus' = [subStatus EXCEPT ![o] = "active"]
  /\ periodStart' = [periodStart EXCEPT ![o] = now]
  /\ periodEnd' = [periodEnd EXCEPT ![o] = now + CheckoutTTL]
  /\ UNCHANGED <<now, txStatus, payOS, eventKeys, isPlus, faults>>

\* The plan is known; INSERT the subscription as pending for CheckoutTTL.
CreateSubscription(p, o) ==
  /\ subStatus[o] = "none"
  /\ Begin(p, "createLink", o, "checkout")
  /\ subStatus' = [subStatus EXCEPT ![o] = "pending"]
  /\ periodStart' = [periodStart EXCEPT ![o] = now]
  /\ periodEnd' = [periodEnd EXCEPT ![o] = now + CheckoutTTL]
  /\ UNCHANGED <<now, txStatus, payOS, eventKeys, isPlus, faults>>

\* CreatePaymentLink succeeds.
CreatePaymentLink(p) ==
  /\ pc[p] = "createLink"
  /\ link' = [link EXCEPT ![job[p].order] = "open"]
  /\ Goto(p, "insertTx")
  /\ UNCHANGED <<now, subRow, txStatus, paidTime, webhooks, eventKeys,
                 isPlus, faults>>

\* CreatePaymentLink returns an error: PayOS refused, or created the link and
\* the answer was lost.
PaymentLinkError(p) ==
  /\ pc[p] = "createLink"
  /\ faults < MaxFaults
  /\ faults' = faults + 1
  /\ \/ link' = [link EXCEPT ![job[p].order] = "open"]
     \/ UNCHANGED link
  /\ Goto(p, "cancelSub")
  /\ UNCHANGED <<now, subRow, txStatus, paidTime, webhooks, eventKeys, isPlus>>

\* The error path's UPDATE, whatever the row's status has become.
CancelSubscription(p) ==
  /\ pc[p] = "cancelSub"
  /\ subStatus' = [subStatus EXCEPT ![job[p].order] = "cancelled"]
  /\ Return(p)
  /\ UNCHANGED <<now, periodStart, periodEnd, txStatus, payOS, eventKeys,
                 isPlus, faults>>

\* INSERT the transaction; only now does the caller get the checkout URL.
CreatePaymentTransaction(p) ==
  /\ pc[p] = "insertTx"
  /\ txStatus' = [txStatus EXCEPT ![job[p].order] = "pending"]
  /\ Return(p)
  /\ UNCHANGED <<now, subRow, payOS, eventKeys, isPlus, faults>>
-----------------------------------------------------------------------------
(* ProcessPayOSWebhook: a request with a valid signature *)

\* The event key is inserted first; a key already there ends the request with
\* nil, which changes nothing and so is a stuttering step.
RecordWebhookEvent(p, m) ==
  /\ m \in webhooks
  /\ m \notin eventKeys
  /\ BeginWith(p, "lookupTx", m.order, m.outcome, m.exact)
  /\ eventKeys' = eventKeys \cup {m}
  /\ UNCHANGED <<now, subRow, txStatus, payOS, isPlus, faults>>

\* GetPaymentTransactionByOrderCode: no row is an error, another amount than
\* the row's is ErrAmountMismatch, and in both cases the key stays.
LookupTransaction(p) ==
  LET found == txStatus[job[p].order] # "none"
  IN  /\ pc[p] = "lookupTx"
      /\ \/ /\ ~found \/ ~job[p].exact
            /\ Return(p)
         \/ /\ found /\ job[p].exact
            /\ Goto(p, IF job[p].from = "success" THEN "markPaid" ELSE "markStatus")
      /\ UNCHANGED <<now, subRow, txStatus, payOS, eventKeys, isPlus, faults>>

\* Wrong on purpose: a declined attempt is stored as a cancelled payment.
MarkTransactionStatusAlike(p) ==
  /\ pc[p] = "markStatus"
  /\ txStatus' = [txStatus EXCEPT ![job[p].order] = "cancelled"]
  /\ Return(p)
  /\ UNCHANGED <<now, subRow, payOS, eventKeys, isPlus, faults>>

\* An unsuccessful outcome overwrites the transaction's status.
MarkTransactionStatus(p) ==
  /\ pc[p] = "markStatus"
  /\ txStatus' = [txStatus EXCEPT ![job[p].order] =
                    IF job[p].from = "cancelled" THEN "cancelled" ELSE "failed"]
  /\ Return(p)
  /\ UNCHANGED <<now, subRow, payOS, eventKeys, isPlus, faults>>
-----------------------------------------------------------------------------
(* ConfirmPayment, called by the client on its way back from PayOS *)

\* The transaction is known and not paid: PayOS will be asked.
ConfirmUnpaid(p, o) ==
  /\ txStatus[o] \notin {"none", "paid"}
  /\ Begin(p, "queryPayOS", o, "confirm")
  /\ UNCHANGED <<now, subRow, txStatus, payOS, eventKeys, isPlus, faults>>

\* The transaction is already paid: only re-sync is_plus, and only if the
\* subscription is active; otherwise the request returns (a stuttering step).
ConfirmPaid(p, o) ==
  /\ txStatus[o] = "paid"
  /\ subStatus[o] = "active"
  /\ Begin(p, "syncPlus", o, "confirm")
  /\ UNCHANGED <<now, subRow, txStatus, payOS, eventKeys, isPlus, faults>>

\* GetPaymentLinkInfo: branch on PAID, CANCELLED/EXPIRED, or still pending.
QueryPaymentLink(p) ==
  /\ pc[p] = "queryPayOS"
  /\ \/ /\ link[job[p].order] = "paid"
        /\ Goto(p, "markPaid")
     \/ /\ link[job[p].order] = "cancelled"
        /\ Goto(p, "markCancelled")
     \/ /\ link[job[p].order] \notin {"paid", "cancelled"}
        /\ Return(p)
  /\ UNCHANGED <<now, subRow, txStatus, payOS, eventKeys, isPlus, faults>>

\* Wrong on purpose: PayOS's EXPIRED is stored, which is no payment status.
MarkCancelledVerbatim(p) ==
  /\ pc[p] = "markCancelled"
  /\ txStatus' = [txStatus EXCEPT ![job[p].order] = "expired"]
  /\ Return(p)
  /\ UNCHANGED <<now, subRow, payOS, eventKeys, isPlus, faults>>

MarkCancelled(p) ==
  /\ pc[p] = "markCancelled"
  /\ txStatus' = [txStatus EXCEPT ![job[p].order] = "cancelled"]
  /\ Return(p)
  /\ UNCHANGED <<now, subRow, payOS, eventKeys, isPlus, faults>>
-----------------------------------------------------------------------------
(* Activation, the same four calls in the webhook and in ConfirmPayment *)

MarkTransactionPaid(p) ==
  /\ pc[p] = "markPaid"
  /\ txStatus' = [txStatus EXCEPT ![job[p].order] = "paid"]
  /\ Goto(p, "readActive")
  /\ UNCHANGED <<now, subRow, payOS, eventKeys, isPlus, faults>>

\* Rows GetActiveSubscriptionForUser can return: active, not past the end,
\* and none of the user's active rows ends later.
LatestActive(u) ==
  LET Active == {o \in Order : /\ Owner[o] = u
                               /\ subStatus[o] = "active"
                               /\ periodEnd[o] > now}
  IN  {a \in Active : \A b \in Active : periodEnd[b] <= periodEnd[a]}

\* calculateActivationPeriod: stack behind another active subscription that
\* ends after the payment, start at the payment otherwise.
PeriodStartFor(o, active) ==
  IF active # o /\ periodEnd[active] > paidTime[o]
  THEN periodEnd[active]
  ELSE paidTime[o]

\* Wrong on purpose: finding no active subscription is treated as an error.
ReadActivationPeriodOrFail(p) ==
  LET o == job[p].order
      Latest == LatestActive(Owner[o])
  IN  /\ pc[p] = "readActive"
      /\ \/ Latest = {} /\ Return(p)
         \/ \E active \in Latest :
              /\ job' = [job EXCEPT ![p].start = PeriodStartFor(o, active)]
              /\ pc' = [pc EXCEPT ![p] = "activate"]
      /\ UNCHANGED <<now, subRow, txStatus, payOS, eventKeys, isPlus, faults>>

\* activationPeriod: read the active subscription and compute the new period.
ReadActivationPeriod(p) ==
  LET o == job[p].order
      Latest == LatestActive(Owner[o])
  IN  /\ pc[p] = "readActive"
      /\ \/ /\ Latest = {}
            /\ job' = [job EXCEPT ![p].start = paidTime[o]]
         \/ \E active \in Latest :
              job' = [job EXCEPT ![p].start = PeriodStartFor(o, active)]
      /\ pc' = [pc EXCEPT ![p] = "activate"]
      /\ UNCHANGED <<now, subRow, txStatus, payOS, eventKeys, isPlus, faults>>

\* Wrong on purpose: the period ends a Duration from now, wherever it starts.
ActivateSubscriptionFromNow(p) ==
  LET o == job[p].order
  IN  /\ pc[p] = "activate"
      /\ subStatus' = [subStatus EXCEPT ![o] = "active"]
      /\ periodStart' = [periodStart EXCEPT ![o] = job[p].start]
      /\ periodEnd' = [periodEnd EXCEPT ![o] = now + Duration[o]]
      /\ job' = [job EXCEPT ![p].start = 0]
      /\ pc' = [pc EXCEPT ![p] = "syncPlus"]
      /\ UNCHANGED <<now, txStatus, payOS, eventKeys, isPlus, faults>>

\* ActivateSubscription: unconditional UPDATE by subscription id.
ActivateSubscription(p) ==
  LET o == job[p].order
  IN  /\ pc[p] = "activate"
      /\ subStatus' = [subStatus EXCEPT ![o] = "active"]
      /\ periodStart' = [periodStart EXCEPT ![o] = job[p].start]
      /\ periodEnd' = [periodEnd EXCEPT ![o] = job[p].start + Duration[o]]
      /\ job' = [job EXCEPT ![p].start = 0]
      /\ pc' = [pc EXCEPT ![p] = "syncPlus"]
      /\ UNCHANGED <<now, txStatus, payOS, eventKeys, isPlus, faults>>

\* authClient.UpdateUserPlusStatus(user, true).
UpdateUserPlusStatus(p) ==
  /\ pc[p] = "syncPlus"
  /\ isPlus' = [isPlus EXCEPT ![Owner[job[p].order]] = TRUE]
  /\ Return(p)
  /\ UNCHANGED <<now, subRow, txStatus, payOS, eventKeys, faults>>
-----------------------------------------------------------------------------
(* Expiry, failure and the environment *)

\* The ExpireSubscriptions statement, run by its RPC and before every read of
\* a subscription's status.
ExpireSubscriptions ==
  /\ subStatus' = [o \in Order |->
       IF subStatus[o] \in {"pending", "active"} /\ periodEnd[o] <= now
       THEN "expired" ELSE subStatus[o]]
  /\ UNCHANGED <<now, periodStart, periodEnd, txStatus, payOS, eventKeys,
                 isPlus, pc, job, faults>>

\* A call of handler p fails and its error is returned, or the instance dies:
\* the calls already made stand, the remaining ones never happen.
HandlerStops(p) ==
  /\ pc[p] # "idle"
  /\ faults < MaxFaults
  /\ faults' = faults + 1
  /\ Return(p)
  /\ UNCHANGED <<now, subRow, txStatus, payOS, eventKeys, isPlus>>

\* PayOS sends a webhook about an attempt at order o.
SendWebhook(o, outcome, exact) ==
  webhooks' = webhooks \cup {[order |-> o, outcome |-> outcome, exact |-> exact]}

\* The payer has the checkout URL (the transaction row exists) and pays: the
\* order's amount, or too much, or the rest of it.
PayerPays(o, exact) ==
  /\ exact \/ o \in OtherAmount
  /\ link[o] = "open"
  /\ txStatus[o] # "none"
  /\ link' = [link EXCEPT ![o] = "paid"]
  /\ paidTime' = [paidTime EXCEPT ![o] = now]
  /\ SendWebhook(o, "success", exact)
  /\ UNCHANGED <<now, subRow, txStatus, eventKeys, isPlus, pc, job, faults>>

\* The payer transfers too little: PayOS reports the transfer and leaves the
\* link open.
PayerPaysPart(o) ==
  /\ o \in OtherAmount
  /\ link[o] = "open"
  /\ txStatus[o] # "none"
  /\ SendWebhook(o, "success", FALSE)
  /\ UNCHANGED <<now, subRow, txStatus, link, paidTime, eventKeys, isPlus,
                 pc, job, faults>>

\* One attempt is declined; the link stays open for another.
PaymentDeclined(o) ==
  /\ link[o] = "open"
  /\ txStatus[o] # "none"
  /\ SendWebhook(o, "declined", TRUE)
  /\ UNCHANGED <<now, subRow, txStatus, link, paidTime, eventKeys, isPlus,
                 pc, job, faults>>

\* The payer cancels, or the link runs out.
LinkCancelled(o) ==
  /\ link[o] = "open"
  /\ link' = [link EXCEPT ![o] = "cancelled"]
  /\ SendWebhook(o, "cancelled", TRUE)
  /\ UNCHANGED <<now, subRow, txStatus, paidTime, eventKeys, isPlus,
                 pc, job, faults>>

Tick ==
  /\ now < MaxTime
  /\ now' = now + 1
  /\ UNCHANGED <<subRow, txStatus, payOS, eventKeys, isPlus, pc, job, faults>>
-----------------------------------------------------------------------------
\* The next call of a handler that has started.
HandlerStep(p) ==
  \/ CreatePaymentLink(p)
  \/ CancelSubscription(p)
  \/ CreatePaymentTransaction(p)
  \/ LookupTransaction(p)
  \/ MarkTransactionStatus(p)
  \/ QueryPaymentLink(p)
  \/ MarkCancelled(p)
  \/ MarkTransactionPaid(p)
  \/ ReadActivationPeriod(p)
  \/ ActivateSubscription(p)
  \/ UpdateUserPlusStatus(p)

DeliverWebhook(m) == \E p \in Proc : RecordWebhookEvent(p, m)

Next ==
  \/ \E p \in Proc :
       \/ HandlerStep(p)
       \/ PaymentLinkError(p)
       \/ HandlerStops(p)
       \/ \E o \in Order : \/ CreateSubscription(p, o)
                           \/ ConfirmUnpaid(p, o)
                           \/ ConfirmPaid(p, o)
  \/ \E m \in Webhook : DeliverWebhook(m)
  \/ ExpireSubscriptions
  \/ \E o \in Order : \/ \E exact \in BOOLEAN : PayerPays(o, exact)
                     \/ PayerPaysPart(o)
                     \/ PaymentDeclined(o)
                     \/ LinkCancelled(o)
  \/ Tick

Spec == Init /\ [][Next]_vars

\* A started handler keeps running, and PayOS redelivers a webhook until it
\* is accepted; nothing is assumed of clients, payers or the clock.  Strong
\* fairness for delivery: the server starts a goroutine for every request, so
\* other requests cannot hold all of Proc for ever.
Fairness ==
  /\ \A p \in Proc : WF_vars(HandlerStep(p))
  /\ \A m \in Webhook : SF_vars(DeliverWebhook(m))

FairSpec == Spec /\ Fairness
-----------------------------------------------------------------------------
(* Properties *)

\* Money before access: a subscription is active only if the payer has paid
\* its order at PayOS, whichever handlers raced, failed or ran twice.
ActiveOnlyIfPaid ==
  \A o \in Order : subStatus[o] = "active" => link[o] = "paid"

\* is_plus is pushed to auth-service only for users with a paid order.
PlusOnlyIfPaid ==
  \A u \in User : isPlus[u] => \E o \in Order : Owner[o] = u /\ link[o] = "paid"

\* Handlers that are working on a delivered webhook.
HandlingWebhook(p, m) ==
  /\ pc[p] # "idle"
  /\ job[p].order = m.order
  /\ job[p].from = m.outcome
  /\ job[p].exact = m.exact

\* Redelivery is absorbed: however often PayOS sends a webhook, at most one
\* handler ever works on it, and only after its key has been recorded.
WebhookHandledOnce ==
  \A m \in Webhook :
    /\ \A p, q \in Proc :
         HandlingWebhook(p, m) /\ HandlingWebhook(q, m) => p = q
    /\ \A p \in Proc : HandlingWebhook(p, m) => m \in eventKeys

\* A refused or cancelled checkout never loses a payment: once paid at PayOS,
\* the transaction row exists and is not left as cancelled.
PaidNeverCancelled ==
  \A o \in Order : link[o] = "paid" => txStatus[o] \notin {"none", "cancelled"}

\* The buyer gets what was paid for: an active period has the plan's full length
\* and does not start before the payment, through stacking behind another
\* subscription, late webhooks and clocks that moved between the calls.
FullPeriod ==
  \A o \in Order : subStatus[o] = "active" =>
    /\ periodEnd[o] = periodStart[o] + Duration[o]
    /\ periodStart[o] >= paidTime[o]

\* billing-service implements the abstract promise of PlusGrant.
Granted == INSTANCE PlusGrant WITH
  paid    <- {o \in Order : link[o] = "paid"},
  granted <- {o \in Order : subStatus[o] = "active"},
  plus    <- {u \in User : isPlus[u]}

ImplementsPlusGrant == Granted!GrantSpec

\* PayOS has reported a payment of exactly the order's amount.
PaidExactly(o) == [order |-> o, outcome |-> "success", exact |-> TRUE] \in webhooks

\* If no call fails, every payment of the order's amount is eventually turned
\* into an active (or by then already run out) subscription and the user is Plus,
\* with no help from the client: webhook delivery alone suffices, also when other
\* attempts, of other amounts, failed or partial, are reported before or after.
\* A payment of another amount is refused, for good (ErrAmountMismatch).
PaidIsHonoured ==
  \A o \in Order :
    PaidExactly(o) ~> \/ isPlus[Owner[o]] /\ subStatus[o] \in {"active", "expired"}
                      \/ faults > 0

\* What billing-service-deployment.md:297 expects ("Valid PayOS webhook activates
\* subscription"), also when a call fails on the way.  The code breaks it: the
\* event key is recorded first, so the redelivery is taken for a duplicate.
ValidWebhookActivates ==
  \A o \in Order : PaidExactly(o) ~> subStatus[o] \in {"active", "expired"}
=============================================================================
