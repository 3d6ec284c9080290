------------------------ MODULE SubscriptionsProofs ------------------------
(***************************************************************************)
(* Proofs about Subscriptions for every set of users, orders and handlers, *)
(* whatever the interleaving, the failures and the redeliveries: types,    *)
(* payment before access, full periods, absorbed redelivery, and the       *)
(* refinement of PlusGrant.                                                *)
(***************************************************************************)
EXTENDS Subscriptions, TLAPS

USE DEF SubStatus, TxStatus, LinkStatus, Outcome, Webhook, PC, ActivationPC,
        Job, NoJob, subRow, payOS

-----------------------------------------------------------------------------
(* Type correctness *)

\* PayOS only sends webhooks.
LEMMA SentWebhookType ==
  ASSUME webhooks \in SUBSET Webhook, NEW o \in Order, NEW outcome \in Outcome,
         NEW exact \in BOOLEAN, SendWebhook(o, outcome, exact)
  PROVE  webhooks' \in SUBSET Webhook
  BY DEF SendWebhook

\* Initially every variable has its type.
LEMMA InitTypeOK == Init => TypeOK
  BY OwnerAssumption, DurationAssumption, BoundsAssumption DEF Init, TypeOK

\* Each call of each handler, and each step of PayOS and the clock, keeps the
\* types of all variables.
LEMMA StepTypeOK == TypeOK /\ [Next]_vars => TypeOK'
<1> SUFFICES ASSUME TypeOK, [Next]_vars PROVE TypeOK'
  OBVIOUS
<1> USE OwnerAssumption, DurationAssumption, BoundsAssumption DEF TypeOK
<1>1. ASSUME NEW p \in Proc, HandlerStep(p) PROVE TypeOK'
  <2>1. CASE CreatePaymentLink(p) BY <2>1 DEF CreatePaymentLink, Goto
  <2>2. CASE CancelSubscription(p) BY <2>2 DEF CancelSubscription, Return
  <2>3. CASE CreatePaymentTransaction(p) BY <2>3 DEF CreatePaymentTransaction, Return
  <2>4. CASE LookupTransaction(p) BY <2>4 DEF LookupTransaction, Goto, Return
  <2>5. CASE MarkTransactionStatus(p) BY <2>5 DEF MarkTransactionStatus, Return
  <2>6. CASE QueryPaymentLink(p) BY <2>6 DEF QueryPaymentLink, Goto, Return
  <2>7. CASE MarkCancelled(p) BY <2>7 DEF MarkCancelled, Return
  <2>8. CASE MarkTransactionPaid(p) BY <2>8 DEF MarkTransactionPaid, Goto
  <2>9. CASE ReadActivationPeriod(p)
    <3> DEFINE o == job[p].order
    <3>1. job[p] \in Job /\ o \in Order /\ Owner[o] \in User
      BY <2>9 DEF ReadActivationPeriod
    <3>2. PICK s \in Nat : job' = [job EXCEPT ![p].start = s]
      BY <2>9, <3>1 DEF ReadActivationPeriod, LatestActive, PeriodStartFor
    <3>3. job' \in [Proc -> Job \cup {NoJob}] /\ \A q \in Proc : job'[q] \in Job <=> job[q] \in Job
      BY <3>1, <3>2
    <3> QED BY <2>9, <3>1, <3>3 DEF ReadActivationPeriod
  <2>10. CASE ActivateSubscription(p)
    <3>1. job[p] \in Job
      BY <2>10 DEF ActivateSubscription
    <3>2. job' \in [Proc -> Job \cup {NoJob}] /\ \A q \in Proc : job'[q] \in Job <=> job[q] \in Job
      BY <2>10, <3>1 DEF ActivateSubscription
    <3> QED BY <2>10, <3>1, <3>2 DEF ActivateSubscription
  <2>11. CASE UpdateUserPlusStatus(p) BY <2>11 DEF UpdateUserPlusStatus, Return
  <2> QED BY <1>1, <2>1, <2>2, <2>3, <2>4, <2>5, <2>6, <2>7, <2>8, <2>9, <2>10, <2>11
             DEF HandlerStep
<1>2. ASSUME NEW p \in Proc, PaymentLinkError(p) PROVE TypeOK'
  BY <1>2 DEF PaymentLinkError, Goto
<1>3. ASSUME NEW p \in Proc, HandlerStops(p) PROVE TypeOK'
  BY <1>3 DEF HandlerStops, Return
<1>4. ASSUME NEW p \in Proc, NEW o \in Order, CreateSubscription(p, o) PROVE TypeOK'
  BY <1>4 DEF CreateSubscription, Begin, BeginWith
<1>5. ASSUME NEW p \in Proc, NEW o \in Order, ConfirmUnpaid(p, o) PROVE TypeOK'
  BY <1>5 DEF ConfirmUnpaid, Begin, BeginWith
<1>6. ASSUME NEW p \in Proc, NEW o \in Order, ConfirmPaid(p, o) PROVE TypeOK'
  BY <1>6 DEF ConfirmPaid, Begin, BeginWith
<1>7. ASSUME NEW m \in Webhook, DeliverWebhook(m) PROVE TypeOK'
  BY <1>7 DEF DeliverWebhook, RecordWebhookEvent, BeginWith
<1>8. CASE ExpireSubscriptions BY <1>8 DEF ExpireSubscriptions
<1>9. ASSUME NEW o \in Order, NEW exact \in BOOLEAN, PayerPays(o, exact) PROVE TypeOK'
  BY <1>9 DEF PayerPays, SendWebhook
<1>10. ASSUME NEW o \in Order, PayerPaysPart(o) \/ PaymentDeclined(o) \/ LinkCancelled(o)
       PROVE TypeOK'
  <2>1. CASE PayerPaysPart(o) BY <2>1, SentWebhookType DEF PayerPaysPart
  <2>2. CASE PaymentDeclined(o) BY <2>2, SentWebhookType DEF PaymentDeclined
  <2>3. CASE LinkCancelled(o) BY <2>3, SentWebhookType DEF LinkCancelled
  <2> QED BY <1>10, <2>1, <2>2, <2>3
<1>11. CASE Tick BY <1>11 DEF Tick
<1>12. CASE UNCHANGED vars BY <1>12 DEF vars
<1> QED BY <1>1, <1>2, <1>3, <1>4, <1>5, <1>6, <1>7, <1>8, <1>9, <1>10, <1>11, <1>12 DEF Next

\* Type correctness of the whole payment core.
THEOREM TypeCorrect == Spec => []TypeOK
  BY InitTypeOK, StepTypeOK, PTL DEF Spec

-----------------------------------------------------------------------------
(* The inductive invariant.  ActiveOnlyIfPaid is not inductive: a handler   *)
(* about to activate must be known to serve a paid order, which comes from  *)
(* the webhook or the PayOS answer it acts on, and a paid link must never   *)
(* be reopened, which comes from the order code being fresh when its link   *)
(* is created.                                                              *)

\* An order's link is created after its subscriptions row, once, by one handler.
FreshLink ==
  /\ \A o \in Order : subStatus[o] = "none" => link[o] = "none"
  /\ \A p \in Proc : pc[p] = "createLink" =>
       /\ subStatus[job[p].order] # "none"
       /\ link[job[p].order] = "none"
       /\ \A q \in Proc : pc[q] = "createLink" /\ job[q].order = job[p].order => p = q

\* A webhook tells the truth about its order, and goes on telling it.
WebhookTruth ==
  \A m \in webhooks :
    /\ m.outcome = "success" /\ m.exact => link[m.order] = "paid"
    /\ m.outcome = "cancelled" => link[m.order] = "cancelled"

\* A handler past its branch acts on an order PayOS reported as paid, or as
\* cancelled.
HandlerTruth ==
  \A p \in Proc :
    /\ pc[p] \in ActivationPC => link[job[p].order] = "paid"
    /\ pc[p] = "lookupTx" /\ job[p].from = "success" /\ job[p].exact
         => link[job[p].order] = "paid"
    /\ pc[p] = "markCancelled"
         => link[job[p].order] = "cancelled"
    /\ pc[p] \in {"lookupTx", "markStatus"} /\ job[p].from = "cancelled"
         => link[job[p].order] = "cancelled"

\* A payment needs the checkout URL, and a cancelled transaction a dead link.
TransactionTruth ==
  \A o \in Order : /\ link[o] = "paid" => txStatus[o] # "none"
                   /\ txStatus[o] = "cancelled" => link[o] = "cancelled"

\* The period a handler is about to write starts no earlier than the payment.
StartAfterPayment ==
  \A p \in Proc : pc[p] = "activate" => job[p].start >= paidTime[job[p].order]

PaymentInv ==
  /\ FreshLink
  /\ WebhookTruth
  /\ HandlerTruth
  /\ TransactionTruth
  /\ StartAfterPayment
  /\ ActiveOnlyIfPaid
  /\ PlusOnlyIfPaid
  /\ FullPeriod

\* Nothing has happened initially.
LEMMA InitPaymentInv == Init => PaymentInv
  BY OwnerAssumption DEF Init, PaymentInv, FreshLink, WebhookTruth, HandlerTruth,
     TransactionTruth, StartAfterPayment, ActiveOnlyIfPaid, PlusOnlyIfPaid, FullPeriod

\* Each step keeps the invariant; the sub-steps are the conjuncts the action
\* can disturb.
LEMMA StepPaymentInv == TypeOK /\ PaymentInv /\ [Next]_vars => PaymentInv'
<1> SUFFICES ASSUME TypeOK, PaymentInv, [Next]_vars PROVE PaymentInv'
  OBVIOUS
<1> USE OwnerAssumption, DurationAssumption
    DEF TypeOK, PaymentInv, FreshLink, WebhookTruth, HandlerTruth, TransactionTruth,
        StartAfterPayment, ActiveOnlyIfPaid, PlusOnlyIfPaid, FullPeriod
<1>1. ASSUME NEW p \in Proc, HandlerStep(p) PROVE PaymentInv'
  <2>1. CASE CreatePaymentLink(p)
    BY <2>1 DEF CreatePaymentLink, Goto
  <2>2. CASE CancelSubscription(p)
    BY <2>2 DEF CancelSubscription, Return
  <2>3. CASE CreatePaymentTransaction(p)
    BY <2>3 DEF CreatePaymentTransaction, Return
  <2>4. CASE LookupTransaction(p)
    BY <2>4 DEF LookupTransaction, Goto, Return
  <2>5. CASE MarkTransactionStatus(p)
    BY <2>5 DEF MarkTransactionStatus, Return
  <2>6. CASE QueryPaymentLink(p)
    BY <2>6 DEF QueryPaymentLink, Goto, Return
  <2>7. CASE MarkCancelled(p)
    <3>1. job[p].order \in Order /\ link[job[p].order] = "cancelled"
      BY <2>7 DEF MarkCancelled
    <3>2. TransactionTruth'
      BY <2>7, <3>1 DEF MarkCancelled
    <3>3. (FreshLink /\ WebhookTruth /\ HandlerTruth /\ StartAfterPayment)'
      BY <2>7 DEF MarkCancelled, Return
    <3>4. (ActiveOnlyIfPaid /\ PlusOnlyIfPaid /\ FullPeriod)'
      BY <2>7 DEF MarkCancelled
    <3> QED BY <3>2, <3>3, <3>4
  <2>8. CASE MarkTransactionPaid(p)
    BY <2>8 DEF MarkTransactionPaid, Goto
  <2>9. CASE ReadActivationPeriod(p)
    BY <2>9 DEF ReadActivationPeriod, LatestActive, PeriodStartFor
  <2>10. CASE ActivateSubscription(p)
    BY <2>10 DEF ActivateSubscription
  <2>11. CASE UpdateUserPlusStatus(p)
    BY <2>11 DEF UpdateUserPlusStatus, Return
  <2> QED BY <1>1, <2>1, <2>2, <2>3, <2>4, <2>5, <2>6, <2>7, <2>8, <2>9, <2>10, <2>11
             DEF HandlerStep
<1>2. ASSUME NEW p \in Proc, PaymentLinkError(p) PROVE PaymentInv'
  BY <1>2 DEF PaymentLinkError, Goto
<1>3. ASSUME NEW p \in Proc, HandlerStops(p) PROVE PaymentInv'
  BY <1>3 DEF HandlerStops, Return
<1>4. ASSUME NEW p \in Proc, NEW o \in Order, CreateSubscription(p, o) PROVE PaymentInv'
  BY <1>4 DEF CreateSubscription, Begin, BeginWith
<1>5. ASSUME NEW p \in Proc, NEW o \in Order, ConfirmUnpaid(p, o) PROVE PaymentInv'
  BY <1>5 DEF ConfirmUnpaid, Begin, BeginWith
<1>6. ASSUME NEW p \in Proc, NEW o \in Order, ConfirmPaid(p, o) PROVE PaymentInv'
  BY <1>6 DEF ConfirmPaid, Begin, BeginWith
<1>7. ASSUME NEW m \in Webhook, DeliverWebhook(m) PROVE PaymentInv'
  BY <1>7 DEF DeliverWebhook, RecordWebhookEvent, BeginWith
<1>8. CASE ExpireSubscriptions
  BY <1>8 DEF ExpireSubscriptions
<1>9. ASSUME NEW o \in Order, NEW exact \in BOOLEAN, PayerPays(o, exact)
      PROVE PaymentInv'
  BY <1>9 DEF PayerPays, SendWebhook
<1>10. ASSUME NEW o \in Order, PayerPaysPart(o) PROVE PaymentInv'
  BY <1>10 DEF PayerPaysPart, SendWebhook
<1>11. ASSUME NEW o \in Order, PaymentDeclined(o) PROVE PaymentInv'
  BY <1>11 DEF PaymentDeclined, SendWebhook
<1>12. ASSUME NEW o \in Order, LinkCancelled(o) PROVE PaymentInv'
  BY <1>12 DEF LinkCancelled, SendWebhook
<1>13. CASE Tick
  BY <1>13 DEF Tick
<1>14. CASE UNCHANGED vars
  BY <1>14 DEF vars
<1> QED BY <1>1, <1>2, <1>3, <1>4, <1>5, <1>6, <1>7, <1>8, <1>9, <1>10, <1>11, <1>12, <1>13,
           <1>14
        DEF Next

\* The inductive invariant holds throughout.
THEOREM PaymentCorrect == Spec => []PaymentInv
  BY InitTypeOK, StepTypeOK, InitPaymentInv, StepPaymentInv, PTL DEF Spec

\* Money before access, for any number of handlers, retries and failures.
THEOREM ActiveAfterPayment == Spec => []ActiveOnlyIfPaid
<1>1. PaymentInv => ActiveOnlyIfPaid BY DEF PaymentInv
<1> QED BY <1>1, PaymentCorrect, PTL

\* is_plus is pushed only after a payment of that user.
THEOREM PlusAfterPayment == Spec => []PlusOnlyIfPaid
<1>1. PaymentInv => PlusOnlyIfPaid BY DEF PaymentInv
<1> QED BY <1>1, PaymentCorrect, PTL

\* A late "cancelled" or "declined" never leaves a paid order as cancelled.
THEOREM PaymentNotLost == Spec => []PaidNeverCancelled
<1>1. PaymentInv => PaidNeverCancelled
  BY DEF PaymentInv, TransactionTruth, PaidNeverCancelled
<1> QED BY <1>1, PaymentCorrect, PTL

\* Every active period is as long as the plan that was paid.
THEOREM PeriodIsFull == Spec => []FullPeriod
<1>1. PaymentInv => FullPeriod BY DEF PaymentInv
<1> QED BY <1>1, PaymentCorrect, PTL

-----------------------------------------------------------------------------
(* Redelivery: a webhook's key is recorded before any handler works on it,  *)
(* so no second handler starts; WebhookHandledOnce is inductive as it is.   *)

\* The steps that start a handler are the only ones that can disturb it.
LEMMA StepWebhookHandledOnce == TypeOK /\ WebhookHandledOnce /\ [Next]_vars => WebhookHandledOnce'
<1> SUFFICES ASSUME TypeOK, WebhookHandledOnce, [Next]_vars PROVE WebhookHandledOnce'
  OBVIOUS
<1> USE DEF TypeOK, WebhookHandledOnce, HandlingWebhook
<1>1. ASSUME NEW p \in Proc, HandlerStep(p) PROVE WebhookHandledOnce'
  <2>1. CASE CreatePaymentLink(p) BY <2>1 DEF CreatePaymentLink, Goto
  <2>2. CASE CancelSubscription(p) BY <2>2 DEF CancelSubscription, Return
  <2>3. CASE CreatePaymentTransaction(p) BY <2>3 DEF CreatePaymentTransaction, Return
  <2>4. CASE LookupTransaction(p) BY <2>4 DEF LookupTransaction, Goto, Return
  <2>5. CASE MarkTransactionStatus(p) BY <2>5 DEF MarkTransactionStatus, Return
  <2>6. CASE QueryPaymentLink(p) BY <2>6 DEF QueryPaymentLink, Goto, Return
  <2>7. CASE MarkCancelled(p) BY <2>7 DEF MarkCancelled, Return
  <2>8. CASE MarkTransactionPaid(p) BY <2>8 DEF MarkTransactionPaid, Goto
  <2>9. CASE ReadActivationPeriod(p)
    <3>1. PICK t : job' = [job EXCEPT ![p].start = t]
      BY <2>9 DEF ReadActivationPeriod
    <3>2. /\ eventKeys' = eventKeys
          /\ pc[p] # "idle"
          /\ \A q \in Proc : q # p => pc'[q] = pc[q]
      BY <2>9 DEF ReadActivationPeriod
    <3> QED BY <3>1, <3>2
  <2>10. CASE ActivateSubscription(p)
    <3>1. /\ job' = [job EXCEPT ![p].start = 0]
          /\ eventKeys' = eventKeys
          /\ pc[p] # "idle"
          /\ \A q \in Proc : q # p => pc'[q] = pc[q]
      BY <2>10 DEF ActivateSubscription
    <3> QED BY <3>1
  <2>11. CASE UpdateUserPlusStatus(p) BY <2>11 DEF UpdateUserPlusStatus, Return
  <2> QED BY <1>1, <2>1, <2>2, <2>3, <2>4, <2>5, <2>6, <2>7, <2>8, <2>9, <2>10, <2>11
             DEF HandlerStep
<1>2. ASSUME NEW p \in Proc, PaymentLinkError(p) PROVE WebhookHandledOnce'
  BY <1>2 DEF PaymentLinkError, Goto
<1>3. ASSUME NEW p \in Proc, HandlerStops(p) PROVE WebhookHandledOnce'
  BY <1>3 DEF HandlerStops, Return
<1>4. ASSUME NEW p \in Proc, NEW o \in Order, CreateSubscription(p, o) PROVE WebhookHandledOnce'
  <2>1. /\ eventKeys' = eventKeys
        /\ \A q \in Proc : q # p => pc'[q] = pc[q] /\ job'[q] = job[q]
        /\ job'[p].from = "checkout"
    BY <1>4 DEF CreateSubscription, Begin, BeginWith
  <2> QED BY <2>1
<1>5. ASSUME NEW p \in Proc, NEW o \in Order, ConfirmUnpaid(p, o) PROVE WebhookHandledOnce'
  <2>1. /\ eventKeys' = eventKeys
        /\ \A q \in Proc : q # p => pc'[q] = pc[q] /\ job'[q] = job[q]
        /\ job'[p].from = "confirm"
    BY <1>5 DEF ConfirmUnpaid, Begin, BeginWith
  <2> QED BY <2>1
<1>6. ASSUME NEW p \in Proc, NEW o \in Order, ConfirmPaid(p, o) PROVE WebhookHandledOnce'
  <2>1. /\ eventKeys' = eventKeys
        /\ \A q \in Proc : q # p => pc'[q] = pc[q] /\ job'[q] = job[q]
        /\ job'[p].from = "confirm"
    BY <1>6 DEF ConfirmPaid, Begin, BeginWith
  <2> QED BY <2>1
<1>7. ASSUME NEW m \in Webhook, NEW p \in Proc, RecordWebhookEvent(p, m)
      PROVE WebhookHandledOnce'
  BY <1>7 DEF RecordWebhookEvent, BeginWith
<1>8. CASE ExpireSubscriptions BY <1>8 DEF ExpireSubscriptions
<1>9. ASSUME NEW o \in Order, NEW exact \in BOOLEAN, PayerPays(o, exact)
      PROVE WebhookHandledOnce'
  BY <1>9 DEF PayerPays
<1>10. ASSUME NEW o \in Order, PayerPaysPart(o) \/ PaymentDeclined(o) \/ LinkCancelled(o)
       PROVE WebhookHandledOnce'
  <2>1. UNCHANGED <<eventKeys, pc, job>>
    BY <1>10 DEF PayerPaysPart, PaymentDeclined, LinkCancelled
  <2> QED BY <2>1
<1>11. CASE Tick BY <1>11 DEF Tick
<1>12. CASE UNCHANGED vars BY <1>12 DEF vars
<1> HIDE DEF TypeOK, WebhookHandledOnce, HandlingWebhook
<1> QED BY <1>1, <1>2, <1>3, <1>4, <1>5, <1>6, <1>7, <1>8, <1>9, <1>10, <1>11, <1>12
        DEF Next, DeliverWebhook

\* However often PayOS redelivers, at most one handler works on a webhook.
THEOREM WebhookAbsorbed == Spec => []WebhookHandledOnce
<1>1. Init => WebhookHandledOnce
  BY DEF Init, WebhookHandledOnce, HandlingWebhook
<1> QED BY <1>1, InitTypeOK, StepTypeOK, StepWebhookHandledOnce, PTL DEF Spec

-----------------------------------------------------------------------------
(* Refinement: every step of billing-service is a step of PlusGrant or does *)
(* not concern it.                                                          *)

\* The initial state maps to PlusGrant's.
LEMMA InitGrant == Init => Granted!GrantInit
  BY DEF Init, Granted!GrantInit

\* Paying maps to Pay, activation to Grant, the auth-service call to MarkPlus,
\* expiry and cancellation to Lapse, and every other step to a stutter.
LEMMA StepGrant ==
  TypeOK /\ PaymentInv /\ [Next]_vars => [Granted!GrantNext]_(Granted!grantVars)
<1> SUFFICES ASSUME TypeOK, PaymentInv, [Next]_vars
             PROVE Granted!GrantNext \/ UNCHANGED Granted!grantVars
  OBVIOUS
<1> DEFINE paid == {o \in Order : link[o] = "paid"}
           granted == {o \in Order : subStatus[o] = "active"}
           plus == {u \in User : isPlus[u]}
<1> USE DEF TypeOK, Granted!grantVars, Granted!GrantNext
<1>1. ASSUME UNCHANGED <<link, subStatus, isPlus>> PROVE UNCHANGED Granted!grantVars
  BY <1>1
<1>2. ASSUME NEW p \in Proc, HandlerStep(p)
      PROVE Granted!GrantNext \/ UNCHANGED Granted!grantVars
  <2> DEFINE o == job[p].order
  <2>1. CASE CreatePaymentLink(p)
    <3>1. link[o] = "none" /\ o \in Order
      BY <2>1 DEF CreatePaymentLink, PaymentInv, FreshLink
    <3>2. paid' = paid BY <2>1, <3>1 DEF CreatePaymentLink
    <3> QED BY <2>1, <3>2 DEF CreatePaymentLink
  <2>2. CASE CancelSubscription(p)
    <3>1. granted' \in SUBSET granted BY <2>2 DEF CancelSubscription
    <3> QED BY <2>2, <3>1 DEF CancelSubscription, Granted!Lapse
  <2>3. CASE ActivateSubscription(p)
    <3>1. o \in Order /\ o \in paid
      BY <2>3 DEF ActivateSubscription, PaymentInv, HandlerTruth
    <3>2. granted' = granted \cup {o} BY <2>3, <3>1 DEF ActivateSubscription
    <3> QED BY <2>3, <3>1, <3>2 DEF ActivateSubscription, Granted!Grant
  <2>4. CASE UpdateUserPlusStatus(p)
    <3>1. o \in Order /\ o \in paid /\ Owner[o] \in User
      BY <2>4, OwnerAssumption DEF UpdateUserPlusStatus, PaymentInv, HandlerTruth
    <3>2. plus' = plus \cup {Owner[o]} BY <2>4, <3>1 DEF UpdateUserPlusStatus
    <3> QED BY <2>4, <3>1, <3>2 DEF UpdateUserPlusStatus, Granted!MarkPlus
  <2>5. CASE \/ CreatePaymentTransaction(p) \/ LookupTransaction(p)
             \/ MarkTransactionStatus(p) \/ QueryPaymentLink(p) \/ MarkCancelled(p)
             \/ MarkTransactionPaid(p) \/ ReadActivationPeriod(p)
    BY <2>5, <1>1 DEF CreatePaymentTransaction, LookupTransaction, MarkTransactionStatus,
       QueryPaymentLink, MarkCancelled, MarkTransactionPaid, ReadActivationPeriod
  <2> QED BY <1>2, <2>1, <2>2, <2>3, <2>4, <2>5 DEF HandlerStep
<1>3. ASSUME NEW p \in Proc, PaymentLinkError(p) PROVE UNCHANGED Granted!grantVars
  <2>1. paid' = paid
    BY <1>3 DEF PaymentLinkError, PaymentInv, FreshLink
  <2> QED BY <1>3, <2>1 DEF PaymentLinkError
<1>4. ASSUME NEW p \in Proc, HandlerStops(p) PROVE UNCHANGED Granted!grantVars
  BY <1>4, <1>1 DEF HandlerStops
<1>5. ASSUME NEW p \in Proc, NEW o \in Order, CreateSubscription(p, o)
      PROVE UNCHANGED Granted!grantVars
  <2>1. granted' = granted BY <1>5 DEF CreateSubscription
  <2> QED BY <1>5, <2>1 DEF CreateSubscription
<1>6. ASSUME NEW p \in Proc, NEW o \in Order, ConfirmUnpaid(p, o) \/ ConfirmPaid(p, o)
      PROVE UNCHANGED Granted!grantVars
  BY <1>6, <1>1 DEF ConfirmUnpaid, ConfirmPaid
<1>7. ASSUME NEW m \in Webhook, DeliverWebhook(m) PROVE UNCHANGED Granted!grantVars
  BY <1>7, <1>1 DEF DeliverWebhook, RecordWebhookEvent
<1>8. CASE ExpireSubscriptions
  <2>1. granted' \in SUBSET granted BY <1>8 DEF ExpireSubscriptions
  <2> QED BY <1>8, <2>1 DEF ExpireSubscriptions, Granted!Lapse
<1>9. ASSUME NEW o \in Order, NEW exact \in BOOLEAN, PayerPays(o, exact)
      PROVE Granted!GrantNext
  <2>1. o \notin paid /\ paid' = paid \cup {o} BY <1>9 DEF PayerPays
  <2> QED BY <1>9, <2>1 DEF PayerPays, Granted!Pay
<1>10. ASSUME NEW o \in Order, PayerPaysPart(o) \/ PaymentDeclined(o) \/ LinkCancelled(o)
       PROVE UNCHANGED Granted!grantVars
  <2>1. CASE PayerPaysPart(o) \/ PaymentDeclined(o)
    BY <2>1, <1>1 DEF PayerPaysPart, PaymentDeclined
  <2>2. CASE LinkCancelled(o)
    <3>1. paid' = paid BY <2>2 DEF LinkCancelled
    <3> QED BY <2>2, <3>1 DEF LinkCancelled
  <2> QED BY <1>10, <2>1, <2>2
<1>11. CASE Tick BY <1>11, <1>1 DEF Tick
<1>12. CASE UNCHANGED vars BY <1>12, <1>1 DEF vars
<1> QED BY <1>2, <1>3, <1>4, <1>5, <1>6, <1>7, <1>8, <1>9, <1>10, <1>11, <1>12 DEF Next

\* billing-service keeps PlusGrant's promise.
THEOREM SubscriptionsImplementPlusGrant == Spec => ImplementsPlusGrant
  BY InitTypeOK, StepTypeOK, InitPaymentInv, StepPaymentInv, InitGrant, StepGrant, PTL
     DEF Spec, ImplementsPlusGrant, Granted!GrantSpec
=============================================================================
