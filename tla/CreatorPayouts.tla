--------------------------- MODULE CreatorPayouts ---------------------------
(***************************************************************************)
(* How billing-service pays creators.                                      *)
(*                                                                         *)
(* A revenue pool sync writes a month's creator_earnings and, in the same  *)
(* database transaction, one ledger credit per earning.  Money leaves by   *)
(* two doors: an earning is paid out by itself (singly or in a batch,      *)
(* under a claim on its row), and a creator withdraws an amount from the   *)
(* ledger balance (under a reservation in the ledger).  As in              *)
(* Subscriptions, a handler makes one repository or PayOS call per step    *)
(* and may stop after any of them.  PayOS is external: it takes a payout   *)
(* on at most once per idempotency key, answers with a state, and its      *)
(* answer may be lost.  When the money of a payout it has taken on leaves  *)
(* the bank is PayOS's business: the code never asks again.                *)
(***************************************************************************)
EXTENDS Integers, FiniteSets, FiniteSetsExt

CONSTANTS
  Creator,      \* creators
  Earning,      \* creator_earnings rows, one per month and creator
  Month,        \* pool months
  PoolMonth,    \* PoolMonth[e] is e's month
  Payee,        \* Payee[e] is the creator who earned e
  Withdrawal,   \* creator_withdrawals rows
  Requester,    \* Requester[w] is the creator who asked for w
  Amount,       \* amounts an earning or a withdrawal may have
  Minimum,      \* MinimumPayoutAmountVND
  Proc,         \* concurrently running request handlers
  MaxBatches,   \* bound on batch payouts
  MaxFaults     \* bound on failed calls, lost answers and crashes

ASSUME RowsAssumption ==
  /\ PoolMonth \in [Earning -> Month]
  /\ Payee \in [Earning -> Creator]
  /\ Requester \in [Withdrawal -> Creator]
ASSUME AmountAssumption == Amount \subseteq Nat /\ Minimum \in Nat
ASSUME BoundsAssumption == MaxBatches \in Nat /\ MaxFaults \in Nat

VARIABLES
  earnStatus,   \* creator_earnings.status, "none" before the first sync
  earnAmount,   \* creator_earnings.amount_vnd
  credit,       \* ledger: amount of the earning's posted credit
  wStatus,      \* creator_withdrawals.status, "none" before the INSERT
  wAmount,      \* creator_withdrawals.amount_vnd
  wLedger,      \* ledger: status of the withdrawal's row, "none" before it
  accepted,     \* PayOS: payouts of earnings it took on, to carry out now or later
  taken,        \* PayOS: withdrawals it took on, to carry out now or later
  lost,         \* PayOS: those of them whose answer never arrived
  batches,      \* batch payouts requested so far
  pc, job,      \* control state and locals of each handler
  faults        \* failed calls, lost answers and crashes so far

earnVars == <<earnStatus, earnAmount, credit>>
withVars == <<wStatus, wAmount, wLedger>>
payOS    == <<accepted, taken, lost>>
vars == <<earnVars, withVars, payOS, batches, pc, job, faults>>
-----------------------------------------------------------------------------
EarningStatus == {"none", "pending", "processing", "paid", "failed"}
WithdrawalStatus == {"none", "processing", "paid", "failed"}
LedgerStatus == {"none", "reserved", "posted", "reversed"}

\* Idempotency keys of earning payouts: the earning's own id (0) for a single
\* payout, a fresh one for every batch.
Key == 0..MaxBatches

EarningPC == {"validate", "claim", "payEarnings", "settle", "markFailed"}
WithdrawalPC == {"createRow", "reserve", "payWithdrawal", "updateStatus",
                 "postLedger", "mockPaid", "mockPost", "failRow", "reverse"}

\* Locals of a payout: its idempotency key, the earning being claimed, those
\* still to come, those claimed with the amount the claim returned, and those
\* whose state in PayOS's answer counts as paid.
PayoutJob == [key : Key, next : Earning, todo : SUBSET Earning,
              held : SUBSET Earning, amount : [Earning -> Nat],
              approved : SUBSET Earning]

\* Locals of a withdrawal; answer is the status mapped from PayOS's state.
WithdrawalJob == [w : Withdrawal, amount : Amount, answer : WithdrawalStatus]

NoJob == [idle |-> TRUE]

TypeOK ==
  /\ earnStatus \in [Earning -> EarningStatus]
  /\ earnAmount \in [Earning -> Nat]
  /\ credit \in [Earning -> Nat]
  /\ wStatus \in [Withdrawal -> WithdrawalStatus]
  /\ wAmount \in [Withdrawal -> Nat]
  /\ wLedger \in [Withdrawal -> LedgerStatus]
  /\ accepted \in SUBSET [earning : Earning, key : Key, amount : Nat]
  /\ taken \in SUBSET Withdrawal
  /\ lost \in SUBSET Withdrawal
  /\ batches \in 0..MaxBatches
  /\ faults \in Nat
  /\ pc \in [Proc -> {"idle"} \cup EarningPC \cup WithdrawalPC]
  /\ job \in [Proc -> PayoutJob \cup WithdrawalJob \cup {NoJob}]
  /\ \A p \in Proc : /\ pc[p] \in EarningPC => job[p] \in PayoutJob
                     /\ pc[p] \in WithdrawalPC => job[p] \in WithdrawalJob

Init ==
  /\ earnStatus = [e \in Earning |-> "none"]
  /\ earnAmount = [e \in Earning |-> 0]
  /\ credit = [e \in Earning |-> 0]
  /\ wStatus = [w \in Withdrawal |-> "none"]
  /\ wAmount = [w \in Withdrawal |-> 0]
  /\ wLedger = [w \in Withdrawal |-> "none"]
  /\ accepted = {}
  /\ taken = {}
  /\ lost = {}
  /\ batches = 0
  /\ pc = [p \in Proc |-> "idle"]
  /\ job = [p \in Proc |-> NoJob]
  /\ faults = 0
-----------------------------------------------------------------------------
Goto(p, c) == pc' = [pc EXCEPT ![p] = c] /\ UNCHANGED job

Return(p) ==
  /\ pc' = [pc EXCEPT ![p] = "idle"]
  /\ job' = [job EXCEPT ![p] = NoJob]

\* One more call has gone wrong.
Fault ==
  /\ faults < MaxFaults
  /\ faults' = faults + 1

\* An update whose error the code ignores: carried out, or lost to a fault.
BestEffort(update, same) ==
  \/ update /\ UNCHANGED faults
  \/ same /\ Fault
-----------------------------------------------------------------------------
(* SyncRevenuePool: one database transaction *)

\* Wrong on purpose: only a processing earning keeps its status.
SyncRevenuePoolReopens(m, New, amt) ==
  LET InFlight(e) == earnStatus[e] = "processing"
      Stale(e) == /\ PoolMonth[e] = m /\ e \notin New
                  /\ earnStatus[e] # "none" /\ ~InFlight(e)
      NewAmount(old) == [e \in Earning |->
        IF e \in New THEN amt[e] ELSE IF Stale(e) THEN 0 ELSE old[e]]
  IN  /\ earnStatus' = [e \in Earning |->
           IF e \in New /\ ~InFlight(e) THEN "pending"
           ELSE IF Stale(e) THEN "failed" ELSE earnStatus[e]]
      /\ earnAmount' = NewAmount(earnAmount)
      /\ credit' = NewAmount(credit)
      /\ UNCHANGED <<withVars, payOS, batches, pc, job, faults>>

\* Month m is recomputed: the creators in New get the amounts amt, the month's
\* other earnings drop to a failed 0.  A paid or processing earning keeps its
\* status, and keeps its amount too when its creator is not in New.
SyncRevenuePool(m, New, amt) ==
  LET InFlight(e) == earnStatus[e] \in {"paid", "processing"}
      Stale(e) == /\ PoolMonth[e] = m /\ e \notin New
                  /\ earnStatus[e] # "none" /\ ~InFlight(e)
      NewAmount(old) == [e \in Earning |->
        IF e \in New THEN amt[e] ELSE IF Stale(e) THEN 0 ELSE old[e]]
  IN  /\ earnStatus' = [e \in Earning |->
           IF e \in New /\ ~InFlight(e) THEN "pending"
           ELSE IF Stale(e) THEN "failed" ELSE earnStatus[e]]
      /\ earnAmount' = NewAmount(earnAmount)
      /\ credit' = NewAmount(credit)
      /\ UNCHANGED <<withVars, payOS, batches, pc, job, faults>>
-----------------------------------------------------------------------------
(* payoutCreatorEarning and BatchPayoutCreatorEarnings *)

\* A request for the earnings S under the key k; e is the first of the list.
StartPayout(p, S, e, k) ==
  /\ pc[p] = "idle"
  /\ pc' = [pc EXCEPT ![p] = "validate"]
  /\ job' = [job EXCEPT ![p] = [key |-> k, next |-> e, todo |-> S \ {e}, held |-> {},
                                amount |-> [x \in Earning |-> 0],
                                approved |-> {}]]
  /\ UNCHANGED <<earnVars, withVars, payOS, faults>>

StartSinglePayout(p, e) ==
  /\ StartPayout(p, {e}, e, 0)
  /\ UNCHANGED batches

StartBatchPayout(p, S) ==
  /\ batches < MaxBatches
  /\ batches' = batches + 1
  /\ \E e \in S : StartPayout(p, S, e, batches + 1)

Payable(e) == earnStatus[e] \in {"pending", "failed"}

\* validatePayoutInput reads the row.  On error the request returns, and the
\* earnings it has already claimed stay claimed.
ValidatePayout(p) ==
  /\ pc[p] = "validate"
  /\ IF Payable(job[p].next) /\ earnAmount[job[p].next] > Minimum
     THEN Goto(p, "claim")
     ELSE Return(p)
  /\ UNCHANGED <<earnVars, withVars, payOS, batches, faults>>

\* Handler p's locals after its claim returned the row, n being the next one.
ClaimedBy(p, n) ==
  LET e == job[p].next
  IN  [job[p] EXCEPT !.next = n,
                     !.todo = @ \ {n},
                     !.held = @ \cup {e},
                     !.amount = [@ EXCEPT ![e] = earnAmount[e]]]

\* Wrong on purpose: the claim trusts the validation and updates by id alone.
ClaimEarningUnguarded(p) ==
  LET e == job[p].next
  IN  /\ pc[p] = "claim"
      /\ earnStatus' = [earnStatus EXCEPT ![e] = "processing"]
      /\ \/ /\ job[p].todo = {}
            /\ job' = [job EXCEPT ![p] = ClaimedBy(p, e)]
            /\ pc' = [pc EXCEPT ![p] = "payEarnings"]
         \/ \E n \in job[p].todo :
              /\ job' = [job EXCEPT ![p] = ClaimedBy(p, n)]
              /\ pc' = [pc EXCEPT ![p] = "validate"]
      /\ UNCHANGED <<earnAmount, credit, withVars, payOS, batches, faults>>

\* MarkCreatorEarningPayoutProcessing: the guarded UPDATE that claims the row
\* and returns it, amount included.  No row updated is an error.
ClaimEarning(p) ==
  LET e == job[p].next
  IN  /\ pc[p] = "claim"
      /\ \/ /\ ~Payable(e)
            /\ Return(p)
            /\ UNCHANGED earnStatus
         \/ /\ Payable(e)
            /\ earnStatus' = [earnStatus EXCEPT ![e] = "processing"]
            /\ \/ /\ job[p].todo = {}
                  /\ job' = [job EXCEPT ![p] = ClaimedBy(p, e)]
                  /\ pc' = [pc EXCEPT ![p] = "payEarnings"]
               \/ \E n \in job[p].todo :
                    /\ job' = [job EXCEPT ![p] = ClaimedBy(p, n)]
                    /\ pc' = [pc EXCEPT ![p] = "validate"]
      /\ UNCHANGED <<earnAmount, credit, withVars, payOS, batches, faults>>

\* PayOS has accepted a payout of earning e under the key k, now or before.
Known(e, k) == \E d \in accepted : d.earning = e /\ d.key = k

\* PayOS accepts the payouts X of handler p, except those it has accepted before
\* under the same key.
Accept(p, X) ==
  accepted' = accepted \cup
    {[earning |-> e, key |-> job[p].key, amount |-> job[p].amount[e]] :
       e \in {x \in X : ~Known(x, job[p].key)}}

\* CreatePayout or CreateBatchPayout is answered: PayOS accepted some of the
\* payouts, and says of some that it accepted that they are completed or, what
\* the code reads alike, merely approved.  Of the others it says that they are
\* under way, unknown or rejected, which the code reads alike too.
PayEarnings(p) ==
  /\ pc[p] = "payEarnings"
  /\ \E X \in SUBSET job[p].held :
       /\ Accept(p, X)
       /\ \E approved \in SUBSET {e \in job[p].held : e \in X \/ Known(e, job[p].key)} :
            job' = [job EXCEPT ![p].approved = approved]
  /\ pc' = [pc EXCEPT ![p] = "settle"]
  /\ UNCHANGED <<earnVars, withVars, taken, lost, batches, faults>>

\* The call returns an error: PayOS refused, or accepted and the answer was lost.
PayEarningsError(p) ==
  /\ pc[p] = "payEarnings"
  /\ \/ UNCHANGED <<accepted, faults>>
     \/ Fault /\ Accept(p, job[p].held)
  /\ Goto(p, "markFailed")
  /\ UNCHANGED <<earnVars, withVars, taken, lost, batches>>

\* Handler p is done with its claimed earning e.
Release(p, e) ==
  IF job[p].held = {e} THEN Return(p)
  ELSE job' = [job EXCEPT ![p].held = @ \ {e}] /\ UNCHANGED pc

\* Wrong on purpose: every answered call counts as a payment, whatever the state.
SettleEarningAnswered(p, e) ==
  /\ pc[p] = "settle"
  /\ e \in job[p].held
  /\ earnStatus' = [earnStatus EXCEPT ![e] = "paid"]
  /\ Release(p, e)
  /\ UNCHANGED <<earnAmount, credit, withVars, payOS, batches, faults>>

\* MarkCreatorEarningPayoutPaid with the status mapped from PayOS's state: paid
\* for a completed or approved payout, processing for every other state.
SettleEarning(p, e) ==
  /\ pc[p] = "settle"
  /\ e \in job[p].held
  /\ earnStatus' = [earnStatus EXCEPT ![e] =
                      IF e \in job[p].approved THEN "paid" ELSE "processing"]
  /\ Release(p, e)
  /\ UNCHANGED <<earnAmount, credit, withVars, payOS, batches, faults>>

\* MarkCreatorEarningPayoutFailed; its own error is ignored.
FailEarning(p, e) ==
  /\ pc[p] = "markFailed"
  /\ e \in job[p].held
  /\ BestEffort(earnStatus' = [earnStatus EXCEPT ![e] = "failed"], UNCHANGED earnStatus)
  /\ Release(p, e)
  /\ UNCHANGED <<earnAmount, credit, withVars, payOS, batches>>
-----------------------------------------------------------------------------
(* CreateCreatorWithdrawal *)

\* Ledger rows of withdrawals that GetCreatorBalanceSummary counts, as
\* withdrawn or as pending.
Withdrawn(w) == \/ wLedger[w] = "posted"
                \/ wLedger[w] # "none" /\ wStatus[w] = "paid"
\* Wrong on purpose: the ledger row alone decides what is pending.
PendingByLedger(w) == wLedger[w] = "reserved"

Pending(w) == wLedger[w] = "reserved" /\ wStatus[w] \notin {"paid", "failed"}
Counted(w) == Withdrawn(w) \/ Pending(w)

\* GetCreatorBalanceSummary: available_balance_vnd of creator c.
Available(c) ==
  LET Credit(e) == IF Payee[e] = c THEN credit[e] ELSE 0
      Debit(w) == IF Requester[w] = c /\ Counted(w) THEN wAmount[w] ELSE 0
  IN  MapThenSumSet(Credit, Earning) - MapThenSumSet(Debit, Withdrawal)

\* The amount is allowed and the balance covers it; w is the row's fresh id.
CheckBalance(p, w, a) ==
  /\ pc[p] = "idle"
  /\ a > Minimum
  /\ Available(Requester[w]) >= a
  /\ wStatus[w] = "none"
  /\ \A q \in Proc : pc[q] \in WithdrawalPC => job[q].w # w
  /\ pc' = [pc EXCEPT ![p] = "createRow"]
  /\ job' = [job EXCEPT ![p] = [w |-> w, amount |-> a, answer |-> "none"]]
  /\ UNCHANGED <<earnVars, withVars, payOS, batches, faults>>

CreateWithdrawalRow(p) ==
  /\ pc[p] = "createRow"
  /\ wStatus' = [wStatus EXCEPT ![job[p].w] = "processing"]
  /\ wAmount' = [wAmount EXCEPT ![job[p].w] = job[p].amount]
  /\ Goto(p, "reserve")
  /\ UNCHANGED <<earnVars, wLedger, payOS, batches, faults>>

ReserveBalance(p) ==
  /\ pc[p] = "reserve"
  /\ wLedger' = [wLedger EXCEPT ![job[p].w] = "reserved"]
  /\ Goto(p, "payWithdrawal")
  /\ UNCHANGED <<earnVars, wStatus, wAmount, payOS, batches, faults>>

\* PayOS takes the withdrawal of handler p, if take, and answers.
AnswerWithdrawal(p, take, answer) ==
  /\ taken' = IF take THEN taken \cup {job[p].w} ELSE taken
  /\ job' = [job EXCEPT ![p].answer = answer]

\* Wrong on purpose: a state the code does not know is taken for a failure.
PayWithdrawalUnknownFails(p) ==
  /\ pc[p] = "payWithdrawal"
  /\ \E take \in BOOLEAN, answer \in {"paid", "failed"} :
       /\ answer = "paid" => take
       /\ AnswerWithdrawal(p, take, answer)
  /\ pc' = [pc EXCEPT ![p] = "updateStatus"]
  /\ UNCHANGED <<earnVars, withVars, accepted, lost, batches, faults>>

\* CreatePayout is answered.  The states the code maps to paid (completed or
\* approved) are PayOS's word that it has taken the withdrawal, those it maps to
\* failed that it has not; every other state may mean either.
PayWithdrawal(p) ==
  /\ pc[p] = "payWithdrawal"
  /\ \E take \in BOOLEAN, answer \in {"paid", "processing", "failed"} :
       /\ answer = "paid" => take
       /\ answer = "failed" => ~take
       /\ AnswerWithdrawal(p, take, answer)
  /\ pc' = [pc EXCEPT ![p] = "updateStatus"]
  /\ UNCHANGED <<earnVars, withVars, accepted, lost, batches, faults>>

\* CreatePayout returns an error: refused, refused because of the caller's IP
\* address, or taken with the answer lost.
PayWithdrawalError(p) ==
  /\ pc[p] = "payWithdrawal"
  /\ \/ /\ \/ Goto(p, "failRow")
           \/ Goto(p, "mockPaid")
        /\ UNCHANGED <<taken, lost, faults>>
     \/ /\ Fault
        /\ Goto(p, "failRow")
        /\ taken' = taken \cup {job[p].w}
        /\ lost' = lost \cup {job[p].w}
  /\ UNCHANGED <<earnVars, withVars, accepted, batches>>

UpdateWithdrawalStatus(p) ==
  /\ pc[p] = "updateStatus"
  /\ wStatus' = [wStatus EXCEPT ![job[p].w] = job[p].answer]
  /\ Goto(p, "postLedger")
  /\ UNCHANGED <<earnVars, wAmount, wLedger, payOS, batches, faults>>

\* The ledger row is posted if the withdrawal is paid, and stays reserved
\* otherwise, also when it has failed.
PostLedger(p) ==
  /\ pc[p] = "postLedger"
  /\ wLedger' = [wLedger EXCEPT ![job[p].w] =
                   IF job[p].answer = "paid" THEN "posted" ELSE "reserved"]
  /\ Return(p)
  /\ UNCHANGED <<earnVars, wStatus, wAmount, payOS, batches, faults>>

\* The 403 fallback marks the withdrawal paid although PayOS refused it; if
\* that update fails the ordinary failure path follows.
MockPaid(p) ==
  /\ pc[p] = "mockPaid"
  /\ \/ /\ wStatus' = [wStatus EXCEPT ![job[p].w] = "paid"]
        /\ Goto(p, "mockPost")
        /\ UNCHANGED faults
     \/ /\ Fault
        /\ Goto(p, "failRow")
        /\ UNCHANGED wStatus
  /\ UNCHANGED <<earnVars, wAmount, wLedger, payOS, batches>>

MockPost(p) ==
  /\ pc[p] = "mockPost"
  /\ BestEffort(wLedger' = [wLedger EXCEPT ![job[p].w] = "posted"], UNCHANGED wLedger)
  /\ Return(p)
  /\ UNCHANGED <<earnVars, wStatus, wAmount, payOS, batches>>

\* Wrong on purpose: the ledger's word for a failure is written to the row.
FailWithdrawalRowReversed(p) ==
  /\ pc[p] = "failRow"
  /\ BestEffort(wStatus' = [wStatus EXCEPT ![job[p].w] = "reversed"], UNCHANGED wStatus)
  /\ Goto(p, "reverse")
  /\ UNCHANGED <<earnVars, wAmount, wLedger, payOS, batches>>

\* After an error: the row is marked failed and the reservation reversed, each
\* as far as the database lets it.
FailWithdrawalRow(p) ==
  /\ pc[p] = "failRow"
  /\ BestEffort(wStatus' = [wStatus EXCEPT ![job[p].w] = "failed"], UNCHANGED wStatus)
  /\ Goto(p, "reverse")
  /\ UNCHANGED <<earnVars, wAmount, wLedger, payOS, batches>>

ReverseReservation(p) ==
  /\ pc[p] = "reverse"
  /\ BestEffort(wLedger' = [wLedger EXCEPT ![job[p].w] = "reversed"], UNCHANGED wLedger)
  /\ Return(p)
  /\ UNCHANGED <<earnVars, wStatus, wAmount, payOS, batches>>
-----------------------------------------------------------------------------
\* A call of handler p fails and its error is returned, or the instance dies.
HandlerStops(p) ==
  /\ pc[p] # "idle"
  /\ Fault
  /\ Return(p)
  /\ UNCHANGED <<earnVars, withVars, payOS, batches>>

PayoutStep(p) ==
  \/ ValidatePayout(p)
  \/ ClaimEarning(p)
  \/ PayEarnings(p)
  \/ PayEarningsError(p)
  \/ \E e \in Earning : SettleEarning(p, e) \/ FailEarning(p, e)

WithdrawalStep(p) ==
  \/ CreateWithdrawalRow(p)
  \/ ReserveBalance(p)
  \/ PayWithdrawal(p)
  \/ PayWithdrawalError(p)
  \/ UpdateWithdrawalStatus(p)
  \/ PostLedger(p)
  \/ MockPaid(p)
  \/ MockPost(p)
  \/ FailWithdrawalRow(p)
  \/ ReverseReservation(p)

Next ==
  \/ \E p \in Proc :
       \/ \E e \in Earning : StartSinglePayout(p, e)
       \/ \E S \in SUBSET Earning \ {{}} : StartBatchPayout(p, S)
       \/ PayoutStep(p)
       \/ \E w \in Withdrawal, a \in Amount : CheckBalance(p, w, a)
       \/ WithdrawalStep(p)
       \/ HandlerStops(p)
  \/ \E m \in Month : \E New \in SUBSET {e \in Earning : PoolMonth[e] = m} :
       \E amt \in [New -> Amount] : SyncRevenuePool(m, New, amt)

Spec == Init /\ [][Next]_vars
-----------------------------------------------------------------------------
(* Properties *)

\* Earnings that handler p has claimed and not yet settled.
Held(p) == IF pc[p] \in EarningPC THEN job[p].held ELSE {}

\* One payout at a time: two requests never work on the same earning, and no
\* recalculation of the month takes a claimed earning out of processing.
ClaimIsExclusive ==
  \A p \in Proc : \A e \in Held(p) :
    /\ earnStatus[e] = "processing"
    /\ \A q \in Proc : e \in Held(q) => q = p

\* Once recorded as paid, an earning stays paid and PayOS accepts no further
\* payout of it, whatever is recalculated, retried or running at the same time.
PaidIsFinal ==
  [][\A e \in Earning : earnStatus[e] = "paid" =>
       /\ earnStatus'[e] = "paid"
       /\ {d \in accepted' : d.earning = e} \subseteq accepted]_vars

\* The earnings' door implements the abstract promise of EarningPayment: nothing
\* is ordered for an unclaimed earning, whoever else is at it, and none is
\* recorded as paid for which PayOS accepted no payout.  Paid does not mean that
\* money has left: an approval is enough (earningStatusFromPayoutState).
Payment == INSTANCE EarningPayment WITH
  claimed <- {e \in Earning : earnStatus[e] = "processing"},
  settled <- {e \in Earning : earnStatus[e] = "paid"},
  ordered <- accepted

ImplementsEarningPayment == Payment!PaymentSpec

\* A withdrawal PayOS has taken, so that its money may leave at any time, counts
\* against the balance, at every step and after a failure at any step, unless
\* PayOS's answer was lost.
TransferIsDebited ==
  \A w \in taken \ lost : Counted(w)

\* A failed withdrawal is given back at once, although the row and the ledger
\* are updated separately and either update may be lost.
FailedIsRefunded ==
  \A w \in Withdrawal : wStatus[w] = "failed" => ~Counted(w)

\* What payos-integration-guide.md:463 wants of idempotency keys ("to prevent
\* duplicate disbursements"): PayOS takes on at most one payout of an earning,
\* for it may carry out every one that it has taken on.
DisbursedOnce ==
  \A d1, d2 \in accepted : d1.earning = d2.earning => d1 = d2
=============================================================================
