----------------------- MODULE CreatorPayoutsProofs -----------------------
(***************************************************************************)
(* Proofs about CreatorPayouts for every set of creators, earnings,        *)
(* withdrawals and handlers: types, exclusive claims, no second payment    *)
(* of a paid earning, the refinement of EarningPayment, that paying twice  *)
(* takes a failure, and a ledger that follows the money.                   *)
(***************************************************************************)
EXTENDS CreatorPayouts, FiniteSetTheorems, TLAPS

USE DEF EarningStatus, WithdrawalStatus, LedgerStatus, Key, EarningPC, WithdrawalPC,
        earnVars, withVars, payOS

-----------------------------------------------------------------------------
(* Type correctness *)

\* Initially every variable has its type.
LEMMA InitTypeOK == Init => TypeOK
  BY BoundsAssumption DEF Init, TypeOK, NoJob

\* A handler that returns leaves pc and job well typed.
LEMMA ReturnTyped ==
  ASSUME TypeOK, NEW p \in Proc, Return(p)
  PROVE  /\ pc' \in [Proc -> {"idle"} \cup EarningPC \cup WithdrawalPC]
         /\ job' \in [Proc -> PayoutJob \cup WithdrawalJob \cup {NoJob}]
         /\ \A q \in Proc : /\ pc'[q] \in EarningPC => job'[q] \in PayoutJob
                            /\ pc'[q] \in WithdrawalPC => job'[q] \in WithdrawalJob
  BY DEF TypeOK, Return

\* So does one that lets go of an earning it had claimed.
LEMMA ReleaseTyped ==
  ASSUME TypeOK, NEW p \in Proc, pc[p] \in EarningPC, NEW e \in Earning, Release(p, e)
  PROVE  /\ pc' \in [Proc -> {"idle"} \cup EarningPC \cup WithdrawalPC]
         /\ job' \in [Proc -> PayoutJob \cup WithdrawalJob \cup {NoJob}]
         /\ \A q \in Proc : /\ pc'[q] \in EarningPC => job'[q] \in PayoutJob
                            /\ pc'[q] \in WithdrawalPC => job'[q] \in WithdrawalJob
<1>1. CASE Return(p) BY <1>1, ReturnTyped
<1>2. CASE job' = [job EXCEPT ![p].held = @ \ {e}] /\ UNCHANGED pc
  <2> DEFINE r == [job[p] EXCEPT !.held = @ \ {e}]
  <2>1. job[p] \in PayoutJob BY DEF TypeOK
  <2>2. r \in PayoutJob BY <2>1 DEF PayoutJob
  <2>3. job' = [job EXCEPT ![p] = r] BY <1>2
  <2>4. UNCHANGED pc BY <1>2
  <2> HIDE DEF r
  <2> QED BY <2>2, <2>3, <2>4 DEF TypeOK
<1> QED BY <1>1, <1>2 DEF Release

\* Each step of a handler or of the pool sync keeps the types.
LEMMA StepTypeOK == TypeOK /\ [Next]_vars => TypeOK'
<1> SUFFICES ASSUME TypeOK, [Next]_vars PROVE TypeOK'
  OBVIOUS
<1> USE BoundsAssumption, AmountAssumption, RowsAssumption DEF TypeOK
<1>1. ASSUME NEW p \in Proc, ValidatePayout(p) PROVE TypeOK'
  BY <1>1, ReturnTyped DEF ValidatePayout, Goto
<1>2. ASSUME NEW p \in Proc, ClaimEarning(p) PROVE TypeOK'
  <2> DEFINE e == job[p].next
  <2>1. pc[p] = "claim" /\ job[p] \in PayoutJob /\ e \in Earning
    BY <1>2 DEF ClaimEarning, PayoutJob
  <2>2. ASSUME NEW n \in Earning PROVE ClaimedBy(p, n) \in PayoutJob
    BY <2>1 DEF ClaimedBy, PayoutJob
  <2>3. CASE ~Payable(e)
    <3>1. Return(p) /\ UNCHANGED <<earnVars, withVars, payOS, batches, faults>>
      BY <1>2, <2>3 DEF ClaimEarning
    <3> QED BY <3>1, ReturnTyped
  <2>4. CASE Payable(e)
    <3>1. \E n \in Earning, c \in {"payEarnings", "validate"} :
            /\ job' = [job EXCEPT ![p] = ClaimedBy(p, n)]
            /\ pc' = [pc EXCEPT ![p] = c]
      <4>1. job[p].todo \in SUBSET Earning BY <2>1 DEF PayoutJob
      <4> QED BY <1>2, <2>1, <2>4, <4>1 DEF ClaimEarning
    <3>2. PICK n \in Earning, c \in {"payEarnings", "validate"} :
            /\ job' = [job EXCEPT ![p] = ClaimedBy(p, n)]
            /\ pc' = [pc EXCEPT ![p] = c]
      BY <3>1
    <3>3. earnStatus' \in [Earning -> EarningStatus]
      BY <1>2, <2>1, <2>4 DEF ClaimEarning
    <3>4. /\ job' \in [Proc -> PayoutJob \cup WithdrawalJob \cup {NoJob}]
          /\ pc' \in [Proc -> {"idle"} \cup EarningPC \cup WithdrawalPC]
          /\ \A q \in Proc : /\ pc'[q] \in EarningPC => job'[q] \in PayoutJob
                             /\ pc'[q] \in WithdrawalPC => job'[q] \in WithdrawalJob
      BY <2>1, <2>2, <3>2
    <3> QED BY <1>2, <3>3, <3>4 DEF ClaimEarning
  <2> QED BY <2>3, <2>4
<1>3. ASSUME NEW p \in Proc, PayEarnings(p) PROVE TypeOK'
  <2>1. job[p] \in PayoutJob
    BY <1>3 DEF PayEarnings
  <2>2. PICK approved \in SUBSET Earning : job' = [job EXCEPT ![p].approved = approved]
    BY <1>3, <2>1 DEF PayEarnings, PayoutJob
  <2>3. [job[p] EXCEPT !.approved = approved] \in PayoutJob
    BY <2>1, <2>2 DEF PayoutJob
  <2>4. accepted' \in SUBSET [earning : Earning, key : Key, amount : Nat]
    BY <1>3, <2>1 DEF PayEarnings, Accept, PayoutJob
  <2>5. /\ job' \in [Proc -> PayoutJob \cup WithdrawalJob \cup {NoJob}]
        /\ pc' \in [Proc -> {"idle"} \cup EarningPC \cup WithdrawalPC]
        /\ \A q \in Proc : /\ pc'[q] \in EarningPC => job'[q] \in PayoutJob
                           /\ pc'[q] \in WithdrawalPC => job'[q] \in WithdrawalJob
    BY <1>3, <2>2, <2>3 DEF PayEarnings
  <2> QED BY <1>3, <2>4, <2>5 DEF PayEarnings
<1>4. ASSUME NEW p \in Proc, PayEarningsError(p) PROVE TypeOK'
  BY <1>4, ReturnTyped DEF PayEarningsError, Goto, Accept, Fault, PayoutJob
<1>5. ASSUME NEW p \in Proc, NEW e \in Earning, SettleEarning(p, e) PROVE TypeOK'
  BY <1>5, ReleaseTyped DEF SettleEarning
<1>6. ASSUME NEW p \in Proc, NEW e \in Earning, FailEarning(p, e) PROVE TypeOK'
  BY <1>6, ReleaseTyped DEF FailEarning, BestEffort, Fault
<1>7. ASSUME NEW p \in Proc, CreateWithdrawalRow(p) PROVE TypeOK'
  BY <1>7, ReturnTyped DEF CreateWithdrawalRow, Goto, WithdrawalJob
<1>8. ASSUME NEW p \in Proc, ReserveBalance(p) PROVE TypeOK'
  BY <1>8, ReturnTyped DEF ReserveBalance, Goto, WithdrawalJob
<1>9. ASSUME NEW p \in Proc, PayWithdrawal(p) PROVE TypeOK'
  BY <1>9, ReturnTyped DEF PayWithdrawal, AnswerWithdrawal, WithdrawalJob
<1>10. ASSUME NEW p \in Proc, PayWithdrawalError(p) PROVE TypeOK'
  BY <1>10, ReturnTyped DEF PayWithdrawalError, Goto, Fault, WithdrawalJob
<1>11. ASSUME NEW p \in Proc, UpdateWithdrawalStatus(p) PROVE TypeOK'
  BY <1>11, ReturnTyped DEF UpdateWithdrawalStatus, Goto, WithdrawalJob
<1>12. ASSUME NEW p \in Proc, PostLedger(p) PROVE TypeOK'
  BY <1>12, ReturnTyped DEF PostLedger, WithdrawalJob
<1>13. ASSUME NEW p \in Proc, MockPaid(p) PROVE TypeOK'
  BY <1>13, ReturnTyped DEF MockPaid, Goto, Fault, WithdrawalJob
<1>14. ASSUME NEW p \in Proc, MockPost(p) PROVE TypeOK'
  BY <1>14, ReturnTyped DEF MockPost, BestEffort, Fault, WithdrawalJob
<1>15. ASSUME NEW p \in Proc, FailWithdrawalRow(p) PROVE TypeOK'
  BY <1>15, ReturnTyped DEF FailWithdrawalRow, Goto, BestEffort, Fault, WithdrawalJob
<1>16. ASSUME NEW p \in Proc, ReverseReservation(p) PROVE TypeOK'
  BY <1>16, ReturnTyped DEF ReverseReservation, BestEffort, Fault, WithdrawalJob
<1>17. ASSUME NEW p \in Proc, HandlerStops(p) PROVE TypeOK'
  BY <1>17, ReturnTyped DEF HandlerStops, Fault
<1>18. ASSUME NEW p \in Proc, NEW e \in Earning, StartSinglePayout(p, e) PROVE TypeOK'
  BY <1>18, ReturnTyped DEF StartSinglePayout, StartPayout, PayoutJob
<1>19. ASSUME NEW p \in Proc, NEW S \in SUBSET Earning, StartBatchPayout(p, S) PROVE TypeOK'
  BY <1>19, ReturnTyped DEF StartBatchPayout, StartPayout, PayoutJob
<1>20. ASSUME NEW p \in Proc, NEW w \in Withdrawal, NEW a \in Amount, CheckBalance(p, w, a) PROVE TypeOK'
  BY <1>20, ReturnTyped DEF CheckBalance, WithdrawalJob
<1>21. ASSUME NEW m \in Month, NEW New \in SUBSET Earning, NEW amt \in [New -> Amount], SyncRevenuePool(m, New, amt) PROVE TypeOK'
  BY <1>21, ReturnTyped DEF SyncRevenuePool
<1>22. CASE UNCHANGED vars
  BY <1>22 DEF vars
<1> QED
  BY <1>1, <1>2, <1>3, <1>4, <1>5, <1>6, <1>7, <1>8, <1>9, <1>10, <1>11, <1>12, <1>13, <1>14, <1>15, <1>16, <1>17, <1>18, <1>19, <1>20, <1>21, <1>22
     DEF Next, PayoutStep, WithdrawalStep

\* Type correctness of both doors through which money leaves.
THEOREM TypeCorrect == Spec => []TypeOK
  BY InitTypeOK, StepTypeOK, PTL DEF Spec

-----------------------------------------------------------------------------
(* The earnings' door.  ClaimIsExclusive is inductive: the guarded UPDATE   *)
(* claims only rows nobody holds, and only the holder moves a processing    *)
(* row.  A paid row is held by nobody, so nothing touches it any more.      *)

\* Letting go of a claimed earning shortens the handler's own list, and only that.
LEMMA ReleaseHeld ==
  ASSUME TypeOK, NEW p \in Proc, pc[p] \in EarningPC, NEW e \in job[p].held, Release(p, e)
  PROVE  /\ Held(p)' = Held(p) \ {e}
         /\ \A q \in Proc \ {p} : Held(q)' = Held(q)
<1>1. CASE job[p].held = {e} /\ Return(p)
  BY <1>1 DEF Return, Held, TypeOK
<1>2. CASE job' = [job EXCEPT ![p].held = @ \ {e}] /\ UNCHANGED pc
  <2> DEFINE r == [job[p] EXCEPT !.held = @ \ {e}]
  <2>1. r.held = job[p].held \ {e} BY DEF TypeOK, PayoutJob
  <2>2. job' = [job EXCEPT ![p] = r] BY <1>2
  <2>3. UNCHANGED pc BY <1>2
  <2> HIDE DEF r
  <2> QED BY <2>1, <2>2, <2>3 DEF TypeOK, Held
<1> QED BY <1>1, <1>2 DEF Release

\* A successful claim adds at most the claimed earning, to the claimer only.
LEMMA ClaimHeld ==
  ASSUME TypeOK, NEW p \in Proc, ClaimEarning(p), Payable(job[p].next)
  PROVE  /\ job[p].next \in Earning
         /\ earnStatus' = [earnStatus EXCEPT ![job[p].next] = "processing"]
         /\ Held(p)' \subseteq Held(p) \cup {job[p].next}
         /\ \A q \in Proc \ {p} : Held(q)' = Held(q)
<1>1. pc[p] = "claim" /\ job[p] \in PayoutJob
  BY DEF ClaimEarning, TypeOK
<1>2. job[p].next \in Earning /\ job[p].todo \in SUBSET Earning
  BY <1>1 DEF PayoutJob
<1>3. \E n \in Earning, c \in {"payEarnings", "validate"} :
        /\ job' = [job EXCEPT ![p] = ClaimedBy(p, n)]
        /\ pc' = [pc EXCEPT ![p] = c]
  BY <1>2 DEF ClaimEarning
<1>4. ASSUME NEW n \in Earning
      PROVE  ClaimedBy(p, n).held = job[p].held \cup {job[p].next}
  BY <1>1 DEF ClaimedBy, PayoutJob
<1>5. earnStatus' = [earnStatus EXCEPT ![job[p].next] = "processing"]
  BY DEF ClaimEarning
<1> QED BY <1>1, <1>2, <1>3, <1>4, <1>5 DEF TypeOK, Held

\* Each step keeps every claim exclusive.
LEMMA StepClaimIsExclusive == TypeOK /\ ClaimIsExclusive /\ [Next]_vars => ClaimIsExclusive'
<1> SUFFICES ASSUME TypeOK, ClaimIsExclusive, [Next]_vars PROVE ClaimIsExclusive'
  OBVIOUS
<1> USE DEF TypeOK, ClaimIsExclusive, Held
<1>1. ASSUME NEW p \in Proc, ValidatePayout(p) PROVE ClaimIsExclusive'
  BY <1>1 DEF ValidatePayout, Goto, Return
<1>2. ASSUME NEW p \in Proc, ClaimEarning(p) PROVE ClaimIsExclusive'
  <2>1. CASE ~Payable(job[p].next)
    BY <1>2, <2>1 DEF ClaimEarning, Return
  <2>2. CASE Payable(job[p].next)
    <3>1. \A q \in Proc : job[p].next \notin Held(q)
      BY <2>2 DEF Payable
    <3> QED BY <1>2, <2>2, <3>1, ClaimHeld DEF PayoutJob
  <2> QED BY <2>1, <2>2
<1>3. ASSUME NEW p \in Proc, PayEarnings(p) PROVE ClaimIsExclusive'
  BY <1>3 DEF PayEarnings, Goto
<1>4. ASSUME NEW p \in Proc, PayEarningsError(p) PROVE ClaimIsExclusive'
  BY <1>4 DEF PayEarningsError, Goto
<1>5. ASSUME NEW p \in Proc, NEW e \in Earning, SettleEarning(p, e) PROVE ClaimIsExclusive'
  <2>1. /\ Held(p)' = Held(p) \ {e}
        /\ \A q \in Proc \ {p} : Held(q)' = Held(q)
    BY <1>5, ReleaseHeld DEF SettleEarning
  <2>2. e \in Held(p) /\ \A x \in Earning \ {e} : earnStatus'[x] = earnStatus[x]
    BY <1>5 DEF SettleEarning
  <2> QED BY <2>1, <2>2 DEF PayoutJob
<1>6. ASSUME NEW p \in Proc, NEW e \in Earning, FailEarning(p, e) PROVE ClaimIsExclusive'
  <2>1. /\ Held(p)' = Held(p) \ {e}
        /\ \A q \in Proc \ {p} : Held(q)' = Held(q)
    BY <1>6, ReleaseHeld DEF FailEarning
  <2>2. e \in Held(p) /\ \A x \in Earning \ {e} : earnStatus'[x] = earnStatus[x]
    BY <1>6 DEF FailEarning, BestEffort
  <2> QED BY <2>1, <2>2 DEF PayoutJob
<1>7. ASSUME NEW p \in Proc, CreateWithdrawalRow(p) PROVE ClaimIsExclusive'
  BY <1>7 DEF CreateWithdrawalRow, Goto
<1>8. ASSUME NEW p \in Proc, ReserveBalance(p) PROVE ClaimIsExclusive'
  BY <1>8 DEF ReserveBalance, Goto
<1>9. ASSUME NEW p \in Proc, PayWithdrawal(p) PROVE ClaimIsExclusive'
  BY <1>9 DEF PayWithdrawal, AnswerWithdrawal
<1>10. ASSUME NEW p \in Proc, PayWithdrawalError(p) PROVE ClaimIsExclusive'
  BY <1>10 DEF PayWithdrawalError, Goto
<1>11. ASSUME NEW p \in Proc, UpdateWithdrawalStatus(p) PROVE ClaimIsExclusive'
  BY <1>11 DEF UpdateWithdrawalStatus, Goto
<1>12. ASSUME NEW p \in Proc, PostLedger(p) PROVE ClaimIsExclusive'
  BY <1>12 DEF PostLedger, Return
<1>13. ASSUME NEW p \in Proc, MockPaid(p) PROVE ClaimIsExclusive'
  BY <1>13 DEF MockPaid, Goto
<1>14. ASSUME NEW p \in Proc, MockPost(p) PROVE ClaimIsExclusive'
  BY <1>14 DEF MockPost, Return, BestEffort
<1>15. ASSUME NEW p \in Proc, FailWithdrawalRow(p) PROVE ClaimIsExclusive'
  BY <1>15 DEF FailWithdrawalRow, Goto, BestEffort
<1>16. ASSUME NEW p \in Proc, ReverseReservation(p) PROVE ClaimIsExclusive'
  BY <1>16 DEF ReverseReservation, Return, BestEffort
<1>17. ASSUME NEW p \in Proc, HandlerStops(p) PROVE ClaimIsExclusive'
  BY <1>17 DEF HandlerStops, Return
<1>18. ASSUME NEW p \in Proc, NEW e \in Earning, StartSinglePayout(p, e) PROVE ClaimIsExclusive'
  BY <1>18 DEF StartSinglePayout, StartPayout
<1>19. ASSUME NEW p \in Proc, NEW S \in SUBSET Earning, StartBatchPayout(p, S) PROVE ClaimIsExclusive'
  BY <1>19 DEF StartBatchPayout, StartPayout
<1>20. ASSUME NEW p \in Proc, NEW w \in Withdrawal, NEW a \in Amount, CheckBalance(p, w, a) PROVE ClaimIsExclusive'
  BY <1>20 DEF CheckBalance
<1>21. ASSUME NEW m \in Month, NEW New \in SUBSET Earning, NEW amt \in [New -> Amount], SyncRevenuePool(m, New, amt) PROVE ClaimIsExclusive'
  <2>1. \A x \in Earning : earnStatus[x] = "processing" => earnStatus'[x] = "processing"
    BY <1>21 DEF SyncRevenuePool
  <2>2. \A q \in Proc : Held(q)' = Held(q)
    BY <1>21 DEF SyncRevenuePool
  <2> QED BY <2>1, <2>2 DEF PayoutJob
<1>22. CASE UNCHANGED vars
  BY <1>22 DEF vars
<1> QED
  BY <1>1, <1>2, <1>3, <1>4, <1>5, <1>6, <1>7, <1>8, <1>9, <1>10, <1>11, <1>12, <1>13, <1>14, <1>15, <1>16, <1>17, <1>18, <1>19, <1>20, <1>21, <1>22
     DEF Next, PayoutStep, WithdrawalStep

\* Two requests never work on the same earning.
THEOREM ClaimsExclusive == Spec => []ClaimIsExclusive
<1>1. Init => ClaimIsExclusive
  BY DEF Init, ClaimIsExclusive, Held
<1> QED BY <1>1, InitTypeOK, StepTypeOK, StepClaimIsExclusive, PTL DEF Spec

\* What a step may do to an earning that is recorded as paid.
PaidStays == \A e \in Earning : earnStatus[e] = "paid" =>
               /\ earnStatus'[e] = "paid"
               /\ {d \in accepted' : d.earning = e} \subseteq accepted

\* No step reopens or pays again what nobody holds.
LEMMA StepPaidStays == TypeOK /\ ClaimIsExclusive /\ [Next]_vars => PaidStays
<1> SUFFICES ASSUME TypeOK, ClaimIsExclusive, [Next]_vars PROVE PaidStays
  OBVIOUS
<1> USE DEF TypeOK, ClaimIsExclusive, Held, PaidStays
<1>1. ASSUME NEW p \in Proc, ValidatePayout(p) PROVE PaidStays
  BY <1>1 DEF ValidatePayout, Goto, Return
<1>2. ASSUME NEW p \in Proc, ClaimEarning(p) PROVE PaidStays
  <2>1. UNCHANGED accepted
    BY <1>2 DEF ClaimEarning
  <2>2. CASE ~Payable(job[p].next)
    BY <1>2, <2>1, <2>2 DEF ClaimEarning
  <2>3. CASE Payable(job[p].next)
    BY <1>2, <2>1, <2>3, ClaimHeld DEF Payable
  <2> QED BY <2>2, <2>3
<1>3. ASSUME NEW p \in Proc, PayEarnings(p) PROVE PaidStays
  BY <1>3 DEF PayEarnings, Goto, Accept
<1>4. ASSUME NEW p \in Proc, PayEarningsError(p) PROVE PaidStays
  BY <1>4 DEF PayEarningsError, Goto, Accept
<1>5. ASSUME NEW p \in Proc, NEW e \in Earning, SettleEarning(p, e) PROVE PaidStays
  BY <1>5 DEF SettleEarning, Release, Return
<1>6. ASSUME NEW p \in Proc, NEW e \in Earning, FailEarning(p, e) PROVE PaidStays
  BY <1>6 DEF FailEarning, Release, Return, BestEffort
<1>7. ASSUME NEW p \in Proc, CreateWithdrawalRow(p) PROVE PaidStays
  BY <1>7 DEF CreateWithdrawalRow, Goto
<1>8. ASSUME NEW p \in Proc, ReserveBalance(p) PROVE PaidStays
  BY <1>8 DEF ReserveBalance, Goto
<1>9. ASSUME NEW p \in Proc, PayWithdrawal(p) PROVE PaidStays
  BY <1>9 DEF PayWithdrawal, AnswerWithdrawal
<1>10. ASSUME NEW p \in Proc, PayWithdrawalError(p) PROVE PaidStays
  BY <1>10 DEF PayWithdrawalError, Goto
<1>11. ASSUME NEW p \in Proc, UpdateWithdrawalStatus(p) PROVE PaidStays
  BY <1>11 DEF UpdateWithdrawalStatus, Goto
<1>12. ASSUME NEW p \in Proc, PostLedger(p) PROVE PaidStays
  BY <1>12 DEF PostLedger, Return
<1>13. ASSUME NEW p \in Proc, MockPaid(p) PROVE PaidStays
  BY <1>13 DEF MockPaid, Goto
<1>14. ASSUME NEW p \in Proc, MockPost(p) PROVE PaidStays
  BY <1>14 DEF MockPost, Return, BestEffort
<1>15. ASSUME NEW p \in Proc, FailWithdrawalRow(p) PROVE PaidStays
  BY <1>15 DEF FailWithdrawalRow, Goto, BestEffort
<1>16. ASSUME NEW p \in Proc, ReverseReservation(p) PROVE PaidStays
  BY <1>16 DEF ReverseReservation, Return, BestEffort
<1>17. ASSUME NEW p \in Proc, HandlerStops(p) PROVE PaidStays
  BY <1>17 DEF HandlerStops, Return
<1>18. ASSUME NEW p \in Proc, NEW e \in Earning, StartSinglePayout(p, e) PROVE PaidStays
  BY <1>18 DEF StartSinglePayout, StartPayout
<1>19. ASSUME NEW p \in Proc, NEW S \in SUBSET Earning, StartBatchPayout(p, S) PROVE PaidStays
  BY <1>19 DEF StartBatchPayout, StartPayout
<1>20. ASSUME NEW p \in Proc, NEW w \in Withdrawal, NEW a \in Amount, CheckBalance(p, w, a) PROVE PaidStays
  BY <1>20 DEF CheckBalance
<1>21. ASSUME NEW m \in Month, NEW New \in SUBSET Earning, NEW amt \in [New -> Amount], SyncRevenuePool(m, New, amt) PROVE PaidStays
  BY <1>21 DEF SyncRevenuePool
<1>22. CASE UNCHANGED vars
  BY <1>22 DEF vars
<1> QED
  BY <1>1, <1>2, <1>3, <1>4, <1>5, <1>6, <1>7, <1>8, <1>9, <1>10, <1>11, <1>12, <1>13, <1>14, <1>15, <1>16, <1>17, <1>18, <1>19, <1>20, <1>21, <1>22
     DEF Next, PayoutStep, WithdrawalStep

\* A paid earning is never paid again.
THEOREM PaidOnceAndForAll == Spec => PaidIsFinal
<1>1. TypeOK /\ ClaimIsExclusive /\ [Next]_vars => [PaidStays]_vars
  BY StepPaidStays
<1> QED BY <1>1, InitTypeOK, StepTypeOK, ClaimsExclusive, TypeCorrect, PTL
        DEF Spec, PaidIsFinal, PaidStays

\* What PayOS's answer calls paid is a payout it has taken on.
AnswersAreTrue ==
  \A p \in Proc : pc[p] = "settle" =>
    \A e \in job[p].approved : \E d \in accepted : d.earning = e

\* Letting go of an earning leaves the answer as it was.
LEMMA ReleaseKeepsAnswers ==
  ASSUME TypeOK, NEW p \in Proc, pc[p] \in EarningPC, NEW e \in Earning, Release(p, e)
  PROVE  /\ pc'[p] = "settle" => pc[p] = "settle" /\ job'[p].approved = job[p].approved
         /\ \A q \in Proc \ {p} : pc'[q] = pc[q] /\ job'[q] = job[q]
<1>1. CASE Return(p)
  BY <1>1 DEF Return, TypeOK
<1>2. CASE job' = [job EXCEPT ![p].held = @ \ {e}] /\ UNCHANGED pc
  <2> DEFINE r == [job[p] EXCEPT !.held = @ \ {e}]
  <2>1. r.approved = job[p].approved BY DEF TypeOK, PayoutJob
  <2>2. job' = [job EXCEPT ![p] = r] BY <1>2
  <2>3. UNCHANGED pc BY <1>2
  <2> HIDE DEF r
  <2> QED BY <2>1, <2>2, <2>3 DEF TypeOK
<1> QED BY <1>1, <1>2 DEF Release

\* Each step leaves the answers true: nothing that was taken on is forgotten.
LEMMA StepAnswersAreTrue == TypeOK /\ AnswersAreTrue /\ [Next]_vars => AnswersAreTrue'
<1> SUFFICES ASSUME TypeOK, AnswersAreTrue, [Next]_vars PROVE AnswersAreTrue'
  OBVIOUS
<1> USE DEF TypeOK, AnswersAreTrue
<1>1. ASSUME NEW p \in Proc, ValidatePayout(p) PROVE AnswersAreTrue'
  BY <1>1 DEF ValidatePayout, Goto, Return
<1>2. ASSUME NEW p \in Proc, ClaimEarning(p) PROVE AnswersAreTrue'
  <2>1. /\ pc'[p] # "settle" /\ UNCHANGED accepted
        /\ \A q \in Proc \ {p} : pc'[q] = pc[q] /\ job'[q] = job[q]
    BY <1>2 DEF ClaimEarning, Return
  <2> QED BY <2>1
<1>3. ASSUME NEW p \in Proc, PayEarnings(p) PROVE AnswersAreTrue'
  <2>1. PICK X \in SUBSET job[p].held :
          /\ Accept(p, X)
          /\ \E approved \in SUBSET {e \in job[p].held : e \in X \/ Known(e, job[p].key)} :
               job' = [job EXCEPT ![p].approved = approved]
    BY <1>3 DEF PayEarnings
  <2>2. PICK approved \in SUBSET {e \in job[p].held : e \in X \/ Known(e, job[p].key)} :
          job' = [job EXCEPT ![p].approved = approved]
    BY <2>1
  <2>3. accepted \subseteq accepted'
    BY <2>1 DEF Accept
  <2>4. ASSUME NEW e \in approved PROVE \E d \in accepted' : d.earning = e
    <3>1. CASE Known(e, job[p].key)
      BY <2>3, <3>1 DEF Known
    <3>2. CASE ~Known(e, job[p].key)
      <4>1. e \in {x \in X : ~Known(x, job[p].key)}
        BY <2>2, <3>2
      <4>2. [earning |-> e, key |-> job[p].key, amount |-> job[p].amount[e]] \in accepted'
        BY <2>1, <4>1 DEF Accept
      <4> QED BY <4>2
    <3> QED BY <3>1, <3>2
  <2>5. job'[p].approved = approved
    BY <1>3, <2>2 DEF PayEarnings, PayoutJob
  <2>6. \A q \in Proc \ {p} : pc'[q] = pc[q] /\ job'[q] = job[q]
    BY <1>3, <2>2 DEF PayEarnings
  <2> QED BY <2>3, <2>4, <2>5, <2>6
<1>4. ASSUME NEW p \in Proc, PayEarningsError(p) PROVE AnswersAreTrue'
  <2>1. accepted \subseteq accepted' /\ pc'[p] # "settle"
    BY <1>4 DEF PayEarningsError, Accept, Goto
  <2>2. \A q \in Proc \ {p} : pc'[q] = pc[q] /\ job'[q] = job[q]
    BY <1>4 DEF PayEarningsError, Goto
  <2> QED BY <2>1, <2>2
<1>5. ASSUME NEW p \in Proc, NEW e \in Earning, SettleEarning(p, e) PROVE AnswersAreTrue'
  <2>1. UNCHANGED accepted /\ pc[p] \in EarningPC
    BY <1>5 DEF SettleEarning
  <2> QED BY <1>5, <2>1, ReleaseKeepsAnswers DEF SettleEarning
<1>6. ASSUME NEW p \in Proc, NEW e \in Earning, FailEarning(p, e) PROVE AnswersAreTrue'
  <2>1. UNCHANGED accepted /\ pc[p] \in EarningPC
    BY <1>6 DEF FailEarning
  <2> QED BY <1>6, <2>1, ReleaseKeepsAnswers DEF FailEarning
<1>7. ASSUME NEW p \in Proc, CreateWithdrawalRow(p) PROVE AnswersAreTrue'
  BY <1>7 DEF CreateWithdrawalRow, Goto
<1>8. ASSUME NEW p \in Proc, ReserveBalance(p) PROVE AnswersAreTrue'
  BY <1>8 DEF ReserveBalance, Goto
<1>9. ASSUME NEW p \in Proc, PayWithdrawal(p) PROVE AnswersAreTrue'
  BY <1>9 DEF PayWithdrawal, AnswerWithdrawal
<1>10. ASSUME NEW p \in Proc, PayWithdrawalError(p) PROVE AnswersAreTrue'
  BY <1>10 DEF PayWithdrawalError, Goto
<1>11. ASSUME NEW p \in Proc, UpdateWithdrawalStatus(p) PROVE AnswersAreTrue'
  BY <1>11 DEF UpdateWithdrawalStatus, Goto
<1>12. ASSUME NEW p \in Proc, PostLedger(p) PROVE AnswersAreTrue'
  BY <1>12 DEF PostLedger, Return
<1>13. ASSUME NEW p \in Proc, MockPaid(p) PROVE AnswersAreTrue'
  BY <1>13 DEF MockPaid, Goto
<1>14. ASSUME NEW p \in Proc, MockPost(p) PROVE AnswersAreTrue'
  BY <1>14 DEF MockPost, Return, BestEffort
<1>15. ASSUME NEW p \in Proc, FailWithdrawalRow(p) PROVE AnswersAreTrue'
  BY <1>15 DEF FailWithdrawalRow, Goto, BestEffort
<1>16. ASSUME NEW p \in Proc, ReverseReservation(p) PROVE AnswersAreTrue'
  BY <1>16 DEF ReverseReservation, Return, BestEffort
<1>17. ASSUME NEW p \in Proc, HandlerStops(p) PROVE AnswersAreTrue'
  BY <1>17 DEF HandlerStops, Return
<1>18. ASSUME NEW p \in Proc, NEW e \in Earning, StartSinglePayout(p, e) PROVE AnswersAreTrue'
  BY <1>18 DEF StartSinglePayout, StartPayout
<1>19. ASSUME NEW p \in Proc, NEW S \in SUBSET Earning, StartBatchPayout(p, S) PROVE AnswersAreTrue'
  BY <1>19 DEF StartBatchPayout, StartPayout
<1>20. ASSUME NEW p \in Proc, NEW w \in Withdrawal, NEW a \in Amount, CheckBalance(p, w, a) PROVE AnswersAreTrue'
  BY <1>20 DEF CheckBalance
<1>21. ASSUME NEW m \in Month, NEW New \in SUBSET Earning, NEW amt \in [New -> Amount], SyncRevenuePool(m, New, amt) PROVE AnswersAreTrue'
  BY <1>21 DEF SyncRevenuePool
<1>22. CASE UNCHANGED vars
  BY <1>22 DEF vars
<1> QED
  BY <1>1, <1>2, <1>3, <1>4, <1>5, <1>6, <1>7, <1>8, <1>9, <1>10, <1>11, <1>12, <1>13, <1>14, <1>15, <1>16, <1>17, <1>18, <1>19, <1>20, <1>21, <1>22
     DEF Next, PayoutStep, WithdrawalStep

\* Handlers settle on true answers only.
LEMMA AnswersTrue == Spec => []AnswersAreTrue
<1>1. Init => AnswersAreTrue
  BY DEF Init, AnswersAreTrue
<1> QED BY <1>1, InitTypeOK, StepTypeOK, StepAnswersAreTrue, PTL DEF Spec

-----------------------------------------------------------------------------
(* Refinement: every step at the earnings' door is a step of EarningPayment, *)
(* every other one does not change what it sees.                             *)

\* The initial state maps to EarningPayment's.
LEMMA InitPayment == Init => Payment!PaymentInit
  BY DEF Init, Payment!PaymentInit

\* One call to PayOS orders payouts of its own earnings, each of them at most once.
LEMMA AcceptIsOrder ==
  ASSUME NEW p \in Proc, NEW X \in SUBSET Earning, Accept(p, X), UNCHANGED earnStatus,
         \A e \in X : earnStatus[e] = "processing"
  PROVE  Payment!Order
<1>1. accepted \subseteq accepted'
  BY DEF Accept
<1>2. \A d \in accepted' \ accepted :
        /\ d.earning \in X
        /\ d = [earning |-> d.earning, key |-> job[p].key, amount |-> job[p].amount[d.earning]]
  BY DEF Accept
<1>3. \A d, x \in accepted' \ accepted : x.earning = d.earning => x = d
  BY <1>2, Zenon
<1> QED BY <1>1, <1>2, <1>3 DEF Payment!Order

\* A successful claim maps to Claim, the calls to PayOS to Order, settling as
\* paid to Settle, marking as failed to GiveUp; everything else to a stutter.
LEMMA StepPayment ==
  TypeOK /\ ClaimIsExclusive /\ AnswersAreTrue /\ [Next]_vars
    => [Payment!PaymentNext]_(Payment!paymentVars)
<1> SUFFICES ASSUME TypeOK, ClaimIsExclusive, AnswersAreTrue, [Next]_vars
             PROVE  Payment!PaymentNext \/ UNCHANGED Payment!paymentVars
  OBVIOUS
<1> DEFINE claimed == {e \in Earning : earnStatus[e] = "processing"}
           settled == {e \in Earning : earnStatus[e] = "paid"}
<1> USE DEF TypeOK, Payment!paymentVars, Payment!PaymentNext
<1>1. ASSUME UNCHANGED <<earnStatus, accepted>> PROVE UNCHANGED Payment!paymentVars
  BY <1>1
<1>2. ASSUME NEW p \in Proc, ClaimEarning(p)
      PROVE  Payment!PaymentNext \/ UNCHANGED Payment!paymentVars
  <2> DEFINE e == job[p].next
  <2>1. CASE ~Payable(e)
    BY <1>1, <1>2, <2>1 DEF ClaimEarning
  <2>2. CASE Payable(e)
    <3>1. e \in Earning /\ e \notin claimed \cup settled
      BY <1>2, <2>2, ClaimHeld DEF Payable
    <3>2. claimed' = claimed \cup {e} /\ settled' = settled
      BY <1>2, <2>2, <3>1, ClaimHeld
    <3> QED BY <1>2, <3>1, <3>2 DEF ClaimEarning, Payment!Claim
  <2> QED BY <2>1, <2>2
<1>3. ASSUME NEW p \in Proc, PayEarnings(p) PROVE Payment!PaymentNext
  <2>1. PICK X \in SUBSET job[p].held : Accept(p, X)
    BY <1>3 DEF PayEarnings
  <2>2. X \in SUBSET Earning /\ \A e \in X : earnStatus[e] = "processing"
    BY <1>3, <2>1 DEF PayEarnings, ClaimIsExclusive, Held, PayoutJob
  <2>3. Payment!Order
    BY <1>3, <2>1, <2>2, AcceptIsOrder DEF PayEarnings
  <2> QED BY <2>3
<1>4. ASSUME NEW p \in Proc, PayEarningsError(p)
      PROVE  Payment!PaymentNext \/ UNCHANGED Payment!paymentVars
  <2>1. CASE UNCHANGED accepted
    BY <1>1, <1>4, <2>1 DEF PayEarningsError
  <2>2. CASE Accept(p, job[p].held)
    <3>1. job[p].held \in SUBSET Earning /\ \A e \in job[p].held : earnStatus[e] = "processing"
      BY <1>4 DEF PayEarningsError, ClaimIsExclusive, Held, PayoutJob
    <3>2. Payment!Order
      BY <1>4, <2>2, <3>1, AcceptIsOrder DEF PayEarningsError
    <3> QED BY <3>2
  <2> QED BY <1>4, <2>1, <2>2 DEF PayEarningsError
<1>5. ASSUME NEW p \in Proc, NEW e \in Earning, SettleEarning(p, e)
      PROVE  Payment!PaymentNext \/ UNCHANGED Payment!paymentVars
  <2>1. e \in claimed /\ UNCHANGED accepted
    BY <1>5 DEF SettleEarning, ClaimIsExclusive, Held
  <2>2. PICK status \in {"paid", "processing"} :
          /\ status = "paid" => \E d \in accepted : d.earning = e
          /\ earnStatus' = [earnStatus EXCEPT ![e] = status]
    BY <1>5 DEF SettleEarning, AnswersAreTrue
  <2>3. CASE status = "processing"
    <3>1. claimed' = claimed /\ settled' = settled
      BY <2>1, <2>2, <2>3
    <3> QED BY <2>1, <3>1
  <2>4. CASE status = "paid"
    <3>1. claimed' = claimed \ {e} /\ settled' = settled \cup {e}
      BY <2>1, <2>2, <2>4
    <3> QED BY <2>1, <2>2, <2>4, <3>1 DEF Payment!Settle
  <2> QED BY <2>3, <2>4
<1>6. ASSUME NEW p \in Proc, NEW e \in Earning, FailEarning(p, e)
      PROVE  Payment!PaymentNext \/ UNCHANGED Payment!paymentVars
  <2>1. e \in claimed /\ UNCHANGED accepted
    BY <1>6 DEF FailEarning, ClaimIsExclusive, Held
  <2>2. CASE UNCHANGED earnStatus
    BY <1>1, <2>1, <2>2
  <2>3. CASE earnStatus' = [earnStatus EXCEPT ![e] = "failed"]
    <3>1. claimed' = claimed \ {e} /\ settled' = settled
      BY <2>1, <2>3
    <3> QED BY <2>1, <3>1 DEF Payment!GiveUp
  <2> QED BY <1>6, <2>2, <2>3 DEF FailEarning, BestEffort
<1>7. ASSUME NEW m \in Month, NEW New \in SUBSET Earning, NEW amt \in [New -> Amount],
             SyncRevenuePool(m, New, amt)
      PROVE  UNCHANGED Payment!paymentVars
  <2>1. claimed' = claimed /\ settled' = settled
    BY <1>7 DEF SyncRevenuePool
  <2> QED BY <1>7, <2>1 DEF SyncRevenuePool
<1>8. ASSUME NEW p \in Proc, ValidatePayout(p) \/ WithdrawalStep(p) \/ HandlerStops(p)
      PROVE  UNCHANGED Payment!paymentVars
  BY <1>1, <1>8 DEF ValidatePayout, HandlerStops, WithdrawalStep, CreateWithdrawalRow,
     ReserveBalance, PayWithdrawal, PayWithdrawalError, UpdateWithdrawalStatus, PostLedger,
     MockPaid, MockPost, FailWithdrawalRow, ReverseReservation
<1>9. ASSUME NEW p \in Proc,
             \/ \E e \in Earning : StartSinglePayout(p, e)
             \/ \E S \in SUBSET Earning \ {{}} : StartBatchPayout(p, S)
             \/ \E w \in Withdrawal, a \in Amount : CheckBalance(p, w, a)
      PROVE  UNCHANGED Payment!paymentVars
  BY <1>1, <1>9 DEF StartSinglePayout, StartBatchPayout, StartPayout, CheckBalance
<1>10. CASE UNCHANGED vars
  BY <1>1, <1>10 DEF vars
<1> HIDE DEF Payment!paymentVars, Payment!PaymentNext
<1> QED BY <1>2, <1>3, <1>4, <1>5, <1>6, <1>7, <1>8, <1>9, <1>10 DEF Next, PayoutStep

\* billing-service keeps EarningPayment's promise, through single and batch
\* payouts at once, recalculations, lost answers and crashes.
THEOREM PayoutsImplementEarningPayment == Spec => ImplementsEarningPayment
  BY InitTypeOK, StepTypeOK, ClaimsExclusive, AnswersTrue, TypeCorrect, InitPayment,
     StepPayment, PTL
     DEF Spec, ImplementsEarningPayment, Payment!PaymentSpec

-----------------------------------------------------------------------------
(* How often PayOS takes on a payout of an earning: once, and once more for *)
(* every call that went wrong.                                              *)

TakenOn(e) == {d \in accepted : d.earning = e}

\* Nobody will send for a payout of e any more: it is claimed or paid, and who
\* holds it, if anyone does, has made his call.
Closed(e) ==
  /\ earnStatus[e] \in {"processing", "paid"}
  /\ \A p \in Proc : e \in Held(p) => pc[p] = "settle"

\* Repeated payouts are paid for with faults.
PayoutsFollowFaults ==
  \A e \in Earning :
    /\ IsFiniteSet(TakenOn(e))
    /\ Cardinality(TakenOn(e)) <= faults + 1
    /\ ~Closed(e) => Cardinality(TakenOn(e)) <= faults

\* Whoever holds an earning without having asked for its payout keeps it open.
LEMMA OpenIsNotClosed ==
  ASSUME NEW p \in Proc, NEW e \in Held(p), pc[p] # "settle"
  PROVE  ~Closed(e)
  BY DEF Closed

\* A set to which at most one element is added grows by at most one.
LEMMA OneMore ==
  ASSUME NEW S, IsFiniteSet(S), NEW d, NEW T, T = S \/ T = S \cup {d}
  PROVE  /\ IsFiniteSet(T)
         /\ Cardinality(S) \in Nat /\ Cardinality(T) \in Nat
         /\ Cardinality(T) <= Cardinality(S) + 1
<1>1. Cardinality(S) \in Nat
  BY FS_CardinalityType
<1>2. CASE T = S
  BY <1>1, <1>2
<1>3. CASE T = S \cup {d}
  <2>1. /\ IsFiniteSet(T)
        /\ Cardinality(T) = IF d \in S THEN Cardinality(S) ELSE Cardinality(S) + 1
    BY <1>3, FS_AddElement, Zenon
  <2> QED BY <1>1, <2>1
<1> QED BY <1>2, <1>3

\* A call to PayOS adds at most one payout of each earning, and none of what the
\* request does not hold.
LEMMA AcceptAddsOne ==
  ASSUME TypeOK, NEW p \in Proc, NEW X \in SUBSET Earning, Accept(p, X), NEW e \in Earning,
         IsFiniteSet(TakenOn(e))
  PROVE  /\ IsFiniteSet(TakenOn(e)')
         /\ Cardinality(TakenOn(e)') \in Nat /\ Cardinality(TakenOn(e)) \in Nat
         /\ Cardinality(TakenOn(e)') <= Cardinality(TakenOn(e)) + 1
         /\ e \notin X => TakenOn(e)' = TakenOn(e)
<1> DEFINE d == [earning |-> e, key |-> job[p].key, amount |-> job[p].amount[e]]
<1>1. TakenOn(e)' = TakenOn(e) \/ TakenOn(e)' = TakenOn(e) \cup {d}
  BY DEF Accept, TakenOn
<1>2. e \notin X => TakenOn(e)' = TakenOn(e)
  BY DEF Accept, TakenOn
<1> HIDE DEF d
<1> QED BY <1>1, <1>2, OneMore

\* A step that pays nothing out and opens no closed earning keeps the invariant.
LEMMA NothingTakenOn ==
  ASSUME TypeOK, TypeOK', PayoutsFollowFaults, UNCHANGED accepted, faults <= faults',
         \A e \in Earning : Closed(e) => Closed(e)'
  PROVE  PayoutsFollowFaults'
<1>1. \A e \in Earning : TakenOn(e)' = TakenOn(e)
  BY DEF TakenOn
<1>2. \A e \in Earning : Cardinality(TakenOn(e)) \in Nat
  BY FS_CardinalityType DEF PayoutsFollowFaults
<1>3. faults \in Nat /\ faults' \in Nat
  BY DEF TypeOK
<1> QED BY <1>1, <1>2, <1>3 DEF PayoutsFollowFaults

\* A step in which handlers only let go of earnings, and that takes none out of
\* processing or paid, closes what was closed.
LEMMA LettingGo ==
  ASSUME \A p \in Proc : Held(p)' \subseteq Held(p),
         \A p \in Proc : pc[p] = "settle" => pc'[p] = "settle" \/ Held(p)' = {},
         NEW e \in Earning, Closed(e), earnStatus'[e] \in {"processing", "paid"}
  PROVE  Closed(e)'
  BY DEF Closed

LEMMA StepPayoutsFollowFaults ==
  TypeOK /\ TypeOK' /\ ClaimIsExclusive /\ PayoutsFollowFaults /\ [Next]_vars
    => PayoutsFollowFaults'
<1> SUFFICES ASSUME TypeOK, TypeOK', ClaimIsExclusive, PayoutsFollowFaults, [Next]_vars
             PROVE  PayoutsFollowFaults'
  OBVIOUS
<1> DEFINE Quiet == /\ UNCHANGED accepted /\ faults <= faults'
                    /\ \A e \in Earning : Closed(e) => Closed(e)'
<1>0. Quiet => PayoutsFollowFaults'
  BY NothingTakenOn
<1>1. faults \in Nat
  BY DEF TypeOK
<1>2. ASSUME NEW p \in Proc, ValidatePayout(p) PROVE Quiet
  BY <1>1, <1>2 DEF ValidatePayout, Goto, Return, TypeOK, Closed, Held
<1>3. ASSUME NEW p \in Proc, ClaimEarning(p) PROVE Quiet
  <2>1. pc[p] = "claim" /\ UNCHANGED <<accepted, faults>>
    BY <1>3 DEF ClaimEarning
  <2>2. CASE ~Payable(job[p].next)
    BY <1>1, <1>3, <2>1, <2>2 DEF ClaimEarning, Return, TypeOK, Closed, Held
  <2>3. CASE Payable(job[p].next)
    <3>1. ~Closed(job[p].next)
      BY <2>3 DEF Closed, Payable
    <3>2. \A q \in Proc \ {p} : pc'[q] = pc[q]
      BY <1>3 DEF ClaimEarning, Return, TypeOK
    <3>3. ASSUME NEW e \in Earning, Closed(e) PROVE Closed(e)'
      <4>1. e # job[p].next /\ e \notin Held(p)
        BY <2>1, <3>1, <3>3, OpenIsNotClosed
      <4> QED BY <1>3, <2>3, <3>2, <3>3, <4>1, ClaimHeld DEF TypeOK, Closed
    <3> QED BY <1>1, <2>1, <3>3
  <2> QED BY <2>2, <2>3
<1>4. ASSUME NEW p \in Proc, PayEarnings(p) PROVE PayoutsFollowFaults'
  <2>1. PICK X \in SUBSET job[p].held : Accept(p, X)
    BY <1>4 DEF PayEarnings
  <2>2. /\ Held(p) = job[p].held /\ job[p].held \subseteq Earning
        /\ pc' = [pc EXCEPT ![p] = "settle"] /\ UNCHANGED <<earnStatus, faults>>
        /\ pc[p] = "payEarnings"
    BY <1>4 DEF PayEarnings, Held, TypeOK, PayoutJob
  <2>3. \A q \in Proc : Held(q)' = Held(q)
    <3>1. PICK a : job' = [job EXCEPT ![p].approved = a]
      BY <1>4 DEF PayEarnings
    <3>2. [job[p] EXCEPT !.approved = a].held = job[p].held
      BY <2>2 DEF TypeOK, PayoutJob
    <3> QED BY <2>2, <3>1, <3>2 DEF Held, TypeOK
  <2>4. ASSUME NEW e \in Earning, e \in job[p].held PROVE Closed(e)' /\ ~Closed(e)
    BY <2>2, <2>3, <2>4, OpenIsNotClosed DEF ClaimIsExclusive, Closed, TypeOK
  <2>5. ASSUME NEW e \in Earning, Closed(e) PROVE Closed(e)'
    BY <2>2, <2>3, <2>5 DEF Closed, TypeOK
  <2> QED BY <1>1, <2>1, <2>2, <2>4, <2>5, AcceptAddsOne DEF PayoutsFollowFaults
<1>5. ASSUME NEW p \in Proc, PayEarningsError(p) PROVE PayoutsFollowFaults'
  <2>1. /\ Held(p) = job[p].held /\ job[p].held \subseteq Earning
        /\ pc' = [pc EXCEPT ![p] = "markFailed"] /\ UNCHANGED <<job, earnStatus>>
        /\ pc[p] = "payEarnings"
    BY <1>5 DEF PayEarningsError, Goto, Held, TypeOK, PayoutJob
  <2>2. \A q \in Proc : Held(q)' = Held(q)
    BY <2>1 DEF Held, TypeOK
  <2>3. ASSUME NEW e \in Earning, Closed(e) PROVE Closed(e)'
    <3>1. e \notin Held(p)
      BY <2>1, <2>3, OpenIsNotClosed
    <3> QED BY <2>1, <2>2, <2>3, <3>1 DEF Closed, TypeOK
  <2>4. CASE UNCHANGED <<accepted, faults>>
    BY <1>0, <1>1, <2>3, <2>4
  <2>5. CASE Fault /\ Accept(p, job[p].held)
    <3>1. \A e \in job[p].held : ~Closed(e)
      BY <2>1, OpenIsNotClosed
    <3>2. faults' = faults + 1
      BY <2>5 DEF Fault
    <3> QED BY <1>1, <2>1, <2>3, <2>5, <3>1, <3>2, AcceptAddsOne DEF PayoutsFollowFaults
  <2> QED BY <1>5, <2>4, <2>5 DEF PayEarningsError
<1>6. ASSUME NEW p \in Proc, NEW e \in Earning, SettleEarning(p, e) PROVE Quiet
  <2>1. /\ Held(p)' = Held(p) \ {e}
        /\ \A q \in Proc \ {p} : Held(q)' = Held(q)
    BY <1>6, ReleaseHeld DEF SettleEarning
  <2>2. \A q \in Proc : pc[q] = "settle" => pc'[q] = "settle" \/ Held(q)' = {}
    BY <1>6 DEF SettleEarning, Release, Return, Held, TypeOK
  <2>3. \A x \in Earning : earnStatus[x] \in {"processing", "paid"}
                           => earnStatus'[x] \in {"processing", "paid"}
    BY <1>6 DEF SettleEarning, TypeOK
  <2>4. UNCHANGED <<accepted, faults>>
    BY <1>6 DEF SettleEarning
  <2> QED BY <1>1, <2>1, <2>2, <2>3, <2>4, LettingGo DEF Closed
<1>7. ASSUME NEW p \in Proc, NEW e \in Earning, FailEarning(p, e) PROVE Quiet
  <2>1. /\ Held(p)' = Held(p) \ {e}
        /\ \A q \in Proc \ {p} : Held(q)' = Held(q)
    BY <1>7, ReleaseHeld DEF FailEarning
  <2>2. \A q \in Proc : pc[q] = "settle" => pc'[q] = "settle" \/ Held(q)' = {}
    BY <1>7 DEF FailEarning, Release, Return, Held, TypeOK
  <2>3. ~Closed(e)
    BY <1>7, OpenIsNotClosed DEF FailEarning, Held
  <2>4. \A x \in Earning \ {e} : earnStatus'[x] = earnStatus[x]
    BY <1>7 DEF FailEarning, BestEffort, TypeOK
  <2>5. UNCHANGED accepted /\ faults <= faults'
    BY <1>1, <1>7 DEF FailEarning, BestEffort, Fault
  <2> QED BY <2>1, <2>2, <2>3, <2>4, <2>5, LettingGo DEF Closed
<1>8. ASSUME NEW p \in Proc, WithdrawalStep(p) PROVE Quiet
  <2>1. /\ UNCHANGED <<earnStatus, accepted>> /\ faults <= faults'
        /\ pc[p] \in WithdrawalPC
    BY <1>1, <1>8 DEF WithdrawalStep, CreateWithdrawalRow, ReserveBalance, PayWithdrawal,
         AnswerWithdrawal,
         PayWithdrawalError, UpdateWithdrawalStatus, PostLedger, MockPaid, MockPost,
         FailWithdrawalRow, ReverseReservation, BestEffort, Fault
  <2>2. /\ pc'[p] \notin EarningPC
        /\ \A q \in Proc \ {p} : pc'[q] = pc[q] /\ job'[q] = job[q]
    BY <1>8 DEF WithdrawalStep, CreateWithdrawalRow, ReserveBalance, PayWithdrawal,
         AnswerWithdrawal,
         PayWithdrawalError, UpdateWithdrawalStatus, PostLedger, MockPaid, MockPost,
         FailWithdrawalRow, ReverseReservation, Goto, Return, TypeOK
  <2> QED BY <2>1, <2>2 DEF Closed, Held
<1>9. ASSUME NEW p \in Proc, HandlerStops(p) PROVE Quiet
  BY <1>1, <1>9 DEF HandlerStops, Return, Fault, TypeOK, Closed, Held
<1>10. ASSUME NEW p \in Proc, NEW e \in Earning, StartSinglePayout(p, e) PROVE Quiet
  BY <1>1, <1>10 DEF StartSinglePayout, StartPayout, TypeOK, Closed, Held
<1>11. ASSUME NEW p \in Proc, NEW S \in SUBSET Earning, StartBatchPayout(p, S) PROVE Quiet
  BY <1>1, <1>11 DEF StartBatchPayout, StartPayout, TypeOK, Closed, Held
<1>12. ASSUME NEW p \in Proc, NEW w \in Withdrawal, NEW a \in Amount, CheckBalance(p, w, a)
       PROVE  Quiet
  BY <1>1, <1>12 DEF CheckBalance, TypeOK, Closed, Held
<1>13. ASSUME NEW m \in Month, NEW New \in SUBSET Earning, NEW amt \in [New -> Amount],
              SyncRevenuePool(m, New, amt)
       PROVE  Quiet
  BY <1>1, <1>13 DEF SyncRevenuePool, TypeOK, Closed, Held
<1>14. CASE UNCHANGED vars
  <2>1. Quiet
    BY <1>1, <1>14 DEF vars, Closed, Held
  <2> QED BY <1>0, <2>1
<1> HIDE DEF Quiet
<1> QED
  BY <1>0, <1>2, <1>3, <1>4, <1>5, <1>6, <1>7, <1>8, <1>9, <1>10, <1>11, <1>12, <1>13, <1>14
     DEF Next, PayoutStep

\* PayOS takes on at most one payout of an earning more than calls have failed: it takes a
\* lost answer of PayOS each time to pay again, whatever runs at the same time
\* and however often the month is recalculated.  Without failures
\* payoutCreatorEarning and BatchPayoutCreatorEarnings pay once.
THEOREM RepeatsTakeFaults ==
  Spec => [](/\ \A e \in Earning : Cardinality(TakenOn(e)) <= faults + 1
             /\ faults = 0 => DisbursedOnce)
<1>1. Init => PayoutsFollowFaults
  <2> SUFFICES ASSUME Init, NEW e \in Earning
               PROVE  IsFiniteSet(TakenOn(e)) /\ Cardinality(TakenOn(e)) = 0 /\ faults = 0
    BY DEF PayoutsFollowFaults
  <2>1. TakenOn(e) = {} /\ faults = 0
    BY DEF Init, TakenOn
  <2> QED BY <2>1, FS_EmptySet
<1>2. TypeOK /\ PayoutsFollowFaults /\ faults = 0 => DisbursedOnce
  <2> SUFFICES ASSUME TypeOK, PayoutsFollowFaults, faults = 0,
                      NEW d1 \in accepted, NEW d2 \in accepted, d1.earning = d2.earning
               PROVE  d1 = d2
    BY DEF DisbursedOnce
  <2>1. PICK e \in Earning : d1.earning = e /\ d2.earning = e
    BY DEF TypeOK
  <2>2. IsFiniteSet(TakenOn(e)) /\ Cardinality(TakenOn(e)) <= 1
    BY DEF PayoutsFollowFaults
  <2>3. {d1, d2} \subseteq TakenOn(e)
    BY <2>1 DEF TakenOn
  <2>4. Cardinality({d1, d2}) <= Cardinality(TakenOn(e))
    BY <2>2, <2>3, FS_Subset
  <2>5. CASE d1 # d2
    <3>1. Cardinality({d1, d2}) = 2
      <4>1. {d1, d2} = {d1} \cup {d2}
        OBVIOUS
      <4>2. IsFiniteSet({d1}) /\ Cardinality({d1}) = 1 /\ d2 \notin {d1}
        BY <2>5, FS_Singleton
      <4>3. Cardinality({d1} \cup {d2}) = Cardinality({d1}) + 1
        BY <4>2, FS_AddElement, Zenon
      <4> QED BY <4>1, <4>2, <4>3
    <3>2. Cardinality(TakenOn(e)) \in Nat
      BY <2>2, FS_CardinalityType
    <3> QED BY <2>2, <2>4, <3>1, <3>2
  <2> QED BY <2>5
<1>3. PayoutsFollowFaults => \A e \in Earning : Cardinality(TakenOn(e)) <= faults + 1
  BY DEF PayoutsFollowFaults
<1> QED BY <1>1, <1>2, <1>3, InitTypeOK, StepTypeOK, StepPayoutsFollowFaults, ClaimsExclusive,
           TypeCorrect, PTL DEF Spec

-----------------------------------------------------------------------------
(* The withdrawals' door.  The row and the ledger are written by separate   *)
(* calls, so the invariant says what both hold before each call.            *)

\* A row is written by the one handler that inserted it.
RowHasOneWriter ==
  \A p, q \in Proc : pc[p] \in WithdrawalPC /\ pc[q] \in WithdrawalPC
                     /\ job[p].w = job[q].w => p = q

\* What the handler of withdrawal w finds before its call at c, answer being
\* the status it will write.
Before(c, w, answer) ==
  LET Row(status, ledger) == wStatus[w] = status /\ wLedger[w] = ledger
  IN  /\ c = "createRow" => Row("none", "none")
      /\ c = "reserve" => Row("processing", "none")
      /\ c \in {"payWithdrawal", "mockPaid", "updateStatus", "failRow"} =>
           Row("processing", "reserved")
      /\ c \in {"updateStatus", "postLedger"} =>
           answer # "none" /\ (answer = "failed" => w \notin taken)
      /\ c = "postLedger" => Row(answer, "reserved")
      /\ c = "mockPost" => Row("paid", "reserved")
      /\ c = "reverse" => wStatus[w] \in {"processing", "failed"} /\ wLedger[w] = "reserved"
      /\ c \in {"reserve", "payWithdrawal", "mockPaid"} => w \notin taken
      /\ c \in {"failRow", "reverse"} => w \notin taken \ lost

\* What holds of withdrawal w, its handler running, gone or dead.
LedgerFollows(w) ==
  /\ wStatus[w] = "none" => wLedger[w] = "none" /\ w \notin taken
  /\ wStatus[w] = "failed" => wLedger[w] # "posted"
  /\ w \in taken \ lost => Counted(w)

WithdrawalInv ==
  /\ RowHasOneWriter
  /\ \A p \in Proc : pc[p] \in WithdrawalPC => Before(pc[p], job[p].w, job[p].answer)
  /\ \A w \in Withdrawal : LedgerFollows(w)

\* Each step keeps the row, the ledger and the handlers in step.
LEMMA StepWithdrawalInv == TypeOK /\ WithdrawalInv /\ [Next]_vars => WithdrawalInv'
<1> SUFFICES ASSUME TypeOK, WithdrawalInv, [Next]_vars PROVE WithdrawalInv'
  OBVIOUS
<1> USE DEF TypeOK, WithdrawalInv, RowHasOneWriter, Before, LedgerFollows, Counted, Withdrawn,
            Pending, WithdrawalJob
<1>1. ASSUME NEW p \in Proc, ValidatePayout(p) PROVE WithdrawalInv'
  BY <1>1 DEF ValidatePayout, Goto, Return
<1>2. ASSUME NEW p \in Proc, ClaimEarning(p) PROVE WithdrawalInv'
  <2>1. \A q \in Proc \ {p} : pc'[q] = pc[q] /\ job'[q] = job[q]
    BY <1>2 DEF ClaimEarning, Return
  <2>2. pc'[p] \notin WithdrawalPC
    BY <1>2 DEF ClaimEarning, Return
  <2> QED BY <1>2, <2>1, <2>2 DEF ClaimEarning
<1>3. ASSUME NEW p \in Proc, PayEarnings(p) PROVE WithdrawalInv'
  BY <1>3 DEF PayEarnings, Goto, Accept
<1>4. ASSUME NEW p \in Proc, PayEarningsError(p) PROVE WithdrawalInv'
  BY <1>4 DEF PayEarningsError, Goto, Accept
<1>5. ASSUME NEW p \in Proc, NEW e \in Earning, SettleEarning(p, e) PROVE WithdrawalInv'
  BY <1>5 DEF SettleEarning, Release, Return
<1>6. ASSUME NEW p \in Proc, NEW e \in Earning, FailEarning(p, e) PROVE WithdrawalInv'
  BY <1>6 DEF FailEarning, Release, Return, BestEffort
<1>7. ASSUME NEW p \in Proc, CreateWithdrawalRow(p) PROVE WithdrawalInv'
  BY <1>7 DEF CreateWithdrawalRow, Goto
<1>8. ASSUME NEW p \in Proc, ReserveBalance(p) PROVE WithdrawalInv'
  BY <1>8 DEF ReserveBalance, Goto
<1>9. ASSUME NEW p \in Proc, PayWithdrawal(p) PROVE WithdrawalInv'
  BY <1>9 DEF PayWithdrawal, AnswerWithdrawal
<1>10. ASSUME NEW p \in Proc, PayWithdrawalError(p) PROVE WithdrawalInv'
  BY <1>10 DEF PayWithdrawalError, Goto
<1>11. ASSUME NEW p \in Proc, UpdateWithdrawalStatus(p) PROVE WithdrawalInv'
  BY <1>11 DEF UpdateWithdrawalStatus, Goto
<1>12. ASSUME NEW p \in Proc, PostLedger(p) PROVE WithdrawalInv'
  BY <1>12 DEF PostLedger, Return
<1>13. ASSUME NEW p \in Proc, MockPaid(p) PROVE WithdrawalInv'
  BY <1>13 DEF MockPaid, Goto
<1>14. ASSUME NEW p \in Proc, MockPost(p) PROVE WithdrawalInv'
  BY <1>14 DEF MockPost, Return, BestEffort
<1>15. ASSUME NEW p \in Proc, FailWithdrawalRow(p) PROVE WithdrawalInv'
  BY <1>15 DEF FailWithdrawalRow, Goto, BestEffort
<1>16. ASSUME NEW p \in Proc, ReverseReservation(p) PROVE WithdrawalInv'
  BY <1>16 DEF ReverseReservation, Return, BestEffort
<1>17. ASSUME NEW p \in Proc, HandlerStops(p) PROVE WithdrawalInv'
  BY <1>17 DEF HandlerStops, Return
<1>18. ASSUME NEW p \in Proc, NEW e \in Earning, StartSinglePayout(p, e) PROVE WithdrawalInv'
  BY <1>18 DEF StartSinglePayout, StartPayout
<1>19. ASSUME NEW p \in Proc, NEW S \in SUBSET Earning, StartBatchPayout(p, S) PROVE WithdrawalInv'
  BY <1>19 DEF StartBatchPayout, StartPayout
<1>20. ASSUME NEW p \in Proc, NEW w \in Withdrawal, NEW a \in Amount, CheckBalance(p, w, a) PROVE WithdrawalInv'
  BY <1>20 DEF CheckBalance
<1>21. ASSUME NEW m \in Month, NEW New \in SUBSET Earning, NEW amt \in [New -> Amount], SyncRevenuePool(m, New, amt) PROVE WithdrawalInv'
  BY <1>21 DEF SyncRevenuePool
<1>22. CASE UNCHANGED vars
  BY <1>22 DEF vars
<1> QED
  BY <1>1, <1>2, <1>3, <1>4, <1>5, <1>6, <1>7, <1>8, <1>9, <1>10, <1>11, <1>12, <1>13, <1>14, <1>15, <1>16, <1>17, <1>18, <1>19, <1>20, <1>21, <1>22
     DEF Next, PayoutStep, WithdrawalStep

\* Row, ledger and handlers stay in step in every behaviour.
LEMMA WithdrawalsInStep == Spec => [](TypeOK /\ WithdrawalInv)
<1>1. Init => WithdrawalInv
  BY DEF Init, WithdrawalInv, RowHasOneWriter, LedgerFollows
<1> QED BY <1>1, InitTypeOK, StepTypeOK, StepWithdrawalInv, PTL DEF Spec

\* A withdrawal PayOS has taken on counts against the creator's balance,
\* whichever call of CreateCreatorWithdrawal fails.
THEOREM TransfersDebited == Spec => []TransferIsDebited
<1>1. TypeOK /\ WithdrawalInv => TransferIsDebited
  BY DEF TypeOK, WithdrawalInv, LedgerFollows, TransferIsDebited
<1> QED BY <1>1, WithdrawalsInStep, PTL

\* A failed withdrawal is given back although its ledger row may stay reserved.
THEOREM FailuresRefunded == Spec => []FailedIsRefunded
<1>1. TypeOK /\ WithdrawalInv => FailedIsRefunded
  BY DEF TypeOK, WithdrawalInv, LedgerFollows, FailedIsRefunded, Counted, Withdrawn, Pending
<1> QED BY <1>1, WithdrawalsInStep, PTL
=============================================================================
