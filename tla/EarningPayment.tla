-------------------------- MODULE EarningPayment --------------------------
(***************************************************************************)
(* What billing-service promises about the payment of an earning, without  *)
(* rows, requests, batches, keys or recalculations: it has to be claimed   *)
(* before a payout is ordered for it, one call orders it at most once, it  *)
(* is recorded as paid only after an order, and then it is never claimed   *)
(* again.  A claim may be given up, order or not: an answer that was lost  *)
(* cannot be told from a refusal.  Nothing is promised about when the      *)
(* money of an order leaves: paid means that PayOS has taken it on.        *)
(***************************************************************************)
CONSTANT Earning     \* earnings of creators

VARIABLES
  claimed,   \* earnings a payout is under way for
  settled,   \* earnings recorded as paid
  ordered    \* payouts PayOS took on, records with at least the field earning

paymentVars == <<claimed, settled, ordered>>

PaymentInit ==
  /\ claimed = {}
  /\ settled = {}
  /\ ordered = {}

Claim(e) ==
  /\ e \notin claimed \cup settled
  /\ claimed' = claimed \cup {e}
  /\ UNCHANGED <<settled, ordered>>

Order ==
  /\ ordered \subseteq ordered'
  /\ \A d \in ordered' \ ordered :
       /\ d.earning \in claimed
       /\ \A x \in ordered' \ ordered : x.earning = d.earning => x = d
  /\ UNCHANGED <<claimed, settled>>

GiveUp(e) ==
  /\ claimed' = claimed \ {e}
  /\ UNCHANGED <<settled, ordered>>

Settle(e) ==
  /\ e \in claimed
  /\ \E d \in ordered : d.earning = e
  /\ claimed' = claimed \ {e}
  /\ settled' = settled \cup {e}
  /\ UNCHANGED ordered

PaymentNext ==
  \/ \E e \in Earning : Claim(e) \/ GiveUp(e) \/ Settle(e)
  \/ Order

PaymentSpec == PaymentInit /\ [][PaymentNext]_paymentVars
=============================================================================
