----------------------------- MODULE PlusGrant -----------------------------
(***************************************************************************)
(* What billing-service promises about a Plus checkout, without rows,      *)
(* handlers, webhooks or retries: an order is paid at most once, a         *)
(* subscription period is granted only for a paid order, a grant may lapse *)
(* and be renewed, and a user is marked as Plus only once one of his       *)
(* orders has been paid for.                                               *)
(***************************************************************************)
CONSTANTS
  User,      \* accounts of auth-service
  Order,     \* checkouts, one per PayOS order code
  Owner      \* Owner[o] is the account that started checkout o

VARIABLES
  paid,      \* orders the payer has paid
  granted,   \* orders whose subscription is active
  plus       \* accounts auth-service reports as Plus

grantVars == <<paid, granted, plus>>

GrantInit ==
  /\ paid = {}
  /\ granted = {}
  /\ plus = {}

Pay(o) ==
  /\ o \notin paid
  /\ paid' = paid \cup {o}
  /\ UNCHANGED <<granted, plus>>

Grant(o) ==
  /\ o \in paid
  /\ granted' = granted \cup {o}
  /\ UNCHANGED <<paid, plus>>

Lapse ==
  /\ granted' \in SUBSET granted
  /\ UNCHANGED <<paid, plus>>

MarkPlus(o) ==
  /\ o \in paid
  /\ plus' = plus \cup {Owner[o]}
  /\ UNCHANGED <<paid, granted>>

GrantNext ==
  \/ \E o \in Order : Pay(o) \/ Grant(o) \/ MarkPlus(o)
  \/ Lapse

GrantSpec == GrantInit /\ [][GrantNext]_grantVars
=============================================================================
