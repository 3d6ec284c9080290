---------------------------- MODULE MCAccounts ----------------------------
(***************************************************************************)
(* Two logins, two requests and three mails of one user, in every order.    *)
(***************************************************************************)
EXTENDS Accounts, TLC

Symmetry == Permutations(Sessions) \cup Permutations(Tokens) \cup Permutations(Requests)
=============================================================================
