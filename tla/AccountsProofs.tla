---------------------------- MODULE AccountsProofs ----------------------------
(***************************************************************************)
(* What holds of accounts for any number of users, sessions, tokens and     *)
(* requests.  Eras: whoever holds a password, or has proved one, holds one   *)
(* of the current era or is marked late; so does a session, as far as the   *)
(* resets have cleared.  Tokens: unless it was shared, one request at most   *)
(* is past MarkUsed with a token, and then nobody else gets it in hand.      *)
(***************************************************************************)
EXTENDS Accounts, TLAPS

\* The types of the variables alone, without BelongOK.
Rows ==
  /\ account \in [Users -> Account]
  /\ password \in [Users -> Password]
  /\ token \in [Tokens -> Row]
  /\ session \in [Sessions -> Session]
  /\ request \in [Requests -> Request]
  /\ resets \in [Users -> Nat]
  /\ cleared \in [Users -> Nat]
  /\ setBy \in [Tokens -> Nat]
  /\ shared \subseteq Tokens
  /\ faults \in Nat

LEMMA TypeParts == TypeOK <=> Rows /\ BelongOK
  BY DEF TypeOK, Rows

\* A row is written once.
LEMMA TokenWritten ==
  ASSUME Rows, NEW t \in Tokens, NEW u \in Users, NEW type \in Type, CreateVerificationToken(t, u, type)
  PROVE  /\ token' \in [Tokens -> Row]
         /\ token'[t].type = type /\ token'[t].user = u
         /\ \A x \in Tokens \ {t} : token'[x] = token[x]
         /\ token[t].type = "none"
  BY DEF Rows, CreateVerificationToken, Row, NoRow, Type

LEMMA RowsStep ==
  ASSUME Rows, BelongOK, Next
  PROVE  Rows'
<1> USE DEF Rows
<1>0. /\ \A r \in Requests : request[r].at \in Step /\ request[r].user \in Users \cup {NoUser}
                             /\ request[r].token \in Tokens \cup {NoToken}
                             /\ request[r].era \in Nat /\ request[r].late \in BOOLEAN
      /\ \A s \in Sessions : session[s].at \in {"none", "read", "live", "over"}
                             /\ session[s].user \in Users \cup {NoUser}
                             /\ session[s].era \in Nat /\ session[s].late \in BOOLEAN
      /\ \A u \in Users : password[u].era \in Nat /\ password[u].late \in BOOLEAN
  BY DEF Request, Session, Password
<1>a. \A f : Fault => faults' \in Nat
  BY DEF Fault
<1>1. ASSUME NEW u \in Users, NEW t \in Tokens, Register(u, t) PROVE Rows'
  <2>1. account' \in [Users -> Account]
    BY <1>1 DEF Register, Account
  <2>2. token' \in [Tokens -> Row]
    BY <1>1, TokenWritten DEF Register, Type
  <2>3. faults' \in Nat
    BY <1>1, <1>a DEF Register
  <2> QED BY <1>1, <2>1, <2>2, <2>3 DEF Register
<1>2. ASSUME NEW u \in Users, NEW t \in Tokens, ResendEmailVerification(u, t) \/ ForgotPassword(u, t) PROVE Rows'
  <2>1. token' \in [Tokens -> Row]
    BY <1>2, TokenWritten DEF ResendEmailVerification, ForgotPassword, Type
  <2> QED BY <1>2, <2>1 DEF ResendEmailVerification, ForgotPassword
<1>3. ASSUME NEW u \in Users, NEW banned \in BOOLEAN, SetBanned(u, banned) PROVE Rows'
  <2>1. account' \in [Users -> Account]
    BY <1>3 DEF SetBanned, Account
  <2> QED BY <1>3, <2>1 DEF SetBanned
<1>4. ASSUME NEW u \in Users, NEW s \in Sessions, Login(s, u) PROVE Rows'
  BY <1>4, <1>0 DEF Login, Session
<1>5. ASSUME NEW u \in Users, NEW r \in Requests, ProvePassword(r, u) PROVE Rows'
  BY <1>5, <1>0 DEF ProvePassword, Request, Step
<1>6. ASSUME NEW t \in Tokens, TokenExpires(t) PROVE Rows'
  <2>1. token' \in [Tokens -> Row]
    BY <1>6 DEF TokenExpires, Row
  <2> QED BY <1>6, <2>1 DEF TokenExpires
<1>7. ASSUME NEW t \in Tokens, NEW r \in Requests, GetByHash(r, t) PROVE Rows'
  <2>1. token[t].user \in Users \cup {NoUser}
    BY DEF Row
  <2> QED BY <1>7, <2>1 DEF GetByHash, Request, Step
<1>8. ASSUME NEW s \in Sessions, CreateRefreshToken(s) PROVE Rows'
  <2>0. [session[s] EXCEPT !.at = "live"] \in Session /\ NoSession \in Session
    BY DEF Session, NoSession
  <2>1. session' \in [Sessions -> Session]
    BY <1>8, <2>0 DEF CreateRefreshToken
  <2>2. faults' \in Nat
    BY <1>8, <1>a DEF CreateRefreshToken
  <2> QED BY <1>8, <2>1, <2>2 DEF CreateRefreshToken
<1>9. \A s \in Sessions : Over(s) \in Session /\ Revoked(s) \in Session
  BY <1>0 DEF Over, Revoked, Session, NoSession
<1>10. ASSUME NEW s \in Sessions, RevokeByHash(s) PROVE Rows'
  BY <1>9, <1>10 DEF RevokeByHash
<1>11. ASSUME NEW r \in Requests, MarkUsed(r) PROVE Rows'
  <2>1. token' \in [Tokens -> Row] /\ shared' \subseteq Tokens
    BY <1>11 DEF MarkUsed, Row, BelongOK, HasToken
  <2>2. request' \in [Requests -> Request]
    BY <1>11 DEF MarkUsed, Request, Step
  <2> QED BY <1>11, <2>1, <2>2 DEF MarkUsed
<1>12. NoRequest \in Request
  BY DEF NoRequest, Request, Step
<1>13. ASSUME NEW r \in Requests, MarkEmailVerified(r) PROVE Rows'
  <2>0. request[r].user \in Users
    BY <1>13 DEF MarkEmailVerified, BelongOK, HasAccount
  <2>1. account' \in [Users -> Account]
    <3>1. [account[request[r].user] EXCEPT !.verified = TRUE] \in Account
      BY <2>0 DEF Account
    <3> QED BY <1>13, <2>0, <3>1 DEF MarkEmailVerified
  <2> QED BY <1>12, <1>13, <2>1 DEF MarkEmailVerified
<1>14. ASSUME NEW r \in Requests, UpdatePassword(r) PROVE Rows'
  <2>1. request[r].user \in Users /\ request[r].token \in Tokens
    BY <1>14 DEF UpdatePassword, BelongOK, HasAccount, HasToken
  <2>2. /\ resets[request[r].user] + 1 \in Nat
        /\ setBy[request[r].token] + 1 \in Nat
    BY <2>1
  <2>2a. resets' \in [Users -> Nat] /\ setBy' \in [Tokens -> Nat]
    BY <1>14, <2>1, <2>2 DEF UpdatePassword
  <2>2b. password' \in [Users -> Password]
    BY <1>14, <2>1, <2>2 DEF UpdatePassword, Password
  <2>3. \A q \in Requests, n \in Nat : /\ [request[q] EXCEPT !.at = "updated", !.era = n] \in Request
                                       /\ [request[q] EXCEPT !.late = TRUE] \in Request
    BY DEF Request, Step
  <2>4. request' \in [Requests -> Request]
    BY <1>14, <2>2, <2>3 DEF UpdatePassword
  <2> QED BY <1>14, <2>2a, <2>2b, <2>4 DEF UpdatePassword
<1>15. ASSUME NEW r \in Requests, RevokeAllForUser(r) PROVE Rows'
  <2>1. request[r].user \in Users
    BY <1>15 DEF RevokeAllForUser, BelongOK, HasAccount
  <2>2. cleared' \in [Users -> Nat]
    BY <1>15, <1>0, <2>1 DEF RevokeAllForUser
  <2>3. session' \in [Sessions -> Session]
    BY <1>15, <1>9 DEF RevokeAllForUser
  <2> QED BY <1>12, <1>15, <2>2, <2>3 DEF RevokeAllForUser
<1>16. ASSUME NEW r \in Requests, ChangePassword(r) PROVE Rows'
  <2>1. password' \in [Users -> Password]
    BY <1>0, <1>16 DEF ChangePassword, Password
  <2> QED BY <1>12, <1>16, <2>1 DEF ChangePassword
<1>17. ASSUME NEW r \in Requests, RequestDies(r) PROVE Rows'
  BY <1>12, <1>17, <1>a DEF RequestDies
<1> QED BY <1>1, <1>2, <1>3, <1>4, <1>5, <1>6, <1>7, <1>8, <1>10, <1>11, <1>13, <1>14, <1>15, <1>16, <1>17 DEF Next

LEMMA BelongStep ==
  ASSUME Rows, BelongOK, Next
  PROVE  BelongOK'
<1> USE DEF Rows, BelongOK, HasAccount, HasToken
<1>1. ASSUME NEW u \in Users, NEW t \in Tokens, Register(u, t) PROVE BelongOK'
  <2>1. /\ \A v \in Users : account[v].there => account'[v].there
        /\ account'[u].there
    BY <1>1 DEF Register, Account
  <2>2. CASE CreateVerificationToken(t, u, "email")
    BY <1>1, <2>1, <2>2, TokenWritten DEF Register, Type
  <2>3. CASE UNCHANGED token
    BY <1>1, <2>1, <2>3 DEF Register
  <2> QED BY <1>1, <2>2, <2>3 DEF Register
<1>2. ASSUME NEW u \in Users, NEW t \in Tokens, ResendEmailVerification(u, t) \/ ForgotPassword(u, t) PROVE BelongOK'
  BY <1>2, TokenWritten DEF ResendEmailVerification, ForgotPassword, Type
<1>3. ASSUME NEW u \in Users, NEW banned \in BOOLEAN, SetBanned(u, banned) PROVE BelongOK'
  <2>1. \A v \in Users : account[v].there => account'[v].there
    BY <1>3 DEF SetBanned, Account
  <2> QED BY <1>3, <2>1 DEF SetBanned
<1>4. ASSUME NEW u \in Users, NEW s \in Sessions, Login(s, u) PROVE BelongOK'
  BY <1>4 DEF Login
<1>5. ASSUME NEW u \in Users, NEW r \in Requests, ProvePassword(r, u) PROVE BelongOK'
  BY <1>5 DEF ProvePassword
<1>6. ASSUME NEW t \in Tokens, TokenExpires(t) PROVE BelongOK'
  <2>1. \A x \in Tokens : token'[x].type = token[x].type /\ token'[x].user = token[x].user
    BY <1>6 DEF TokenExpires, Row
  <2> QED BY <1>6, <2>1 DEF TokenExpires
<1>7. ASSUME NEW t \in Tokens, NEW r \in Requests, GetByHash(r, t) PROVE BelongOK'
  <2>1. /\ token[t].type \in Type /\ HasAccount(token[t].user) /\ UNCHANGED <<account, token, session>>
        /\ request'[r].at \in {"verify", "reset"} /\ request'[r].token = t /\ request'[r].user = token[t].user
        /\ request'[r].at = "verify" => token[t].type = "email"
        /\ request'[r].at = "reset" => token[t].type = "reset"
        /\ \A q \in Requests \ {r} : request'[q] = request[q]
    BY <1>7 DEF GetByHash, Usable, Type
  <2> QED BY <2>1
<1>8. ASSUME NEW s \in Sessions, CreateRefreshToken(s) PROVE BelongOK'
  <2>1. ASSUME NEW x \in Sessions, session'[x].at # "none" PROVE session[x].at # "none" /\ session'[x].user = session[x].user
    <3>1. CASE session' = [session EXCEPT ![s].at = "live"]
      <4>1. session'[s].user = session[s].user /\ session[s].at = "read"
        BY <3>1, <1>8 DEF CreateRefreshToken, Session
      <4> QED BY <2>1, <3>1, <4>1
    <3>2. CASE session' = [session EXCEPT ![s] = NoSession]
      BY <2>1, <3>2 DEF NoSession
    <3> QED BY <1>8, <3>1, <3>2 DEF CreateRefreshToken
  <2> QED BY <1>8, <2>1 DEF CreateRefreshToken
<1>9. ASSUME NEW s \in Sessions, RevokeByHash(s) PROVE BelongOK'
  <2>1. \A x \in Sessions : session'[x].at # "none" => session[x].at # "none" /\ session'[x].user = session[x].user
    BY <1>9 DEF RevokeByHash, Over, NoSession, Session
  <2> QED BY <1>9, <2>1 DEF RevokeByHash
<1>10. ASSUME NEW r \in Requests, MarkUsed(r) PROVE BelongOK'
  <2>1. \A x \in Tokens : token'[x].type = token[x].type /\ token'[x].user = token[x].user
    BY <1>10 DEF MarkUsed, Row
  <2>2. /\ \A q \in Requests \ {r} : request'[q] = request[q]
        /\ request'[r].token = request[r].token /\ request'[r].user = request[r].user
        /\ \/ request[r].at = "verify" /\ request'[r].at = "marked"
           \/ request[r].at = "reset" /\ request'[r].at = "resetting"
    BY <1>10 DEF MarkUsed, Request
  <2> QED BY <1>10, <2>1, <2>2 DEF MarkUsed
<1>11. ASSUME NEW r \in Requests, MarkEmailVerified(r) PROVE BelongOK'
  <2>1. \A v \in Users : account[v].there => account'[v].there
    BY <1>11 DEF MarkEmailVerified, Account
  <2> QED BY <1>11, <2>1 DEF MarkEmailVerified, NoRequest
<1>12. ASSUME NEW r \in Requests, UpdatePassword(r) PROVE BelongOK'
  <2>1. /\ \A q \in Requests : request'[q].token = request[q].token /\ request'[q].user = request[q].user
        /\ \A q \in Requests \ {r} : request'[q].at = request[q].at
        /\ request[r].at = "resetting" /\ request'[r].at = "updated"
    <3>1. \A q \in Requests : request[q] \in Request
      OBVIOUS
    <3>2. request'[r] = [request[r] EXCEPT !.at = "updated", !.era = resets[request[r].user] + 1]
      BY <1>12 DEF UpdatePassword
    <3>3. request[r].at = "resetting"
      BY <1>12 DEF UpdatePassword
    <3>4. ASSUME NEW q \in Requests \ {r}
          PROVE  /\ request'[q].token = request[q].token
                 /\ request'[q].user = request[q].user
                 /\ request'[q].at = request[q].at
      <4>1. request'[q] = [request[q] EXCEPT !.late = TRUE] \/ request'[q] = request[q]
        BY <1>12 DEF UpdatePassword
      <4> QED BY <3>1, <4>1 DEF Request
    <3>5. /\ request'[r].token = request[r].token /\ request'[r].user = request[r].user
          /\ request'[r].at = "updated"
      BY <3>1, <3>2 DEF Request
    <3> QED BY <3>3, <3>4, <3>5
  <2> QED BY <1>12, <2>1 DEF UpdatePassword
<1>13. ASSUME NEW r \in Requests, RevokeAllForUser(r) PROVE BelongOK'
  <2>1. \A x \in Sessions : session'[x].at # "none" => session[x].at # "none" /\ session'[x].user = session[x].user
    BY <1>13 DEF RevokeAllForUser, Revoked, Over, NoSession, Session
  <2> QED BY <1>13, <2>1 DEF RevokeAllForUser, NoRequest
<1>14. ASSUME NEW r \in Requests, ChangePassword(r) \/ RequestDies(r) PROVE BelongOK'
  BY <1>14 DEF ChangePassword, RequestDies, NoRequest
<1> QED BY <1>1, <1>2, <1>3, <1>4, <1>5, <1>6, <1>7, <1>8, <1>9, <1>10, <1>11, <1>12, <1>13, <1>14 DEF Next

\* Types, and rows that belong to accounts.
THEOREM TypeCorrect == Spec => []TypeOK
<1>1. Init => TypeOK
  BY DEF Init, TypeOK, BelongOK, Account, Password, Row, Session, Request, Step,
     NoAccount, NoRow, NoSession, NoRequest
<1>2. TypeOK /\ [Next]_vars => TypeOK'
  <2>1. ASSUME TypeOK, Next PROVE TypeOK'
    BY <2>1, RowsStep, BelongStep, TypeParts DEF TypeOK, Rows
  <2>2. ASSUME TypeOK, UNCHANGED vars PROVE TypeOK'
    BY <2>2 DEF TypeOK, BelongOK, HasAccount, HasToken, vars
  <2> QED BY <2>1, <2>2
<1> QED BY <1>1, <1>2, PTL DEF Spec
-----------------------------------------------------------------------------
EraInv ==
  /\ \A u \in Users : cleared[u] =< resets[u] /\ (password[u].late \/ password[u].era = resets[u])
  /\ \A r \in Requests :
       /\ request[r].at = "change" => request[r].late \/ request[r].era = resets[request[r].user]
       /\ request[r].at = "updated" => request[r].era =< resets[request[r].user]
  /\ \A s \in Sessions :
       session[s].at \in {"read", "live"} => session[s].late \/ session[s].era >= cleared[session[s].user]

\* What an action leaves alone: the quantities that EraInv speaks of.
LEMMA EraStep ==
  ASSUME Rows, BelongOK, EraInv, Next
  PROVE  EraInv'
<1> USE DEF Rows, BelongOK, HasAccount, EraInv
<1>0. /\ \A r \in Requests : request[r].era \in Nat /\ request[r].late \in BOOLEAN
      /\ \A s \in Sessions : session[s].era \in Nat /\ session[s].late \in BOOLEAN
      /\ \A u \in Users : password[u].era \in Nat /\ password[u].late \in BOOLEAN
  BY DEF Request, Session, Password
<1>1. ASSUME UNCHANGED <<password, session, request, resets, cleared>> PROVE EraInv'
  BY <1>1
<1>2. ASSUME NEW u \in Users, NEW t \in Tokens,
             Register(u, t) \/ ResendEmailVerification(u, t) \/ ForgotPassword(u, t)
      PROVE EraInv'
  BY <1>2, <1>1 DEF Register, ResendEmailVerification, ForgotPassword
<1>3. ASSUME NEW u \in Users, NEW banned \in BOOLEAN, SetBanned(u, banned) PROVE EraInv'
  BY <1>3, <1>1 DEF SetBanned
<1>4. ASSUME NEW u \in Users, NEW s \in Sessions, Login(s, u) PROVE EraInv'
  <2>1. /\ session'[s].user = u /\ session'[s].era = password[u].era /\ session'[s].late = password[u].late
        /\ \A x \in Sessions \ {s} : session'[x] = session[x]
        /\ UNCHANGED <<password, request, resets, cleared>>
    BY <1>4 DEF Login
  <2> QED BY <2>1, <1>0
<1>5. ASSUME NEW u \in Users, NEW r \in Requests, ProvePassword(r, u) PROVE EraInv'
  <2>1. /\ request'[r].at = "change" /\ request'[r].user = u
        /\ request'[r].era = password[u].era /\ request'[r].late = password[u].late
        /\ \A q \in Requests \ {r} : request'[q] = request[q]
        /\ UNCHANGED <<password, session, resets, cleared>>
    BY <1>5 DEF ProvePassword
  <2> QED BY <2>1, <1>0
<1>6. ASSUME NEW t \in Tokens, TokenExpires(t) PROVE EraInv'
  BY <1>6, <1>1 DEF TokenExpires
<1>7. ASSUME NEW t \in Tokens, NEW r \in Requests, GetByHash(r, t) PROVE EraInv'
  BY <1>7 DEF GetByHash
<1>8. ASSUME NEW s \in Sessions, CreateRefreshToken(s) PROVE EraInv'
  <2>1. /\ \A x \in Sessions : \/ session'[x].at = "none"
                                \/ /\ session'[x].at \in {"read", "live"} => session[x].at \in {"read", "live"}
                                   /\ session'[x].user = session[x].user
                                   /\ session'[x].era = session[x].era /\ session'[x].late = session[x].late
        /\ UNCHANGED <<password, request, resets, cleared>>
    BY <1>8 DEF CreateRefreshToken, NoSession, Session
  <2> QED BY <2>1
<1>9. ASSUME NEW s \in Sessions, RevokeByHash(s) PROVE EraInv'
  BY <1>9 DEF RevokeByHash, Over, NoSession
<1>10. ASSUME NEW r \in Requests, MarkUsed(r) PROVE EraInv'
  <2>1. /\ request'[r].at \in {"marked", "resetting"}
        /\ \A q \in Requests \ {r} : request'[q] = request[q]
        /\ UNCHANGED <<password, session, resets, cleared>>
    BY <1>10 DEF MarkUsed, Request
  <2> QED BY <2>1
<1>11. ASSUME NEW r \in Requests, MarkEmailVerified(r) \/ RequestDies(r) PROVE EraInv'
  BY <1>11 DEF MarkEmailVerified, RequestDies, NoRequest
<1>12. ASSUME NEW r \in Requests, UpdatePassword(r) PROVE EraInv'
  <2> DEFINE u == request[r].user
  <2>1. u \in Users /\ resets[u] \in Nat
    BY <1>12 DEF UpdatePassword
  <2>2. /\ resets' = [resets EXCEPT ![u] = resets[u] + 1]
        /\ password' = [password EXCEPT ![u] = [era |-> resets[u] + 1, late |-> FALSE]]
        /\ UNCHANGED <<session, cleared>>
    BY <1>12 DEF UpdatePassword
  <2>3. /\ \A q \in Requests : request'[q].user = request[q].user
        /\ \A q \in Requests \ {r} : request'[q].at = request[q].at /\ request'[q].era = request[q].era
        /\ \A q \in Requests \ {r} : request[q].at = "change" /\ request[q].user = u => request'[q].late
        /\ \A q \in Requests \ {r} : request'[q].late = request[q].late \/ request'[q].late
        /\ request'[r].at = "updated" /\ request'[r].era = resets[u] + 1
    <3>1. \A q \in Requests :
            request'[q] = IF q = r THEN [request[q] EXCEPT !.at = "updated", !.era = resets[u] + 1]
                          ELSE IF request[q].at = "change" /\ request[q].user = u
                               THEN [request[q] EXCEPT !.late = TRUE] ELSE request[q]
      BY <1>12 DEF UpdatePassword
    <3>2. \A q \in Requests : request[q] \in Request
      OBVIOUS
    <3> QED BY <3>1, <3>2 DEF Request
  <2>4. \A v \in Users : cleared[v] =< resets'[v] /\ (password'[v].late \/ password'[v].era = resets'[v])
    BY <2>1, <2>2
  <2>5. \A q \in Requests : /\ request'[q].at = "change" => request'[q].late \/ request'[q].era = resets'[request'[q].user]
                            /\ request'[q].at = "updated" => request'[q].era =< resets'[request'[q].user]
    BY <2>1, <2>2, <2>3, <1>0
  <2>6. \A s \in Sessions : session'[s].at \in {"read", "live"} =>
                               session'[s].late \/ session'[s].era >= cleared'[session'[s].user]
    BY <2>2
  <2>7. \A v \in Users : cleared'[v] = cleared[v]
    BY <2>2
  <2>8. \A v \in Users : cleared'[v] =< resets'[v] /\ (password'[v].late \/ password'[v].era = resets'[v])
    BY <2>4, <2>7
  <2> QED BY <2>5, <2>6, <2>8
<1>13. ASSUME NEW r \in Requests, RevokeAllForUser(r) PROVE EraInv'
  <2> DEFINE u == request[r].user
  <2>1. u \in Users /\ request[r].era =< resets[u]
    BY <1>13 DEF RevokeAllForUser
  <2>2. /\ \A v \in Users : v # u => cleared'[v] = cleared[v]
        /\ cleared'[u] \in {request[r].era, cleared[u]}
        /\ request' = [request EXCEPT ![r] = NoRequest] /\ UNCHANGED <<password, resets>>
    BY <1>13, <2>1 DEF RevokeAllForUser
  <2>3. \A s \in Sessions : IF session[s].user = u
                               THEN session'[s].at \in {"read", "live"} => session'[s].late
                               ELSE session'[s] = session[s]
    BY <1>13 DEF RevokeAllForUser, Revoked, Over, NoSession, Session
  <2>4. \A s \in Sessions : session'[s].at \in {"read", "live"} =>
                               session'[s].late \/ session'[s].era >= cleared'[session'[s].user]
    BY <2>2, <2>3
  <2>5. \A v \in Users : cleared'[v] =< resets[v]
    BY <2>1, <2>2
  <2> QED BY <2>2, <2>4, <2>5 DEF NoRequest
<1>14. ASSUME NEW r \in Requests, ChangePassword(r) PROVE EraInv'
  <2>1. request[r].user \in Users /\ (request[r].late \/ request[r].era = resets[request[r].user])
    BY <1>14 DEF ChangePassword
  <2> QED BY <1>14, <2>1, <1>0 DEF ChangePassword, NoRequest
<1> QED BY <1>2, <1>3, <1>4, <1>5, <1>6, <1>7, <1>8, <1>9, <1>10, <1>11, <1>12, <1>13, <1>14 DEF Next

\* Whatever overlaps, a reset that has run to its end leaves no session of an
\* older password but those that were under way.
THEOREM ResetIsFinal == Spec => []ResetEndsSessions
<1>1. Init => EraInv
  BY DEF Init, EraInv, NoRequest, NoSession
<1>2. TypeOK /\ EraInv /\ [Next]_vars => EraInv'
  <2>1. ASSUME TypeOK, EraInv, Next PROVE EraInv'
    BY <2>1, EraStep, TypeParts
  <2>2. ASSUME EraInv, UNCHANGED vars PROVE EraInv'
    BY <2>2 DEF EraInv, vars
  <2> QED BY <2>1, <2>2
<1>3. EraInv => ResetEndsSessions
  BY DEF EraInv, ResetEndsSessions, Accepted
<1> QED BY <1>1, <1>2, <1>3, TypeCorrect, PTL DEF Spec
-----------------------------------------------------------------------------
\* A request between MarkUsed and UpdatePassword.
Marked(r, t) == request[r].at = "resetting" /\ request[r].token = t

TokenInv ==
  \A t \in Tokens :
    /\ setBy[t] > 0 => token[t].type = "reset" /\ token[t].used
    /\ \A r \in Requests : Marked(r, t) => token[t].used
    /\ t \notin shared =>
         /\ setBy[t] =< 1
         /\ token[t].used => \A r \in Requests : ~InHand(r, t)
         /\ \A r \in Requests : Marked(r, t) => setBy[t] = 0
         /\ \A r, q \in Requests : Marked(r, t) /\ Marked(q, t) => r = q

LEMMA TokenStep ==
  ASSUME Rows, BelongOK, TokenInv, Next
  PROVE  TokenInv'
<1> USE DEF Rows, TokenInv, Marked, InHand
<1>1. ASSUME UNCHANGED <<token, request, setBy, shared>> PROVE TokenInv'
  BY <1>1
\* A row that appears is not used; nothing else changes in the rows that are there.
<1>2. ASSUME NEW x \in Tokens, NEW u \in Users, NEW type \in Type, CreateVerificationToken(x, u, type),
             UNCHANGED <<request, setBy, shared>>
      PROVE  TokenInv'
  <2>1. token[x].type = "none" /\ ~token[x].used /\ ~token'[x].used
    BY <1>2 DEF CreateVerificationToken, NoRow
  <2>2. \A t \in Tokens \ {x} : token'[t] = token[t]
    BY <1>2, TokenWritten
  <2>3. setBy[x] = 0
    BY <2>1
  <2> QED BY <1>2, <2>1, <2>2, <2>3
<1>3. ASSUME NEW u \in Users, NEW x \in Tokens,
             Register(u, x) \/ ResendEmailVerification(u, x) \/ ForgotPassword(u, x)
      PROVE TokenInv'
  BY <1>1, <1>2, <1>3 DEF Register, ResendEmailVerification, ForgotPassword, Type
<1>4. ASSUME NEW x \in Tokens, TokenExpires(x) PROVE TokenInv'
  <2>1. /\ \A t \in Tokens : token'[t].type = token[t].type /\ token'[t].used = token[t].used
        /\ UNCHANGED <<request, setBy, shared>>
    BY <1>4 DEF TokenExpires, Row
  <2> QED BY <2>1
<1>5. ASSUME NEW q \in Requests, UNCHANGED <<token, setBy, shared>>,
             request'[q].at \notin {"verify", "reset", "resetting"},
             \A r \in Requests \ {q} : request'[r] = request[r]
      PROVE  TokenInv'
  BY <1>5
<1>6. ASSUME NEW u \in Users, NEW q \in Requests, ProvePassword(q, u) PROVE TokenInv'
  <2>1. request'[q].at = "change" /\ \A r \in Requests \ {q} : request'[r] = request[r]
    BY <1>6 DEF ProvePassword
  <2> QED BY <1>5, <1>6, <2>1 DEF ProvePassword
<1>7. ASSUME NEW x \in Tokens, NEW q \in Requests, GetByHash(q, x) PROVE TokenInv'
  <2>1. /\ ~token[x].used /\ UNCHANGED <<token, setBy, shared>>
        /\ request'[q].at \in {"verify", "reset"} /\ request'[q].token = x
        /\ \A r \in Requests \ {q} : request'[r] = request[r]
    BY <1>7 DEF GetByHash, Usable
  <2> QED BY <2>1
<1>8. ASSUME NEW q \in Requests, MarkUsed(q) PROVE TokenInv'
  <2>0. PICK x \in Tokens : x = request[q].token
    BY <1>8 DEF MarkUsed, BelongOK, HasToken
  <2>1. InHand(q, x)
    BY <1>8, <2>0 DEF MarkUsed
  <2>2. /\ token'[x].used /\ token'[x].type = token[x].type
        /\ \A t \in Tokens \ {x} : token'[t] = token[t]
    BY <1>8, <2>0 DEF MarkUsed, Row
  <2>3. /\ request'[q].at \in {"marked", "resetting"} /\ request'[q].token = x
        /\ \A r \in Requests \ {q} : request'[r] = request[r]
        /\ UNCHANGED setBy
    BY <1>8, <2>0 DEF MarkUsed, Request
  <2>4. /\ shared \subseteq shared'
        /\ x \notin shared' => \A r \in Requests \ {q} : ~InHand(r, x)
    BY <1>8, <2>0 DEF MarkUsed
  <2>5. x \notin shared => ~token[x].used /\ setBy[x] = 0 /\ \A r \in Requests : ~Marked(r, x)
    BY <2>1
  <2>6. ASSUME NEW t \in Tokens \ {x}
        PROVE  /\ setBy'[t] = setBy[t] /\ token'[t] = token[t] /\ (t \in shared => t \in shared')
               /\ \A r \in Requests : /\ Marked(r, t)' <=> Marked(r, t)
                                      /\ InHand(r, t)' => InHand(r, t)
    BY <2>1, <2>2, <2>3, <2>4
  <2>7. \A r \in Requests : Marked(r, x)' => r = q \/ Marked(r, x)
    BY <2>3
  <2>8. x \notin shared' => \A r \in Requests : ~InHand(r, x)'
    BY <2>3, <2>4
  <2>9. setBy[x] > 0 => token[x].type = "reset"
    BY <2>1
  <2> HIDE DEF Marked, InHand
  <2> SUFFICES ASSUME NEW t \in Tokens
               PROVE  /\ setBy'[t] > 0 => token'[t].type = "reset" /\ token'[t].used
                      /\ \A r \in Requests : Marked(r, t)' => token'[t].used
                      /\ t \notin shared' =>
                           /\ setBy'[t] =< 1
                           /\ token'[t].used => \A r \in Requests : ~InHand(r, t)'
                           /\ \A r \in Requests : Marked(r, t)' => setBy'[t] = 0
                           /\ \A r, p \in Requests : Marked(r, t)' /\ Marked(p, t)' => r = p
    OBVIOUS
  <2>10. CASE t = x
    <3>1. x \notin shared' => \A r \in Requests : Marked(r, x)' => r = q
      BY <2>4, <2>5, <2>7
    <3>2. (setBy'[x] > 0 => token'[x].type = "reset") /\ token'[x].used
      BY <2>2, <2>3, <2>9
    <3>3. x \notin shared' => setBy'[x] = 0
      BY <2>3, <2>4, <2>5
    <3>4. x \notin shared' => \A r \in Requests : ~InHand(r, x)'
      BY <2>8
    <3> QED BY <2>10, <3>1, <3>2, <3>3, <3>4
  <2>11. CASE t # x
    <3>1. /\ setBy'[t] = setBy[t] /\ token'[t] = token[t] /\ (t \in shared => t \in shared')
          /\ \A r \in Requests : Marked(r, t)' => Marked(r, t)
          /\ \A r \in Requests : InHand(r, t)' => InHand(r, t)
      BY <2>6, <2>11
    <3> QED BY <3>1
  <2> QED BY <2>10, <2>11
<1>9. ASSUME NEW q \in Requests, MarkEmailVerified(q) \/ ChangePassword(q) \/ RequestDies(q) \/ RevokeAllForUser(q)
      PROVE TokenInv'
  <2>1. request'[q].at = "idle" /\ \A r \in Requests \ {q} : request'[r] = request[r]
    BY <1>9 DEF MarkEmailVerified, ChangePassword, RequestDies, RevokeAllForUser, NoRequest
  <2> QED BY <1>5, <1>9, <2>1 DEF MarkEmailVerified, ChangePassword, RequestDies, RevokeAllForUser
<1>10. ASSUME NEW q \in Requests, UpdatePassword(q) PROVE TokenInv'
  <2>0. PICK x \in Tokens : x = request[q].token
    BY <1>10 DEF UpdatePassword, BelongOK, HasToken
  <2>1. Marked(q, x) /\ token[x].type = "reset" /\ token[x].used /\ setBy[x] \in Nat
    BY <1>10, <2>0 DEF UpdatePassword, BelongOK, HasToken
  <2>2. /\ \A r \in Requests : request'[r].token = request[r].token
        /\ \A r \in Requests \ {q} : request'[r].at = request[r].at
        /\ request'[q].at = "updated"
    <3>1. \A r \in Requests :
            request'[r] = IF r = q THEN [request[r] EXCEPT !.at = "updated", !.era = resets[request[q].user] + 1]
                          ELSE IF request[r].at = "change" /\ request[r].user = request[q].user
                               THEN [request[r] EXCEPT !.late = TRUE] ELSE request[r]
      BY <1>10 DEF UpdatePassword
    <3>2. \A r \in Requests : request[r] \in Request
      OBVIOUS
    <3> HIDE DEF Rows, TokenInv
    <3>3. \A r \in Requests \ {q} : request'[r].at = request[r].at /\ request'[r].token = request[r].token
      BY <3>1, <3>2 DEF Request
    <3>4. request'[q].at = "updated" /\ request'[q].token = request[q].token
      BY <3>1, <3>2 DEF Request
    <3> QED BY <3>3, <3>4
  <2>3. /\ setBy' = [setBy EXCEPT ![x] = setBy[x] + 1] /\ UNCHANGED <<token, shared>>
    BY <1>10, <2>0 DEF UpdatePassword
  <2>4. ASSUME NEW r \in Requests, NEW t \in Tokens
        PROVE  /\ Marked(r, t)' => (r # q /\ Marked(r, t))
               /\ InHand(r, t)' => InHand(r, t)
    <3>1. CASE r = q
      BY <2>2, <3>1
    <3>2. CASE r # q
      BY <2>2, <3>2
    <3> QED BY <3>1, <3>2
  <2>5. x \notin shared => setBy[x] = 0 /\ \A r \in Requests : Marked(r, x) => r = q
    BY <2>1
  <2> HIDE DEF Marked, InHand
  <2> QED BY <2>1, <2>3, <2>4, <2>5
<1>11. ASSUME NEW u \in Users,
              \/ \E banned \in BOOLEAN : SetBanned(u, banned)
              \/ \E s \in Sessions : Login(s, u) \/ CreateRefreshToken(s) \/ RevokeByHash(s)
       PROVE TokenInv'
  BY <1>1, <1>11 DEF SetBanned, Login, CreateRefreshToken, RevokeByHash
<1>12. ASSUME NEW s \in Sessions, CreateRefreshToken(s) \/ RevokeByHash(s) PROVE TokenInv'
  BY <1>1, <1>12 DEF CreateRefreshToken, RevokeByHash
<1> QED BY <1>3, <1>4, <1>6, <1>7, <1>8, <1>9, <1>10, <1>11, <1>12 DEF Next

\* A mail sets one password, unless two requests had it in hand at once.
THEOREM TokenUsedOnce == Spec => []OneResetPerToken
<1>1. Init => TokenInv
  BY DEF Init, TokenInv, Marked, InHand, NoRequest, NoRow
<1>2. TypeOK /\ TokenInv /\ [Next]_vars => TokenInv'
  <2>1. ASSUME TypeOK, TokenInv, Next PROVE TokenInv'
    BY <2>1, TokenStep, TypeParts
  <2>2. ASSUME TokenInv, UNCHANGED vars PROVE TokenInv'
    BY <2>2 DEF TokenInv, Marked, InHand, vars
  <2> QED BY <2>1, <2>2
<1>3. TypeOK /\ TokenInv => OneResetPerToken
  BY DEF TypeOK, TokenInv, OneResetPerToken
<1> QED BY <1>1, <1>2, <1>3, TypeCorrect, PTL DEF Spec
===============================================================================
