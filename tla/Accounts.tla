------------------------------ MODULE Accounts ------------------------------
(***************************************************************************)
(* auth-service: accounts, the mailed tokens that verify an address or      *)
(* reset a password, and the refresh tokens a login stores.                 *)
(*                                                                         *)
(* A handler is a sequence of statements, each its own transaction, and     *)
(* requests overlap between any two of them.  A password is known by how    *)
(* it came to be: its era is the number of resets before it, and a          *)
(* ChangePassword hands the era of the password it was shown to the one it  *)
(* sets.  Tokens expire when they like.  Access tokens are checked against  *)
(* their signature and the user's row and change nothing; names, roles,     *)
(* avatars and profiles are left out, is_plus is in Subscriptions.          *)
(***************************************************************************)
EXTENDS Integers

CONSTANTS
  Users,
  Sessions,    \* the refresh tokens that logins store
  Tokens,      \* the rows of verification_tokens
  Requests,    \* VerifyEmail, ResetPassword and ChangePassword running at once
  NoUser, NoToken,
  MaxFaults    \* bound on statements that fail and requests that die

ASSUME ModelValuesAssumption == NoUser \notin Users /\ NoToken \notin Tokens
ASSUME FaultsAssumption == MaxFaults \in Nat

VARIABLES
  account,     \* users: whether the row is there, email_verified, is_banned
  password,    \* users.password_hash
  token,       \* verification_tokens
  session,     \* refresh_tokens, and the logins that have not stored theirs
  request,     \* the requests, and what they have read
  resets,      \* how many passwords of a user were set by a reset
  cleared,     \* the era of the last reset that revoked the user's sessions
  setBy,       \* how many passwords a token has set
  shared,      \* tokens marked used while another request had them in hand
  faults

vars == <<account, password, token, session, request, resets, cleared, setBy, shared, faults>>
-----------------------------------------------------------------------------
Type == {"email", "reset"}
Password == [era : Nat, late : BOOLEAN]   \* late: set in the back of a reset
NoAccount == [there |-> FALSE, verified |-> FALSE, banned |-> FALSE]
NoRow == [type |-> "none", user |-> NoUser, used |-> FALSE, expired |-> FALSE]
NoSession == [at |-> "none", user |-> NoUser, era |-> 0, late |-> FALSE]
NoRequest == [at |-> "idle", token |-> NoToken, user |-> NoUser, era |-> 0, late |-> FALSE]

Account == [there : BOOLEAN, verified : BOOLEAN, banned : BOOLEAN]
Row == [type : Type \cup {"none"}, user : Users \cup {NoUser}, used : BOOLEAN, expired : BOOLEAN]
\* "read": a login that has read the user; "over": revoked or expired.
Session == [at : {"none", "read", "live", "over"}, user : Users \cup {NoUser},
            era : Nat, late : BOOLEAN]
\* "verify" and "reset" hold a usable token, "marked" and "resetting" have
\* marked it, "updated" has the sessions left to revoke, "change" has proved
\* the old password.
Step == {"idle", "verify", "reset", "marked", "resetting", "updated", "change"}
Request == [at : Step, token : Tokens \cup {NoToken}, user : Users \cup {NoUser},
            era : Nat, late : BOOLEAN]

\* Rows belong to users who have an account, and a request works on a token of
\* the type it is for.
HasAccount(u) == u \in Users /\ account[u].there

HasToken(r, type) == request[r].token \in Tokens /\ token[request[r].token].type = type

BelongOK ==
  /\ \A t \in Tokens : token[t].type # "none" => HasAccount(token[t].user)
  /\ \A s \in Sessions : session[s].at # "none" => HasAccount(session[s].user)
  /\ \A r \in Requests :
       /\ request[r].at # "idle" => HasAccount(request[r].user)
       /\ request[r].at \in {"verify", "marked"} => HasToken(r, "email")
       /\ request[r].at \in {"reset", "resetting", "updated"} => HasToken(r, "reset")

TypeOK ==
  /\ account \in [Users -> Account]
  /\ password \in [Users -> Password]
  /\ token \in [Tokens -> Row]
  /\ session \in [Sessions -> Session]
  /\ request \in [Requests -> Request]
  /\ resets \in [Users -> Nat]
  /\ cleared \in [Users -> Nat]
  /\ setBy \in [Tokens -> Nat]
  /\ shared \subseteq Tokens
  /\ faults \in Nat
  /\ BelongOK

Init ==
  /\ account = [u \in Users |-> NoAccount]
  /\ password = [u \in Users |-> [era |-> 0, late |-> FALSE]]
  /\ token = [t \in Tokens |-> NoRow]
  /\ session = [s \in Sessions |-> NoSession]
  /\ request = [r \in Requests |-> NoRequest]
  /\ resets = [u \in Users |-> 0]
  /\ cleared = [u \in Users |-> 0]
  /\ setBy = [t \in Tokens |-> 0]
  /\ shared = {}
  /\ faults = 0

Fault == faults < MaxFaults /\ faults' = faults + 1
-----------------------------------------------------------------------------
\* INSERT INTO verification_tokens.
CreateVerificationToken(t, u, type) ==
  /\ token[t] = NoRow
  /\ token' = [token EXCEPT ![t] = [type |-> type, user |-> u, used |-> FALSE, expired |-> FALSE]]

\* SendEmailVerification, whose error Register drops.  Like the resending of a
\* mail below it is one step with the read before it: in between the address
\* can only be verified, and one token more verifies it again.
Register(u, t) ==
  /\ ~account[u].there
  /\ account' = [account EXCEPT ![u].there = TRUE]
  /\ \/ CreateVerificationToken(t, u, "email") /\ UNCHANGED faults
     \/ Fault /\ UNCHANGED token
  /\ UNCHANGED <<password, session, request, resets, cleared, setBy, shared>>

ResendEmailVerification(u, t) ==
  /\ account[u].there /\ ~account[u].verified
  /\ CreateVerificationToken(t, u, "email")
  /\ UNCHANGED <<account, password, session, request, resets, cleared, setBy, shared, faults>>

\* Anyone who has an account, verified or banned or not.
ForgotPassword(u, t) ==
  /\ account[u].there
  /\ CreateVerificationToken(t, u, "reset")
  /\ UNCHANGED <<account, password, session, request, resets, cleared, setBy, shared, faults>>

\* Of a used token nobody can tell.
TokenExpires(t) ==
  /\ token[t] # NoRow /\ ~token[t].used /\ ~token[t].expired
  /\ token' = [token EXCEPT ![t].expired = TRUE]
  /\ UNCHANGED <<account, password, session, request, resets, cleared, setBy, shared, faults>>

SetBanned(u, banned) ==
  /\ account[u].there /\ account[u].banned # banned
  /\ account' = [account EXCEPT ![u].banned = banned]
  /\ UNCHANGED <<password, token, session, request, resets, cleared, setBy, shared, faults>>
-----------------------------------------------------------------------------
\* Login reads the user, and refuses one that is banned, shows another
\* password or has not verified the address ...
Login(s, u) ==
  /\ session[s] = NoSession
  /\ account[u].there /\ ~account[u].banned /\ account[u].verified
  /\ session' = [session EXCEPT ![s] = [at |-> "read", user |-> u,
                                        era |-> password[u].era, late |-> password[u].late]]
  /\ UNCHANGED <<account, password, token, request, resets, cleared, setBy, shared, faults>>

\* ... and stores a refresh token, of which it looks at nothing again.
CreateRefreshToken(s) ==
  /\ session[s].at = "read"
  /\ \/ session' = [session EXCEPT ![s].at = "live"] /\ UNCHANGED faults
     \/ session' = [session EXCEPT ![s] = NoSession] /\ Fault
  /\ UNCHANGED <<account, password, token, request, resets, cleared, setBy, shared>>

\* What is left to know of a session that is revoked or expired.
Over(s) == [NoSession EXCEPT !.at = "over", !.user = session[s].user]

\* Logout; or the token has expired, and a later login deletes its row.
RevokeByHash(s) ==
  /\ session[s].at = "live"
  /\ session' = [session EXCEPT ![s] = Over(s)]
  /\ UNCHANGED <<account, password, token, request, resets, cleared, setBy, shared, faults>>

\* The sessions that RefreshToken gives a new access token.
Accepted(s) ==
  /\ session[s].at = "live"
  /\ ~account[session[s].user].banned /\ account[session[s].user].verified
-----------------------------------------------------------------------------
\* Wrong on purpose: a token of one type does the work of the other.
UsableAnyType(t, type) ==
  token[t] # NoRow /\ ~token[t].used /\ ~token[t].expired

\* Wrong on purpose: used_at is not looked at.
UsableAgain(t, type) ==
  token[t] # NoRow /\ ~token[t].expired /\ token[t].type = type

Usable(t, type) ==
  /\ token[t] # NoRow /\ ~token[t].used /\ ~token[t].expired
  /\ token[t].type = type

\* VerifyEmail and ResetPassword read the token and check it ...
GetByHash(r, t) ==
  /\ request[r] = NoRequest
  /\ \E step \in {"verify", "reset"} :
       /\ Usable(t, IF step = "verify" THEN "email" ELSE "reset")
       /\ request' = [request EXCEPT ![r] = [at |-> step, token |-> t, user |-> token[t].user,
                                             era |-> 0, late |-> FALSE]]
  /\ UNCHANGED <<account, password, token, session, resets, cleared, setBy, shared, faults>>

InHand(r, t) == request[r].at \in {"verify", "reset"} /\ request[r].token = t

\* ... mark it used, whether or not it is by now ...
MarkUsed(r) ==
  /\ request[r].at \in {"verify", "reset"}
  /\ LET t == request[r].token IN
     /\ token' = [token EXCEPT ![t].used = TRUE]
     /\ shared' = IF \E q \in Requests \ {r} : InHand(q, t) THEN shared \cup {t} ELSE shared
  /\ request' = [request EXCEPT ![r].at = IF request[r].at = "verify" THEN "marked" ELSE "resetting"]
  /\ UNCHANGED <<account, password, session, resets, cleared, setBy, faults>>

\* ... and do what it is for.  VerifyEmail:
MarkEmailVerified(r) ==
  /\ request[r].at = "marked"
  /\ account' = [account EXCEPT ![request[r].user].verified = TRUE]
  /\ request' = [request EXCEPT ![r] = NoRequest]
  /\ UNCHANGED <<password, token, session, resets, cleared, setBy, shared, faults>>

\* ResetPassword: the password of a new era.  A ChangePassword that has proved
\* the old one will write in the back of this reset.
UpdatePassword(r) ==
  /\ request[r].at = "resetting"
  /\ LET u == request[r].user
         era == resets[request[r].user] + 1 IN
     /\ password' = [password EXCEPT ![u] = [era |-> era, late |-> FALSE]]
     /\ resets' = [resets EXCEPT ![u] = era]
     /\ request' = [q \in Requests |->
          IF q = r THEN [request[q] EXCEPT !.at = "updated", !.era = era]
          ELSE IF request[q].at = "change" /\ request[q].user = u THEN [request[q] EXCEPT !.late = TRUE]
          ELSE request[q]]
  /\ setBy' = [setBy EXCEPT ![request[r].token] = setBy[request[r].token] + 1]
  /\ UNCHANGED <<account, token, session, cleared, shared, faults>>

\* A session that is stored is revoked; a login that has yet to store its own
\* will do so in the back of the reset.
Revoked(s) ==
  IF session[s].at = "live" THEN Over(s)
  ELSE IF session[s].at = "read" THEN [session[s] EXCEPT !.late = TRUE]
  ELSE session[s]

\* Wrong on purpose: the sessions are revoked before the password changes.
RevokeAllForUserFirst(r) ==
  /\ request[r].at = "resetting"
  /\ LET u == request[r].user IN
     /\ session' = [s \in Sessions |-> IF session[s].user = u THEN Revoked(s) ELSE session[s]]
     /\ cleared' = [cleared EXCEPT ![u] = resets[u] + 1]
  /\ UNCHANGED <<account, password, token, request, resets, setBy, shared, faults>>

\* ResetPassword ends: UPDATE ... WHERE user_id = $1 AND revoked_at IS NULL.
RevokeAllForUser(r) ==
  /\ request[r].at = "updated"
  /\ LET u == request[r].user IN
     /\ session' = [s \in Sessions |-> IF session[s].user = u THEN Revoked(s) ELSE session[s]]
     /\ cleared' = [cleared EXCEPT ![u] = IF request[r].era > cleared[u] THEN request[r].era ELSE cleared[u]]
  /\ request' = [request EXCEPT ![r] = NoRequest]
  /\ UNCHANGED <<account, password, token, resets, setBy, shared, faults>>
-----------------------------------------------------------------------------
\* ChangePassword, by someone who has logged in: shows the old password ...
ProvePassword(r, u) ==
  /\ request[r] = NoRequest
  /\ account[u].there
  /\ \E s \in Sessions : session[s].user = u /\ session[s].at \in {"live", "over"}
  /\ request' = [request EXCEPT ![r] = [at |-> "change", token |-> NoToken, user |-> u,
                                        era |-> password[u].era, late |-> password[u].late]]
  /\ UNCHANGED <<account, password, token, session, resets, cleared, setBy, shared, faults>>

\* ... and writes the new one over whatever is there.  No session is revoked.
ChangePassword(r) ==
  /\ request[r].at = "change"
  /\ password' = [password EXCEPT ![request[r].user] = [era |-> request[r].era, late |-> request[r].late]]
  /\ request' = [request EXCEPT ![r] = NoRequest]
  /\ UNCHANGED <<account, token, session, resets, cleared, setBy, shared, faults>>

\* A statement fails or the process dies, the error of RevokeAllForUser too:
\* what was done stays done.
RequestDies(r) ==
  /\ request[r] # NoRequest /\ Fault
  /\ request' = [request EXCEPT ![r] = NoRequest]
  /\ UNCHANGED <<account, password, token, session, resets, cleared, setBy, shared>>

Next ==
  \/ \E u \in Users :
       \/ \E t \in Tokens : Register(u, t) \/ ResendEmailVerification(u, t) \/ ForgotPassword(u, t)
       \/ \E banned \in BOOLEAN : SetBanned(u, banned)
       \/ \E s \in Sessions : Login(s, u)
       \/ \E r \in Requests : ProvePassword(r, u)
  \/ \E t \in Tokens : TokenExpires(t) \/ \E r \in Requests : GetByHash(r, t)
  \/ \E s \in Sessions : CreateRefreshToken(s) \/ RevokeByHash(s)
  \/ \E r \in Requests :
       \/ MarkUsed(r) \/ MarkEmailVerified(r) \/ UpdatePassword(r) \/ RevokeAllForUser(r)
       \/ ChangePassword(r) \/ RequestDies(r)

Spec == Init /\ [][Next]_vars
-----------------------------------------------------------------------------
\* A reset that has revoked the sessions of its user (auth_service.go:388)
\* shuts out whoever knew an older password: a session that RefreshToken
\* accepts was opened with a password that goes back to this reset or a later
\* one, unless the login, or a ChangePassword before it, was already under way
\* when the reset went past it.
ResetEndsSessions ==
  \A s \in Sessions :
    Accepted(s) => session[s].late \/ session[s].era >= cleared[session[s].user]

\* One mail sets one password, and only a mail that was sent for a reset does:
\* a second password by the same token takes a second request that had the
\* token in hand when it was marked, for nothing re-checks it (auth_service.go:378).
OneResetPerToken ==
  \A t \in Tokens :
    /\ setBy[t] > 1 => t \in shared
    /\ setBy[t] > 0 => token[t].type = "reset" /\ token[t].used
=============================================================================
