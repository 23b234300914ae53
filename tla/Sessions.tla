------------------------------ MODULE Sessions ------------------------------
(***************************************************************************)
(* Accounts and their sessions: features/auth/service.py (login, register, *)
(* refresh, forgot and reset password, logout), features/auth/sessions.py  *)
(* (the per-user revocation timestamp and the single-use claims, kept in a *)
(* Redis that never evicts) and core/security/token.py (token lifetimes,   *)
(* the expiry check and the time to live of a blacklist entry).            *)
(*                                                                         *)
(* A tick is a millisecond, TicksPerSecond of them make a second: issue    *)
(* times and the revocation timestamp count ticks, expiry times and key    *)
(* lifetimes count whole seconds.  A step is what a request does between   *)
(* two awaits; an argument computed before a Redis command is sent is kept *)
(* until the command lands.  A token is its number in the order of issue   *)
(* (its jti).  Credentials and password hashes are left out: a request     *)
(* with wrong ones changes nothing.                                        *)
(***************************************************************************)
EXTENDS Integers, Sequences

CONSTANTS
    Users,            \* accounts, by immutable id
    Requests,         \* requests in flight
    NoUser,
    TicksPerSecond,
    AccessLife, RefreshLife, ResetLife,  \* *_TOKEN_EXPIRES, in seconds
    Faults,           \* the failures that may happen in this instance
    MaxTokens,        \* bound of the instance: tokens signed
    LastIssue,        \* bound of the instance: the tick after which none is signed
    MaxTime           \* bound of the instance: ticks

Kinds == {"access", "refresh", "reset"}
Lifetime(kind) == CASE kind = "access" -> AccessLife
                    [] kind = "refresh" -> RefreshLife
                    [] kind = "reset" -> ResetLife
FaultKinds == {"crash", "revokeReply"}

ASSUME TimeAssumption ==
    /\ TicksPerSecond \in Nat \ {0} /\ AccessLife \in Nat \ {0}
    /\ RefreshLife \in Nat \ {0} /\ ResetLife \in Nat \ {0}
    /\ AccessLife < RefreshLife /\ ResetLife <= RefreshLife
ASSUME NullAssumption == NoUser \notin Users
ASSUME FaultAssumption == Faults \subseteq FaultKinds
ASSUME BoundAssumption == MaxTokens \in Nat /\ LastIssue \in Nat /\ MaxTime \in Nat

VARIABLES
    now,       \* the clock of the workers and of Redis
    accounts,  \* the registered users
    tokens,    \* the tokens signed so far
    black,     \* per token: the tick its blacklist entry lives until, 0: none written
    revoked,   \* per user: the revocation timestamp, and the tick it lives until
    req        \* per request: where it is and what it holds

vars == <<now, accounts, tokens, black, revoked, req>>

Jti == 1..MaxTokens
Steps == {"idle", "issue", "claim", "set", "revoke", "release", "logout", "cookie"}

\* sent: the argument of the command under way (seconds to live, or a timestamp).
At(step, user, token, cookie, sent) ==
    [step |-> step, user |-> user, token |-> token, cookie |-> cookie, sent |-> sent]
Idle == At("idle", NoUser, 0, 0, 0)

Token == [user : Users, kind : Kinds, iat : Nat, exp : Nat, parent : Nat]

TypeOK ==
    /\ now \in Nat
    /\ accounts \subseteq Users
    /\ tokens \in Seq(Token)
    /\ Len(tokens) <= MaxTokens
    /\ black \in [Jti -> Nat]
    /\ revoked \in [Users -> [after : Nat, until : Nat]]
    /\ req \in [Requests -> [step : Steps, user : Users \cup {NoUser}, token : 0..MaxTokens,
                             cookie : 0..MaxTokens, sent : Nat]]
    /\ \A r \in Requests :
        /\ req[r].step # "idle" => req[r].user \in Users
        /\ req[r].step \notin {"idle", "issue"} => req[r].token \in 1..Len(tokens)
        /\ req[r].cookie <= Len(tokens)
        /\ req[r].step = "cookie" => req[r].cookie # 0

Init ==
    /\ now = 0
    /\ accounts = {}
    /\ tokens = <<>>
    /\ black = [j \in Jti |-> 0]
    /\ revoked = [u \in Users |-> [after |-> 0, until |-> 0]]
    /\ req = [r \in Requests |-> Idle]

-----------------------------------------------------------------------------
(* Tokens.                                                                 *)

\* create_token: iat_ms keeps the tick, exp is truncated to a whole second.
NewToken(kind, u, parent) ==
    [user |-> u, kind |-> kind, iat |-> now,
     exp |-> (now \div TicksPerSecond) + Lifetime(kind),
     parent |-> parent]

\* decode_token and _verify_token_str: the type matches, and exp is not below
\* the current whole second.
Verified(j, kind) ==
    /\ j \in 1..Len(tokens)
    /\ tokens[j].kind = kind
    /\ tokens[j].exp >= now \div TicksPerSecond

\* The tick a token expires at.
End(j) == tokens[j].exp * TicksPerSecond

\* remaining_seconds: whole seconds until exp, floored at 0.
Remaining(j) == IF End(j) <= now THEN 0 ELSE (End(j) - now) \div TicksPerSecond

\* A key written with EX is there until its time to live is over.
Blacklisted(j) == black[j] # 0 /\ now <= black[j]

\* Mutant of SessionRevoked: issue times have whole seconds only (no iat_ms).
SecondsCompared(j) ==
    \/ Blacklisted(j)
    \/ /\ now <= revoked[tokens[j].user].until
       /\ tokens[j].iat \div TicksPerSecond < revoked[tokens[j].user].after \div TicksPerSecond

\* is_session_revoked: both keys are read by one MGET.
SessionRevoked(j) ==
    \/ Blacklisted(j)
    \/ /\ now <= revoked[tokens[j].user].until
       /\ tokens[j].iat < revoked[tokens[j].user].after

\* Mutant of BlacklistToken: the entry is dropped a second early.
BlacklistShort(j) ==
    black' = IF Remaining(j) = 0 THEN black
             ELSE [black EXCEPT ![j] = now + (Remaining(j) - 1) * TicksPerSecond]

\* blacklist_token: SET ... EX, nothing for a token without a whole second left.
BlacklistToken(j) ==
    black' = IF Remaining(j) = 0 THEN black
             ELSE [black EXCEPT ![j] = now + Remaining(j) * TicksPerSecond]

Goto(r, step) == req' = [req EXCEPT ![r].step = step]
Finish(r) == req' = [req EXCEPT ![r] = Idle]

\* _issue_tokens: a refresh and an access token, with no await in between.
IssueTokens(r) ==
    /\ req[r].step = "issue"
    /\ Len(tokens) + 2 <= MaxTokens /\ now <= LastIssue
    /\ tokens' = tokens \o <<NewToken("refresh", req[r].user, req[r].token),
                             NewToken("access", req[r].user, req[r].token)>>
    /\ Finish(r)
    /\ UNCHANGED <<now, accounts, black, revoked>>

-----------------------------------------------------------------------------
(* Handlers.                                                               *)

\* login, up to the commit of last_login.
Login(r, u) ==
    /\ req[r].step = "idle"
    /\ u \in accounts
    /\ req' = [req EXCEPT ![r] = At("issue", u, 0, 0, 0)]
    /\ UNCHANGED <<now, accounts, tokens, black, revoked>>

\* register, up to the commit of the new account.
Register(r, u) ==
    /\ req[r].step = "idle"
    /\ u \notin accounts
    /\ accounts' = accounts \cup {u}
    /\ req' = [req EXCEPT ![r] = At("issue", u, 0, 0, 0)]
    /\ UNCHANGED <<now, tokens, black, revoked>>

\* refresh_tokens and reset_password: the token verifies and its user exists,
\* Redis does not know it as used, logged out or revoked, and what is left of
\* its life is computed (claim_token refuses a token with nothing left); ...
Present(r, j, kind) ==
    /\ req[r].step = "idle"
    /\ Verified(j, kind) /\ tokens[j].user \in accounts
    /\ ~SessionRevoked(j)
    /\ Remaining(j) > 0
    /\ req' = [req EXCEPT ![r] = At("claim", tokens[j].user, j, 0, Remaining(j))]
    /\ UNCHANGED <<now, accounts, tokens, black, revoked>>

\* Mutant of ClaimToken: a SET without NX.
ClaimAnyway(r) ==
    /\ req[r].step = "claim"
    /\ black' = [black EXCEPT ![req[r].token] = now + req[r].sent * TicksPerSecond]
    /\ Goto(r, IF tokens[req[r].token].kind = "refresh" THEN "issue" ELSE "set")
    /\ UNCHANGED <<now, accounts, tokens, revoked>>

\* ... then it is claimed: SET ... NX EX on the blacklist key.
ClaimToken(r) ==
    /\ req[r].step = "claim"
    /\ IF Blacklisted(req[r].token)
       THEN UNCHANGED black /\ Finish(r)
       ELSE /\ black' = [black EXCEPT ![req[r].token] = now + req[r].sent * TicksPerSecond]
            /\ Goto(r, IF tokens[req[r].token].kind = "refresh" THEN "issue" ELSE "set")
    /\ UNCHANGED <<now, accounts, tokens, revoked>>

\* reset_password: the new hash is committed, and revoke_user_sessions takes
\* its timestamp before its command is sent.
SetPassword(r) ==
    /\ req[r].step = "set"
    /\ req' = [req EXCEPT ![r].step = "revoke", ![r].sent = now]
    /\ UNCHANGED <<now, accounts, tokens, black, revoked>>

\* revoke_user_sessions: the SET lands; the request is answered unless the
\* reply is lost.
RevokeSessions(r) ==
    /\ req[r].step = "revoke"
    /\ revoked' = [revoked EXCEPT ![req[r].user] =
            [after |-> req[r].sent, until |-> now + RefreshLife * TicksPerSecond]]
    /\ \/ Finish(r)
       \/ "revokeReply" \in Faults /\ Goto(r, "release")
    /\ UNCHANGED <<now, accounts, tokens, black>>

\* A database or Redis error after the claim of a reset (except Exception).
ResetFails(r) ==
    /\ req[r].step \in {"set", "revoke"}
    /\ Goto(r, "release")
    /\ UNCHANGED <<now, accounts, tokens, black, revoked>>

\* release_token, and the error is raised again.
ReleaseToken(r) ==
    /\ req[r].step = "release"
    /\ black' = [black EXCEPT ![req[r].token] = 0]
    /\ Finish(r)
    /\ UNCHANGED <<now, accounts, tokens, revoked>>

\* forgot_password: the link is signed at once and mailed after the answer.
ForgotPassword(u) ==
    /\ u \in accounts
    /\ Len(tokens) < MaxTokens /\ now <= LastIssue
    /\ tokens' = Append(tokens, NewToken("reset", u, 0))
    /\ UNCHANGED <<now, accounts, black, revoked, req>>

\* Whether get_current_user accepts the access token now.
Honoured(j) == Verified(j, "access") /\ ~SessionRevoked(j)

\* logout: the caller is authenticated; cookie 0 is a request without one.
Logout(r, j, c) ==
    /\ req[r].step = "idle"
    /\ Honoured(j)
    /\ c # 0 => c <= Len(tokens) /\ tokens[c].kind = "refresh"
    /\ req' = [req EXCEPT ![r] = At("logout", tokens[j].user, j, c, 0)]
    /\ UNCHANGED <<now, accounts, tokens, black, revoked>>

\* verify_token again, and the access token goes on the blacklist, ...
LogoutAccess(r) ==
    /\ req[r].step = "logout"
    /\ IF Verified(req[r].token, "access")
       THEN /\ BlacklistToken(req[r].token)
            /\ IF req[r].cookie = 0 THEN Finish(r) ELSE Goto(r, "cookie")
       ELSE Finish(r) /\ UNCHANGED black
    /\ UNCHANGED <<now, accounts, tokens, revoked>>

\* ... then the refresh token of the cookie, unless it does not verify.
LogoutRefresh(r) ==
    /\ req[r].step = "cookie"
    /\ IF Verified(req[r].cookie, "refresh")
       THEN BlacklistToken(req[r].cookie) ELSE UNCHANGED black
    /\ Finish(r)
    /\ UNCHANGED <<now, accounts, tokens, revoked>>

-----------------------------------------------------------------------------
(* Failures and time.                                                      *)

\* A request is lost wherever it is: its worker dies, its client goes away,
\* or a call fails whose error is not handled (503).
Lost(r) ==
    /\ "crash" \in Faults
    /\ req[r].step # "idle"
    /\ Finish(r)
    /\ UNCHANGED <<now, accounts, tokens, black, revoked>>

Tick ==
    /\ now < MaxTime
    /\ now' = now + 1
    /\ UNCHANGED <<accounts, tokens, black, revoked, req>>

\* The endpoints that begin a request with an account or a token.
SignIn(r) == \E u \in Users : Login(r, u) \/ Register(r, u)
Refresh(r) == \E j \in Jti : Present(r, j, "refresh")
ResetPassword(r) == \E j \in Jti : Present(r, j, "reset")

Next ==
    \/ \E r \in Requests :
        \/ SignIn(r) \/ Refresh(r) \/ ResetPassword(r)
        \/ \E j \in Jti, c \in 0..MaxTokens : Logout(r, j, c)
        \/ IssueTokens(r) \/ ClaimToken(r)
        \/ SetPassword(r) \/ RevokeSessions(r) \/ ResetFails(r) \/ ReleaseToken(r)
        \/ LogoutAccess(r) \/ LogoutRefresh(r)
        \/ Lost(r)
    \/ \E u \in Users : ForgotPassword(u)
    \/ Tick

Spec == Init /\ [][Next]_vars

-----------------------------------------------------------------------------
(* Properties.                                                             *)

\* The last second of a token's life, in which its claim may have expired.
LastSecond(j) == now + TicksPerSecond > End(j)

\* The exchanges of refresh tokens: the pairs issued for one, and the requests
\* that are about to issue a pair.
Exchanges ==
    {[parent |-> tokens[i].parent, by |-> <<"pair", i>>] : i \in {i \in 1..Len(tokens) :
        tokens[i].kind = "refresh" /\ tokens[i].parent # 0}}
    \cup {[parent |-> req[r].token, by |-> <<"request", r>>] : r \in {r \in Requests :
        req[r].step = "issue" /\ req[r].token # 0}}

\* A refresh token is exchanged for at most one pair, however many requests
\* present it and whatever is lost on the way, until the last second of its
\* life (refresh_tokens, claim_token).
RotatedOnce ==
    \A i, j \in Exchanges : i.parent = j.parent => i = j \/ LastSecond(i.parent)

Resetting == {"set", "revoke", "release"}

\* Two requests never work with one reset link at once, although a failing
\* request gives the link back (reset_password, claim_token, release_token).
LinkHeldByOne ==
    \A r, s \in Requests :
        /\ req[r].step \in Resetting /\ req[s].step \in Resetting
        /\ req[r].token = req[s].token
        => r = s \/ LastSecond(req[r].token)

\* Whether the token opens anything now.
Usable(j) ==
    \/ Honoured(j)
    \/ (Verified(j, "refresh") \/ Verified(j, "reset")) /\ ~SessionRevoked(j) /\ Remaining(j) > 0

\* No token issued before the last revocation of its user is usable again, not
\* even when the revocation key has expired (revoke_user_sessions: the key
\* "expires after the longest token lifetime, when it can no longer matter").
LastRevocationHolds ==
    \A j \in 1..Len(tokens) : Usable(j) => tokens[j].iat >= revoked[tokens[j].user].after

\* A token whose blacklist entry was written is refused until the last second
\* of its life, unless a failed reset gave it back (blacklist_token,
\* remaining_seconds, decode_token).
LogoutHolds ==
    \A j \in 1..Len(tokens) : black[j] # 0 /\ Usable(j) => LastSecond(j)
=============================================================================
