--------------------------- MODULE PlatformProofs ---------------------------
(***************************************************************************)
(* The proofs about what runs below the features: the sessions of          *)
(* app/core/security and auth, and the schema that migrations deploy.      *)
(*                                                                         *)
(* Sessions keeps its promises for every set of accounts and requests, any *)
(* length of a second and any lifetimes in the order the code has them:    *)
(* RotatedOnce, LinkHeldByOne, LastRevocationHolds and LogoutHolds.        *)
(* All four rest on truncations that err on one side.  A key written for   *)
(* the whole seconds a token has left ends in the token's last second or   *)
(* later, however late the command lands (EntriesOutlive); a revocation    *)
(* key ends after every token issued before it (RevocationsOutlive).       *)
(*                                                                         *)
(* Migrations moves schema and version together for every set of runners   *)
(* and releases and any number of crashes, rollbacks and uses.  Each of    *)
(* the 164 scripts is looked at: all but one are applied as a whole, and   *)
(* that one commits before it touches a table (CommitsEarly).              *)
(***************************************************************************)
EXTENDS Sessions, Migrations, TLAPS, FiniteSetTheorems, WellFoundedInduction

T == TicksPerSecond

-----------------------------------------------------------------------------
(* Whole seconds.                                                          *)

\* Truncation to whole seconds loses less than one.
LEMMA Truncated ==
  ASSUME NEW t \in Nat
  PROVE  /\ t \div T \in Nat
         /\ (t \div T) * T <= t
         /\ t < (t \div T) * T + T
  BY TimeAssumption DEF T

\* Products with the length of a second.
LEMMA InTicks ==
  ASSUME NEW n \in Nat
  PROVE  /\ n * T \in Nat
         /\ n # 0 => n * T > 0
         /\ \A m \in Nat : m <= n => m * T <= n * T
         /\ \A m \in Nat : m < n => m * T + T <= n * T
         /\ \A m \in Nat : (n + m) * T = n * T + m * T
  BY TimeAssumption DEF T

\* Whatever is left of a token is less than a second more than Remaining says.
LEMMA RemainingSeconds ==
  ASSUME NEW j, End(j) \in Nat, now \in Nat
  PROVE  /\ Remaining(j) \in Nat
         /\ now + Remaining(j) * T + T > End(j)
         /\ Remaining(j) > 0 => now < End(j)
  <1>1. CASE End(j) <= now
    <2>1. Remaining(j) = 0
      BY <1>1 DEF Remaining
    <2> QED
      BY <1>1, <2>1, TimeAssumption DEF T
  <1>2. CASE now < End(j)
    <2>1. /\ Remaining(j) = (End(j) - now) \div T
          /\ End(j) - now \in Nat
      BY <1>2 DEF Remaining, T
    <2>2. /\ (End(j) - now) \div T \in Nat
          /\ End(j) - now < ((End(j) - now) \div T) * T + T
      BY <2>1, Truncated
    <2> QED
      BY <1>2, <2>1, <2>2, InTicks, TimeAssumption DEF T
  <1> QED
    BY <1>1, <1>2

LEMMA LifetimeType ==
  \A kind \in Kinds : Lifetime(kind) \in Nat \ {0} /\ Lifetime(kind) <= RefreshLife
  BY TimeAssumption DEF Kinds, Lifetime
-----------------------------------------------------------------------------
(* The invariant.                                                          *)

KindOf(j) == tokens[j].kind
Entered(j) == black[j] # 0

\* A token was signed in the past, for a whole second its kind fixes; a pair
\* stands against the claim of the refresh token it was exchanged for.
WellSigned(j) ==
    /\ tokens[j].iat <= now
    /\ tokens[j].exp = (tokens[j].iat \div TicksPerSecond) + Lifetime(KindOf(j))
    /\ tokens[j].parent # 0 =>
            /\ tokens[j].parent \in 1..Len(tokens)
            /\ KindOf(tokens[j].parent) = "refresh" /\ Entered(tokens[j].parent)

Signed == \A j \in 1..Len(tokens) : WellSigned(j)

\* A blacklist entry lives until the last second of its token.
EntriesOutlive ==
    \A j \in Jti : Entered(j) => j \in 1..Len(tokens) /\ black[j] + T > End(j)

\* A revocation key lives as long as the longest token issued before it.
RevocationsOutlive ==
    \A u \in Users : revoked[u].after # 0 =>
        revoked[u].after + RefreshLife * T <= revoked[u].until

\* What a request knows of the token it carries.
Holds(r) ==
    LET j == req[r].token
    IN  /\ req[r].step = "claim" =>
            /\ KindOf(j) \in {"refresh", "reset"}
            /\ req[r].sent # 0 /\ now + req[r].sent * T + T > End(j)
        /\ req[r].step = "issue" /\ j # 0 =>
            j \in 1..Len(tokens) /\ KindOf(j) = "refresh" /\ Entered(j)
        /\ req[r].step \in Resetting => KindOf(j) = "reset" /\ (Entered(j) \/ LastSecond(j))
        /\ req[r].step = "revoke" => req[r].sent <= now

RequestsHold == \A r \in Requests : Holds(r)

\* RotatedOnce, pairs and requests apart.
IsPair(i) == i \in 1..Len(tokens) /\ KindOf(i) = "refresh" /\ tokens[i].parent # 0
Exchanging(r) == req[r].step = "issue" /\ req[r].token # 0

Once ==
    /\ \A i, k \in 1..Len(tokens) :
        IsPair(i) /\ IsPair(k) /\ tokens[i].parent = tokens[k].parent
            => i = k \/ LastSecond(tokens[i].parent)
    /\ \A i \in 1..Len(tokens), r \in Requests :
        IsPair(i) /\ Exchanging(r) /\ tokens[i].parent = req[r].token
            => LastSecond(req[r].token)
    /\ \A r, s \in Requests :
        Exchanging(r) /\ Exchanging(s) /\ req[r].token = req[s].token
            => r = s \/ LastSecond(req[r].token)

IInv ==
    /\ TypeOK /\ Signed /\ EntriesOutlive /\ RevocationsOutlive
    /\ RequestsHold /\ Once /\ LinkHeldByOne
-----------------------------------------------------------------------------
(* Types.                                                                  *)

LEMMA InitType == Init => TypeOK
  <1> SUFFICES ASSUME Init PROVE TypeOK
    OBVIOUS
  <1>1. /\ tokens \in Seq(Token) /\ Len(tokens) = 0
    BY DEF Init
  <1>2. black \in [Jti -> Nat] /\ revoked \in [Users -> [after : Nat, until : Nat]]
    BY DEF Init
  <1>3. \A r \in Requests : req[r] = Idle
    BY DEF Init
  <1> QED
    BY <1>1, <1>2, <1>3, BoundAssumption DEF Init, TypeOK, Idle, At, Steps

LEMMA NewTokenType ==
  ASSUME TypeOK, NEW kind \in Kinds, NEW u \in Users, NEW parent \in Nat
  PROVE  NewToken(kind, u, parent) \in Token
  <1>1. now \div TicksPerSecond \in Nat
    BY Truncated DEF T, TypeOK
  <1>2. Lifetime(kind) \in Nat
    BY LifetimeType
  <1> QED
    BY <1>1, <1>2 DEF NewToken, Token, TypeOK

\* The times of a token are whole ticks.
LEMMA EndType ==
  ASSUME TypeOK, NEW j \in 1..Len(tokens)
  PROVE  /\ tokens[j] \in Token /\ End(j) \in Nat /\ Remaining(j) \in Nat
         /\ now + Remaining(j) * T + T > End(j)
         /\ Remaining(j) > 0 => now < End(j)
         /\ j \in Jti
  <1>1. tokens[j] \in Token
    BY DEF TypeOK
  <1>2. End(j) \in Nat
    BY <1>1, InTicks DEF End, Token, T
  <1>3. j \in Jti
    BY BoundAssumption DEF TypeOK, Jti
  <1>4. now \in Nat
    BY DEF TypeOK
  <1> QED
    BY <1>1, <1>2, <1>3, <1>4, RemainingSeconds

\* What a request carries.
Local == [step : Steps, user : Users \cup {NoUser}, token : 0..MaxTokens,
          cookie : 0..MaxTokens, sent : Nat]

WellFormed(x) ==
    /\ x.step # "idle" => x.user \in Users
    /\ x.step \notin {"idle", "issue"} => x.token \in 1..Len(tokens)
    /\ x.cookie <= Len(tokens)
    /\ x.step = "cookie" => x.cookie # 0

LEMMA LocalType ==
  ASSUME TypeOK
  PROVE  /\ req \in [Requests -> Local] /\ \A r \in Requests : WellFormed(req[r])
         /\ Idle \in Local /\ WellFormed(Idle)
         /\ Idle.step = "idle" /\ Idle.token = 0 /\ Idle.cookie = 0
         /\ tokens \in Seq(Token) /\ Len(tokens) \in Nat
         /\ MaxTokens \in Nat /\ Len(tokens) <= MaxTokens
  <1>1. Idle \in Local
    BY BoundAssumption DEF Idle, At, Local, Steps
  <1>2. Len(tokens) \in Nat
    BY DEF TypeOK
  <1>3. WellFormed(Idle)
    BY <1>2 DEF Idle, At, WellFormed
  <1> QED
    BY <1>1, <1>2, <1>3, BoundAssumption DEF TypeOK, Local, WellFormed, Idle, At

\* A request that moves on keeps the types if what it carries has them.
LEMMA Moved ==
  ASSUME TypeOK, NEW r \in Requests, NEW x \in Local, WellFormed(x),
         req' = [req EXCEPT ![r] = x], UNCHANGED <<now, tokens>>,
         accounts' \subseteq Users, black' \in [Jti -> Nat],
         revoked' \in [Users -> [after : Nat, until : Nat]]
  PROVE  TypeOK'
  <1>1. /\ req \in [Requests -> Local] /\ \A s \in Requests : WellFormed(req[s])
    BY LocalType
  <1>2. /\ req' \in [Requests -> Local] /\ \A s \in Requests : WellFormed(req'[s])
    BY <1>1
  <1> QED
    BY <1>2 DEF TypeOK, Local, WellFormed

\* A request that goes on to another step carries what it did.
LEMMA Gone ==
  ASSUME TypeOK, NEW r \in Requests, NEW step \in Steps, Goto(r, step),
         req[r].step \notin {"idle", "issue"}, step = "cookie" => req[r].cookie # 0
  PROVE  \E x \in Local :
            /\ WellFormed(x) /\ req' = [req EXCEPT ![r] = x]
            /\ x.step = step /\ x.user = req[r].user /\ x.token = req[r].token
            /\ x.cookie = req[r].cookie /\ x.sent = req[r].sent
  <1> DEFINE x == [req[r] EXCEPT !.step = step]
  <1>1. req \in [Requests -> Local] /\ WellFormed(req[r])
    BY LocalType
  <1>2. /\ x \in Local /\ x.step = step /\ x.user = req[r].user /\ x.token = req[r].token
        /\ x.cookie = req[r].cookie /\ x.sent = req[r].sent
    BY <1>1 DEF Local
  <1>3. req' = [req EXCEPT ![r] = x]
    BY <1>1 DEF Goto, Local
  <1>4. WellFormed(x)
    BY <1>1, <1>2 DEF WellFormed
  <1> QED
    BY <1>2, <1>3, <1>4

LEMMA AtType ==
  ASSUME TypeOK, NEW step \in Steps, NEW u \in Users, NEW j \in 0..MaxTokens,
         NEW c \in 0..MaxTokens, NEW n \in Nat,
         step \notin {"idle", "issue"} => j \in 1..Len(tokens),
         c <= Len(tokens), step = "cookie" => c # 0
  PROVE  At(step, u, j, c, n) \in Local /\ WellFormed(At(step, u, j, c, n))
  BY DEF At, Local, WellFormed

LEMMA BeginType ==
  ASSUME TypeOK, NEW r \in Requests,
         \/ \E u \in Users : Login(r, u) \/ Register(r, u)
         \/ \E j \in Jti, kind \in Kinds : Present(r, j, kind)
         \/ \E j \in Jti, c \in 0..MaxTokens : Logout(r, j, c)
  PROVE  TypeOK'
  <1>1. /\ accounts \subseteq Users /\ black \in [Jti -> Nat]
        /\ revoked \in [Users -> [after : Nat, until : Nat]]
        /\ Len(tokens) \in Nat /\ MaxTokens \in Nat /\ 0 \in 0..MaxTokens
        /\ {"issue", "claim", "logout"} \subseteq Steps
    BY LocalType DEF TypeOK, Steps
  <1>2. \A j \in 1..Len(tokens) : /\ j \in 0..MaxTokens /\ tokens[j].user \in Users
                                 /\ Remaining(j) \in Nat
    BY EndType DEF Token, Jti
  <1>3. ASSUME NEW u \in Users, Login(r, u) \/ Register(r, u)
        PROVE  TypeOK'
    <2> DEFINE x == At("issue", u, 0, 0, 0)
    <2>1. x \in Local /\ WellFormed(x)
      BY <1>1, AtType
    <2>2. req' = [req EXCEPT ![r] = x]
      BY <1>3 DEF Login, Register
    <2> HIDE DEF x
    <2> QED
      BY <1>1, <1>3, <2>1, <2>2, Moved DEF Login, Register
  <1>4. ASSUME NEW j \in Jti, NEW kind \in Kinds, Present(r, j, kind)
        PROVE  TypeOK'
    <2> DEFINE x == At("claim", tokens[j].user, j, 0, Remaining(j))
    <2>1. j \in 1..Len(tokens)
      BY <1>4 DEF Present, Verified
    <2>2. x \in Local /\ WellFormed(x)
      BY <1>1, <1>2, <2>1, AtType
    <2>3. req' = [req EXCEPT ![r] = x]
      BY <1>4 DEF Present
    <2> HIDE DEF x
    <2> QED
      BY <1>1, <1>4, <2>2, <2>3, Moved DEF Present
  <1>5. ASSUME NEW j \in Jti, NEW c \in 0..MaxTokens, Logout(r, j, c)
        PROVE  TypeOK'
    <2> DEFINE x == At("logout", tokens[j].user, j, c, 0)
    <2>1. j \in 1..Len(tokens) /\ c <= Len(tokens)
      BY <1>1, <1>5 DEF Logout, Honoured, Verified
    <2>2. x \in Local /\ WellFormed(x)
      BY <1>1, <1>2, <2>1, AtType
    <2>3. req' = [req EXCEPT ![r] = x]
      BY <1>5 DEF Logout
    <2> HIDE DEF x
    <2> QED
      BY <1>1, <1>5, <2>2, <2>3, Moved DEF Logout
  <1> QED
    BY <1>3, <1>4, <1>5

\* The tokens signed so far stay what and where they are.
LEMMA Joined ==
  ASSUME NEW s \in Seq(Token), NEW t \in Seq(Token)
  PROVE  /\ s \o t \in Seq(Token) /\ Len(s \o t) = Len(s) + Len(t)
         /\ \A i \in 1..Len(s) : (s \o t)[i] = s[i]
         /\ \A i \in 1..Len(t) : (s \o t)[Len(s) + i] = t[i]
  OBVIOUS

LEMMA SignType ==
  ASSUME TypeOK,
         \/ \E r \in Requests : IssueTokens(r)
         \/ \E u \in Users : ForgotPassword(u)
  PROVE  TypeOK'
  <1>1. ASSUME NEW r \in Requests, IssueTokens(r)
        PROVE  TypeOK'
    <2> DEFINE new == <<NewToken("refresh", req[r].user, req[r].token),
                        NewToken("access", req[r].user, req[r].token)>>
    <2>1. req[r].user \in Users /\ req[r].token \in Nat
      BY <1>1, BoundAssumption DEF IssueTokens, TypeOK
    <2>2. new \in Seq(Token) /\ Len(new) = 2
      BY <2>1, NewTokenType DEF Kinds
    <2> HIDE DEF new
    <2>3. tokens' = tokens \o new /\ Len(tokens) + 2 <= MaxTokens
      BY <1>1 DEF IssueTokens, new
    <2>4. tokens' \in Seq(Token) /\ Len(tokens') = Len(tokens) + 2
      <3>1. tokens \in Seq(Token)
        BY LocalType
      <3>2. tokens \o new \in Seq(Token) /\ Len(tokens \o new) = Len(tokens) + Len(new)
        BY <2>2, <3>1, Joined
      <3> QED
        BY <2>2, <2>3, <3>2
    <2>5. /\ req' \in [Requests -> Local]
          /\ \A s \in Requests : req'[s] = req[s] \/ req'[s] = Idle
      BY <1>1, LocalType DEF IssueTokens, Finish
    <2>6. \A s \in Requests : WellFormed(req[s])'
      <3>1. Len(tokens) \in Nat /\ \A s \in Requests : WellFormed(req[s]) /\ req[s] \in Local
        BY LocalType
      <3>2. WellFormed(Idle)'
        BY <2>4, <3>1 DEF Idle, At, WellFormed
      <3>3. ASSUME NEW s \in Requests PROVE (\A x \in Local : WellFormed(x) => WellFormed(x)')
        BY <2>4, <3>1 DEF WellFormed, Local
      <3> QED
        BY <2>5, <3>1, <3>2, <3>3 DEF WellFormed
    <2> QED
      BY <1>1, <2>3, <2>4, <2>5, <2>6 DEF IssueTokens, TypeOK, Local, WellFormed
  <1>2. ASSUME NEW u \in Users, ForgotPassword(u)
        PROVE  TypeOK'
    <2>1. NewToken("reset", u, 0) \in Token
      BY NewTokenType DEF Kinds
    <2>2. tokens' \in Seq(Token) /\ Len(tokens') = Len(tokens) + 1
      BY <1>2, <2>1 DEF ForgotPassword, TypeOK
    <2> QED
      BY <1>2, <2>2, BoundAssumption DEF ForgotPassword, TypeOK
  <1> QED
    BY <1>1, <1>2

LEMMA CommandType ==
  ASSUME TypeOK, NEW r \in Requests,
         \/ ClaimToken(r) \/ SetPassword(r) \/ RevokeSessions(r) \/ ResetFails(r)
         \/ ReleaseToken(r) \/ LogoutAccess(r) \/ LogoutRefresh(r) \/ Lost(r)
  PROVE  TypeOK'
  <1>1. /\ accounts \subseteq Users /\ black \in [Jti -> Nat] /\ now \in Nat
        /\ revoked \in [Users -> [after : Nat, until : Nat]]
        /\ req[r] \in Local /\ WellFormed(req[r]) /\ req[r].sent \in Nat
    BY LocalType DEF TypeOK, Local
  <1>2. /\ now + req[r].sent * T \in Nat /\ now + RefreshLife * T \in Nat
        /\ \A j \in 1..Len(tokens) : now + Remaining(j) * T \in Nat
    <2>1. \A j \in 1..Len(tokens) : Remaining(j) \in Nat
      BY EndType
    <2>2. /\ req[r].sent * T \in Nat /\ RefreshLife * T \in Nat
          /\ \A j \in 1..Len(tokens) : Remaining(j) * T \in Nat
      BY <1>1, <2>1, InTicks, TimeAssumption
    <2> QED
      BY <1>1, <2>2
  <1>3. ASSUME Finish(r), UNCHANGED <<now, tokens, accounts>>, black' \in [Jti -> Nat],
               revoked' \in [Users -> [after : Nat, until : Nat]]
        PROVE  TypeOK'
    BY <1>1, <1>3, LocalType, Moved DEF Finish
  <1>4. ASSUME NEW step \in Steps, Goto(r, step), UNCHANGED <<now, tokens, accounts>>,
               req[r].step \notin {"idle", "issue"}, step = "cookie" => req[r].cookie # 0,
               black' \in [Jti -> Nat],
               revoked' \in [Users -> [after : Nat, until : Nat]]
        PROVE  TypeOK'
    BY <1>1, <1>4, Gone, Moved
  <1>5. CASE ClaimToken(r)
    <2>1. black' \in [Jti -> Nat]
      BY <1>1, <1>2, <1>5 DEF ClaimToken, T
    <2> QED
      BY <1>1, <1>3, <1>4, <1>5, <2>1 DEF ClaimToken, Steps
  <1>6. CASE SetPassword(r)
    <2> DEFINE x == [req[r] EXCEPT !.step = "revoke", !.sent = now]
    <2>1. x \in Local /\ WellFormed(x)
      BY <1>1, <1>6 DEF SetPassword, Local, WellFormed, Steps
    <2>2. req' = [req EXCEPT ![r] = x]
      BY <1>6, LocalType DEF SetPassword, Local
    <2> QED
      BY <1>1, <1>6, <2>1, <2>2, Moved DEF SetPassword
  <1>7. CASE RevokeSessions(r)
    <2>1. revoked' \in [Users -> [after : Nat, until : Nat]]
      BY <1>1, <1>2, <1>7 DEF RevokeSessions, T
    <2> QED
      BY <1>1, <1>3, <1>4, <1>7, <2>1 DEF RevokeSessions, Steps
  <1>8. CASE ResetFails(r)
    BY <1>1, <1>4, <1>8 DEF ResetFails, Steps
  <1>9. CASE ReleaseToken(r)
    <2>1. black' \in [Jti -> Nat]
      BY <1>1, <1>9 DEF ReleaseToken
    <2> QED
      BY <1>1, <1>3, <1>9, <2>1 DEF ReleaseToken
  <1>10. CASE LogoutAccess(r)
    <2>1. req[r].token \in 1..Len(tokens)
      BY <1>1, <1>10 DEF LogoutAccess, WellFormed
    <2>2. black' \in [Jti -> Nat]
      BY <1>1, <1>2, <1>10, <2>1 DEF LogoutAccess, BlacklistToken, T
    <2> QED
      BY <1>1, <1>3, <1>4, <1>10, <2>2 DEF LogoutAccess, Steps
  <1>11. CASE LogoutRefresh(r)
    <2>1. req[r].cookie \in 1..Len(tokens)
      BY <1>1, <1>11, LocalType DEF LogoutRefresh, WellFormed, Local
    <2>2. black' \in [Jti -> Nat]
      BY <1>1, <1>2, <1>11, <2>1 DEF LogoutRefresh, BlacklistToken, T
    <2> QED
      BY <1>1, <1>3, <1>11, <2>2 DEF LogoutRefresh
  <1>12. CASE Lost(r)
    BY <1>1, <1>3, <1>12 DEF Lost
  <1> QED
    BY <1>5, <1>6, <1>7, <1>8, <1>9, <1>10, <1>11, <1>12

LEMMA NextType == TypeOK /\ [Next]_vars => TypeOK'
  <1> SUFFICES ASSUME TypeOK, [Next]_vars PROVE TypeOK'
    OBVIOUS
  <1>1. ASSUME NEW r \in Requests,
               \/ SignIn(r) \/ Refresh(r) \/ ResetPassword(r)
               \/ \E j \in Jti, c \in 0..MaxTokens : Logout(r, j, c)
        PROVE  TypeOK'
    BY <1>1, BeginType DEF SignIn, Refresh, ResetPassword, Kinds
  <1>2. CASE Tick
    BY <1>2 DEF Tick, TypeOK
  <1>3. CASE UNCHANGED vars
    BY <1>3 DEF vars, TypeOK
  <1> QED
    BY <1>1, <1>2, <1>3, SignType, CommandType DEF Next

\* Accounts, tokens, keys and what requests carry keep their types, for every
\* set of accounts and requests (a claim's time to live is never negative).
THEOREM TypeCorrect == Spec => []TypeOK
  BY InitType, NextType, PTL DEF Spec
-----------------------------------------------------------------------------
(* The invariant is kept: what every step leaves alone.                    *)

\* No step takes a token back, turns the clock back or drops the entry of a
\* refresh token.
Steady ==
    /\ Len(tokens) <= Len(tokens') /\ now <= now'
    /\ \A j \in 1..Len(tokens) :
        /\ tokens'[j] = tokens[j]
        /\ KindOf(j) = "refresh" /\ Entered(j) => Entered(j)'

LEMMA Settled ==
  ASSUME TypeOK, TypeOK', Steady, NEW j \in 1..Len(tokens)
  PROVE  /\ j \in 1..Len(tokens') /\ KindOf(j)' = KindOf(j) /\ End(j)' = End(j)
         /\ LastSecond(j) => LastSecond(j)'
  <1>1. /\ Len(tokens) \in Nat /\ Len(tokens') \in Nat /\ now \in Nat /\ now' \in Nat
    BY DEF TypeOK
  <1>2. End(j) \in Nat
    BY EndType
  <1>3. End(j)' = End(j) /\ KindOf(j)' = KindOf(j)
    BY DEF Steady, End, KindOf
  <1> QED
    BY <1>1, <1>2, <1>3, TimeAssumption DEF Steady, LastSecond

\* A request that a step leaves alone still holds what it held.
LEMMA HoldsOn ==
  ASSUME TypeOK, TypeOK', Steady, NEW s \in Requests, req'[s] = req[s], Holds(s),
         req[s].step \in Resetting /\ Entered(req[s].token) =>
            Entered(req[s].token)' \/ LastSecond(req[s].token)'
  PROVE  Holds(s)'
  <1> DEFINE j == req[s].token
  <1>1. /\ req[s].step \notin {"idle", "issue"} => j \in 1..Len(tokens)
        /\ req[s].sent \in Nat /\ now \in Nat /\ now' \in Nat /\ now <= now'
        /\ req[s].sent * T \in Nat
    BY InTicks DEF TypeOK, Steady
  <1>2. req[s].step \in Resetting => req[s].step \notin {"idle", "issue"}
    BY DEF Resetting
  <1>3. j \in 1..Len(tokens) =>
            /\ j \in 1..Len(tokens') /\ KindOf(j)' = KindOf(j) /\ End(j)' = End(j)
            /\ LastSecond(j) => LastSecond(j)'
            /\ KindOf(j) = "refresh" /\ Entered(j) => Entered(j)'
            /\ End(j) \in Nat
    BY Settled, EndType DEF Steady
  <1>4. T \in Nat
    BY TimeAssumption DEF T
  <1>5. req[s].step = "claim" =>
            /\ KindOf(j)' \in {"refresh", "reset"}
            /\ req[s].sent # 0 /\ now' + req[s].sent * T + T > End(j)'
    <2> DEFINE life == req[s].sent * T
    <2>1. req[s].step = "claim" =>
            /\ j \in 1..Len(tokens) /\ KindOf(j) \in {"refresh", "reset"}
            /\ req[s].sent # 0 /\ now + life + T > End(j)
      BY <1>1 DEF Holds
    <2>2. life \in Nat /\ now \in Nat /\ now' \in Nat /\ now <= now'
      BY <1>1
    <2> HIDE DEF life
    <2>3. req[s].step = "claim" => KindOf(j)' = KindOf(j) /\ End(j)' = End(j) /\ End(j) \in Nat
      BY <1>3, <2>1
    <2>4. req[s].step = "claim" => now' + life + T > End(j)
      BY <1>4, <2>1, <2>2, <2>3
    <2> QED
      BY <2>1, <2>3, <2>4 DEF life
  <1>6. req[s].step = "issue" /\ j # 0 =>
            j \in 1..Len(tokens') /\ KindOf(j)' = "refresh" /\ Entered(j)'
    BY <1>3 DEF Holds
  <1>7. req[s].step \in Resetting =>
            KindOf(j)' = "reset" /\ (Entered(j)' \/ LastSecond(j)')
    BY <1>1, <1>2, <1>3 DEF Holds
  <1>8. req[s].step = "revoke" => req[s].sent <= now'
    BY <1>1 DEF Holds
  <1>9. KindOf(req[s].token)' = KindOf(j)' /\ Entered(req[s].token)' = Entered(j)'
    OBVIOUS
  <1> QED
    BY <1>5, <1>6, <1>7, <1>8 DEF Holds, KindOf, Entered, End, LastSecond

\* The tokens there were stay well signed.
LEMMA SignedOn ==
  ASSUME TypeOK, TypeOK', Steady, Signed, NEW j \in 1..Len(tokens)
  PROVE  WellSigned(j)'
  <1>1. /\ tokens'[j] = tokens[j] /\ KindOf(j)' = KindOf(j) /\ tokens[j].iat \in Nat
        /\ now \in Nat /\ now' \in Nat /\ now <= now'
    BY EndType, Settled DEF Steady, Token, TypeOK
  <1>2. ASSUME tokens[j].parent # 0
        PROVE  \E p \in 1..Len(tokens') : /\ p = tokens[j].parent
                                         /\ KindOf(p)' = "refresh" /\ Entered(p)'
    <2>1. PICK p \in 1..Len(tokens) : /\ p = tokens[j].parent
                                      /\ KindOf(p) = "refresh" /\ Entered(p)
      BY <1>2 DEF Signed, WellSigned
    <2>2. p \in 1..Len(tokens') /\ KindOf(p)' = "refresh" /\ Entered(p)'
      BY <2>1, Settled DEF Steady
    <2> QED
      BY <2>1, <2>2
  <1>3. /\ tokens[j].iat <= now'
        /\ tokens[j].exp = (tokens[j].iat \div TicksPerSecond) + Lifetime(KindOf(j))
    BY <1>1 DEF Signed, WellSigned
  <1> QED
    BY <1>1, <1>2, <1>3 DEF WellSigned, KindOf, Entered
-----------------------------------------------------------------------------
(* The invariant is kept: requests.                                        *)

\* Where a request may go without looking at the others: it carries on with
\* the token it works with, or takes one that nobody works with.
Entitled(r) ==
    LET j == req'[r].token
    IN  \/ req'[r].step \notin Resetting \cup {"issue"}
        \/ req'[r].step = "issue" /\ j = 0
        \/ req'[r].step \in Resetting /\ req[r].step \in Resetting /\ req[r].token = j
        \/ j \in 1..Len(tokens) /\ (Entered(j) => LastSecond(j))

\* A step of one request keeps what is said of its exchange and its link.
LEMMA OneRequest ==
  ASSUME IInv, TypeOK', Steady, UNCHANGED tokens,
         NEW r \in Requests, \A s \in Requests \ {r} : req'[s] = req[s],
         \A s \in Requests \ {r} :
            req[s].step \in Resetting /\ Entered(req[s].token) =>
                Entered(req[s].token)' \/ LastSecond(req[s].token)',
         Holds(r)', Entitled(r), EntriesOutlive', RevocationsOutlive'
  PROVE  IInv'
  <1> DEFINE Late == {j \in 1..Len(tokens) : now' + TicksPerSecond > End(j)}
  <1>0. TypeOK /\ Signed /\ RequestsHold /\ Once /\ LinkHeldByOne
    BY DEF IInv
  <1>1. Signed'
    BY <1>0, SignedOn DEF Signed
  <1>2. RequestsHold'
    BY <1>0, HoldsOn DEF RequestsHold
  <1>3. \A j \in 1..Len(tokens) : LastSecond(j) => j \in Late
    BY <1>0, Settled DEF LastSecond
  <1>4. ASSUME NEW s \in Requests \ {r}, req[s].step \in Resetting \/ Exchanging(s)
        PROVE  /\ req[s].token \in 1..Len(tokens)
               /\ Entered(req[s].token) \/ LastSecond(req[s].token)
    BY <1>0, <1>4 DEF RequestsHold, Holds, Exchanging, TypeOK, Resetting
  <1>5. \A i \in 1..Len(tokens) : IsPair(i) =>
            tokens[i].parent \in 1..Len(tokens) /\ Entered(tokens[i].parent)
    BY <1>0 DEF IsPair, Signed, WellSigned
  <1>6. LinkHeldByOne'
    <2>1. ASSUME NEW a \in Requests \ {r}, NEW b \in Requests \ {r}, a # b,
                 req[a].step \in Resetting, req[b].step \in Resetting,
                 req[a].token = req[b].token
          PROVE  req[a].token \in Late
      BY <1>0, <1>3, <1>4, <2>1 DEF LinkHeldByOne
    <2>2. ASSUME NEW s \in Requests \ {r}, req'[r].step \in Resetting, req[s].step \in Resetting,
                 req'[r].token = req[s].token
          PROVE  req[s].token \in Late
      <3>1. CASE req[r].step \in Resetting /\ req[r].token = req'[r].token
        BY <1>0, <1>3, <1>4, <2>2, <3>1 DEF LinkHeldByOne
      <3>2. CASE Entered(req[s].token) => LastSecond(req[s].token)
        BY <1>3, <1>4, <2>2, <3>2
      <3> QED
        BY <2>2, <3>1, <3>2 DEF Entitled, Resetting
    <2> QED
      BY <2>1, <2>2 DEF LinkHeldByOne, LastSecond, End
  <1>7. Once'
    <2>1. ASSUME NEW i \in 1..Len(tokens), NEW k \in 1..Len(tokens), IsPair(i), IsPair(k),
                 tokens[i].parent = tokens[k].parent, i # k
          PROVE  tokens[i].parent \in Late
      BY <1>0, <1>3, <1>5, <2>1 DEF Once
    <2>2. ASSUME NEW i \in 1..Len(tokens), NEW s \in Requests, IsPair(i), Exchanging(s)',
                 tokens[i].parent = req'[s].token
          PROVE  req'[s].token \in Late
      <3>1. CASE s = r
        BY <1>3, <1>5, <2>2, <3>1 DEF Entitled, Exchanging, Resetting
      <3>2. CASE s # r
        BY <1>0, <1>3, <1>5, <2>2, <3>2 DEF Once, Exchanging
      <3> QED
        BY <3>1, <3>2
    <2>3. ASSUME NEW a \in Requests, NEW b \in Requests \ {r}, a # b,
                 Exchanging(a)', Exchanging(b)', req'[a].token = req'[b].token
          PROVE  req'[a].token \in Late
      <3>1. Exchanging(b) /\ req'[b] = req[b]
        BY <2>3 DEF Exchanging
      <3>2. CASE a = r
        BY <1>3, <1>4, <2>3, <3>1, <3>2 DEF Entitled, Exchanging, Resetting
      <3>3. CASE a # r
        BY <1>0, <1>3, <1>4, <2>3, <3>1, <3>3 DEF Once, Exchanging
      <3> QED
        BY <3>2, <3>3
    <2>4. ASSUME NEW a \in Requests, NEW b \in Requests, a # b,
                 Exchanging(a)', Exchanging(b)', req'[a].token = req'[b].token
          PROVE  req'[a].token \in Late
      BY <2>3, <2>4
    <2> QED
      BY <2>1, <2>2, <2>4 DEF Once, IsPair, KindOf, LastSecond, End, Exchanging
  <1> QED
    BY <1>1, <1>2, <1>6, <1>7 DEF IInv
\* Signing leaves all but Once as it is, if what is signed is well signed.
LEMMA Signing ==
  ASSUME IInv, TypeOK', Steady, UNCHANGED <<now, black, revoked>>,
         \A s \in Requests : req'[s] = req[s] \/ req'[s] = Idle,
         \A j \in 1..Len(tokens') : j \in 1..Len(tokens) \/ WellSigned(j)'
  PROVE  /\ Signed' /\ EntriesOutlive' /\ RevocationsOutlive' /\ RequestsHold'
         /\ LinkHeldByOne'
  <1>0. /\ TypeOK /\ Signed /\ RequestsHold /\ LinkHeldByOne /\ EntriesOutlive
        /\ RevocationsOutlive
    BY DEF IInv
  <1>1. Signed'
    BY <1>0, SignedOn DEF Signed
  <1>2. EntriesOutlive'
    BY <1>0, Settled DEF EntriesOutlive, Entered, End
  <1>3. RevocationsOutlive'
    BY <1>0 DEF RevocationsOutlive
  <1>4. RequestsHold'
    <2> SUFFICES ASSUME NEW s \in Requests PROVE Holds(s)'
      BY DEF RequestsHold
    <2>1. CASE req'[s] = req[s]
      BY <1>0, <2>1, HoldsOn DEF RequestsHold, Entered
    <2>2. CASE req'[s] = Idle
      <3>1. req'[s].step = "idle"
        BY <2>2 DEF Idle, At
      <3> QED
        BY <3>1 DEF Holds, Resetting
    <2> QED
      BY <2>1, <2>2
  <1>5. LinkHeldByOne'
    <2>1. \A s \in Requests : req'[s].step \in Resetting =>
                /\ req'[s] = req[s] /\ req[s].token \in 1..Len(tokens)
      BY <1>0 DEF Idle, At, Resetting, TypeOK
    <2>2. \A j \in 1..Len(tokens) : LastSecond(j) => now' + TicksPerSecond > tokens'[j].exp * TicksPerSecond
      BY <1>0, Settled DEF LastSecond, End
    <2> QED
      BY <1>0, <2>1, <2>2 DEF LinkHeldByOne, LastSecond, End
  <1> QED
    BY <1>1, <1>2, <1>3, <1>4, <1>5

\* A token that was just signed, in exchange for a claimed one or for none.
LEMMA NewIsSigned ==
  ASSUME IInv, Steady, TypeOK', NEW i \in 1..Len(tokens'), UNCHANGED now,
         NEW kind \in Kinds, NEW u \in Users,
         NEW p, tokens'[i] = NewToken(kind, u, p),
         p # 0 => p \in 1..Len(tokens) /\ KindOf(p) = "refresh" /\ Entered(p)
  PROVE  WellSigned(i)' /\ KindOf(i)' = kind /\ tokens'[i].parent = p
  <1>1. /\ tokens'[i].iat = now /\ tokens'[i].parent = p /\ tokens'[i].kind = kind
        /\ tokens'[i].exp = (now \div TicksPerSecond) + Lifetime(kind)
    BY DEF NewToken
  <1>2. now \in Nat
    BY DEF IInv, TypeOK
  <1>3. p # 0 => p \in 1..Len(tokens') /\ KindOf(p)' = "refresh" /\ Entered(p)'
    BY Settled DEF IInv, Steady
  <1> QED
    BY <1>1, <1>2, <1>3 DEF WellSigned, KindOf, Entered

LEMMA IssueInv ==
  ASSUME IInv, TypeOK', NEW r \in Requests, IssueTokens(r)
  PROVE  IInv'
  <1>n. PICK n : n = Len(tokens)
    OBVIOUS
  <1> DEFINE p == req[r].token
             a == NewToken("refresh", req[r].user, p)
             b == NewToken("access", req[r].user, p)
  <1>0. TypeOK /\ Signed /\ RequestsHold /\ Once
    BY DEF IInv
  <1>1. /\ req[r].step = "issue" /\ req[r].user \in Users /\ p \in Nat /\ n \in Nat
        /\ p # 0 => p \in 1..n /\ KindOf(p) = "refresh" /\ Entered(p)
    BY <1>n, <1>0, BoundAssumption DEF IssueTokens, TypeOK, RequestsHold, Holds
  <1>2. a \in Token /\ b \in Token
    BY <1>0, <1>1, NewTokenType DEF Kinds
  <1> HIDE DEF a, b
  <1>3. tokens' = tokens \o <<a, b>>
    BY DEF IssueTokens, a, b
  <1>4. /\ Len(tokens') = n + 2 /\ \A i \in 1..n : tokens'[i] = tokens[i]
        /\ tokens'[n + 1] = a /\ tokens'[n + 2] = b
    <2>1. <<a, b>> \in Seq(Token) /\ Len(<<a, b>>) = 2 /\ <<a, b>>[1] = a /\ <<a, b>>[2] = b
      BY <1>2
    <2>2. tokens \in Seq(Token)
      BY <1>0, LocalType
    <2> QED
      BY <1>n, <1>3, <2>1, <2>2, Joined
  <1>5. UNCHANGED <<now, black, revoked>> /\ now <= now' /\ now \in Nat
    BY <1>0 DEF IssueTokens, TypeOK
  <1>6. Steady
    BY <1>n, <1>1, <1>4, <1>5 DEF Steady, Entered
  <1>7. /\ WellSigned(n + 1)' /\ KindOf(n + 1)' = "refresh" /\ tokens'[n + 1].parent = p
        /\ WellSigned(n + 2)' /\ KindOf(n + 2)' = "access"
    BY <1>n, <1>1, <1>4, <1>5, <1>6, NewIsSigned DEF a, b, Kinds
  <1>8. /\ req'[r].step = "idle" /\ req'[r] = Idle
        /\ \A s \in Requests \ {r} : req'[s] = req[s]
    BY <1>0, LocalType DEF IssueTokens, Finish
  <1>9. \A j \in 1..Len(tokens') : j \in 1..n \/ j = n + 1 \/ j = n + 2
    BY <1>1, <1>4
  <1>10. /\ Signed' /\ EntriesOutlive' /\ RevocationsOutlive' /\ RequestsHold'
         /\ LinkHeldByOne'
    BY <1>n, <1>5, <1>6, <1>7, <1>8, <1>9, Signing
  <1>11. Once'
    <2> DEFINE Late == {j \in 1..n : now' + TicksPerSecond > End(j)}
               Pair(i) == i \in 1..n /\ IsPair(i)
    <2>1. \A j \in 1..n : (LastSecond(j) => j \in Late) /\ (j \in Late => LastSecond(j)')
      BY <1>n, <1>5, <1>6, <1>0, Settled DEF LastSecond
    <2>2. \A i \in 1..n + 2 : IsPair(i)' <=> Pair(i) \/ (i = n + 1 /\ p # 0)
      BY <1>n, <1>1, <1>4, <1>7, <1>9 DEF IsPair, KindOf
    <2>3. \A i \in 1..n : Pair(i) => tokens[i].parent \in 1..n
      BY <1>n, <1>0 DEF IsPair, Signed, WellSigned
    <2>4. \A s \in Requests : Exchanging(s)' <=> s # r /\ Exchanging(s)
      BY <1>8 DEF Exchanging
    <2>5. p # 0 => Exchanging(r)
      BY <1>1 DEF Exchanging
    <2>6. ASSUME NEW i \in 1..n + 2, NEW k \in 1..n + 2, IsPair(i)', IsPair(k)', i # k,
                 tokens'[i].parent = tokens'[k].parent
          PROVE  tokens'[i].parent \in Late
      BY <1>n, <1>0, <1>4, <1>7, <2>1, <2>2, <2>3, <2>5, <2>6 DEF Once
    <2>7. ASSUME NEW i \in 1..n + 2, NEW s \in Requests, IsPair(i)', Exchanging(s)',
                 tokens'[i].parent = req[s].token
          PROVE  tokens'[i].parent \in Late
      BY <1>n, <1>0, <1>1, <1>4, <1>7, <2>1, <2>2, <2>3, <2>4, <2>5, <2>7 DEF Once
    <2>8. ASSUME NEW s \in Requests, NEW q \in Requests, s # q, Exchanging(s)', Exchanging(q)',
                 req[s].token = req[q].token
          PROVE  req[s].token \in Late
      <3>1. req[s].token \in 1..n
        BY <1>n, <1>0, <2>4, <2>8 DEF Exchanging, RequestsHold, Holds
      <3> QED
        BY <1>0, <2>1, <2>4, <2>8, <3>1 DEF Once
    <2>9. \A j \in Late : j \in 1..n /\ now' + TicksPerSecond > tokens'[j].exp * TicksPerSecond
      BY <1>4 DEF End
    <2> HIDE DEF Late
    <2> QED
      BY <1>4, <1>8, <2>4, <2>6, <2>7, <2>8, <2>9 DEF Once, LastSecond, End
  <1> QED
    BY <1>10, <1>11 DEF IInv

LEMMA ForgotInv ==
  ASSUME IInv, TypeOK', NEW u \in Users, ForgotPassword(u)
  PROVE  IInv'
  <1>n. PICK n : n = Len(tokens)
    OBVIOUS
  <1> DEFINE a == NewToken("reset", u, 0)
  <1>0. TypeOK /\ Signed /\ RequestsHold /\ Once
    BY DEF IInv
  <1>1. a \in Token /\ n \in Nat /\ tokens \in Seq(Token)
    BY <1>n, <1>0, NewTokenType, LocalType, BoundAssumption DEF Kinds
  <1> HIDE DEF a
  <1>2. tokens' = Append(tokens, a)
    BY DEF ForgotPassword, a
  <1>3. /\ Len(tokens') = n + 1 /\ \A i \in 1..n : tokens'[i] = tokens[i]
        /\ tokens'[n + 1] = a
    BY <1>n, <1>1, <1>2
  <1>4. UNCHANGED <<now, black, revoked, req>> /\ now <= now' /\ now \in Nat
    BY <1>0 DEF ForgotPassword, TypeOK
  <1>5. Steady
    BY <1>n, <1>1, <1>3, <1>4 DEF Steady, Entered
  <1>6. WellSigned(n + 1)' /\ KindOf(n + 1)' = "reset" /\ tokens'[n + 1].parent = 0
    BY <1>1, <1>3, <1>4, <1>5, NewIsSigned DEF a, Kinds
  <1>7. \A j \in 1..Len(tokens') : j \in 1..n \/ j = n + 1
    BY <1>1, <1>3
  <1>8. /\ Signed' /\ EntriesOutlive' /\ RevocationsOutlive' /\ RequestsHold'
        /\ LinkHeldByOne'
    BY <1>n, <1>4, <1>5, <1>6, <1>7, Signing
  <1>9. Once'
    <2>1. \A j \in 1..n : LastSecond(j) =>
            now' + TicksPerSecond > tokens'[j].exp * TicksPerSecond
      BY <1>3, <1>4 DEF LastSecond, End
    <2>2. \A i \in 1..n + 1 : IsPair(i)' <=> i \in 1..n /\ IsPair(i)
      BY <1>n, <1>1, <1>3, <1>6, <1>7 DEF IsPair, KindOf
    <2>3. \A i \in 1..n : IsPair(i) => tokens[i].parent \in 1..n
      BY <1>n, <1>0 DEF IsPair, Signed, WellSigned
    <2>4. \A s \in Requests : Exchanging(s) => req[s].token \in 1..n
      BY <1>n, <1>0 DEF Exchanging, RequestsHold, Holds
    <2> QED
      BY <1>n, <1>0, <1>3, <1>4, <2>1, <2>2, <2>3, <2>4 DEF Once, LastSecond, End, Exchanging
  <1> QED
    BY <1>8, <1>9 DEF IInv
\* A request that only moves.
LEMMA OnlyMoves ==
  ASSUME IInv, TypeOK', UNCHANGED <<now, tokens, black, revoked>>,
         NEW r \in Requests, \A s \in Requests \ {r} : req'[s] = req[s],
         Holds(r)', Entitled(r)
  PROVE  IInv'
  <1>1. Steady
    BY DEF IInv, TypeOK, Steady, Entered
  <1>2. EntriesOutlive' /\ RevocationsOutlive'
    BY DEF IInv, EntriesOutlive, RevocationsOutlive, Entered, End
  <1> QED
    BY <1>1, <1>2, OneRequest DEF Entered

\* A request that ends holds nothing.
LEMMA IdleHolds ==
  ASSUME NEW r \in Requests, req'[r] = Idle
  PROVE  Holds(r)' /\ Entitled(r)
  <1>1. req'[r].step = "idle"
    BY DEF Idle, At
  <1> QED
    BY <1>1 DEF Holds, Entitled, Resetting

LEMMA BeginInv ==
  ASSUME IInv, TypeOK', NEW r \in Requests,
         \/ \E u \in Users : Login(r, u) \/ Register(r, u)
         \/ \E j \in Jti : Present(r, j, "refresh") \/ Present(r, j, "reset")
         \/ \E j \in Jti, c \in 0..MaxTokens : Logout(r, j, c)
  PROVE  IInv'
  <1>0. TypeOK /\ req \in [Requests -> Local]
    BY LocalType DEF IInv
  <1>1. ASSUME NEW u \in Users, Login(r, u) \/ Register(r, u)
        PROVE  IInv'
    <2>1. /\ req'[r] = At("issue", u, 0, 0, 0) /\ \A s \in Requests \ {r} : req'[s] = req[s]
          /\ UNCHANGED <<now, tokens, black, revoked>>
      BY <1>0, <1>1 DEF Login, Register
    <2>2. req'[r].step = "issue" /\ req'[r].token = 0
      BY <2>1 DEF At
    <2>3. Holds(r)' /\ Entitled(r)
      BY <2>2 DEF Holds, Entitled, Resetting
    <2> QED
      BY <2>1, <2>3, OnlyMoves
  <1>2. ASSUME NEW j \in Jti, NEW kind \in {"refresh", "reset"}, Present(r, j, kind)
        PROVE  IInv'
    <2>1. /\ req'[r] = At("claim", tokens[j].user, j, 0, Remaining(j))
          /\ \A s \in Requests \ {r} : req'[s] = req[s]
          /\ UNCHANGED <<now, tokens, black, revoked>>
      BY <1>0, <1>2 DEF Present
    <2>2. j \in 1..Len(tokens) /\ KindOf(j) = kind /\ Remaining(j) > 0
      BY <1>2 DEF Present, Verified, KindOf
    <2>3. req'[r].step = "claim" /\ req'[r].token = j /\ req'[r].sent = Remaining(j)
      BY <2>1 DEF At
    <2>4. now + Remaining(j) * T + T > End(j) /\ Remaining(j) # 0
      BY <1>0, <2>2, EndType
    <2>5. /\ KindOf(j)' = kind /\ Remaining(j) # 0
          /\ now' + Remaining(j) * T + T > End(j)'
      BY <2>1, <2>2, <2>4 DEF KindOf, End
    <2>6. Holds(r)' /\ Entitled(r)
      BY <2>3, <2>5 DEF Holds, Entitled, Resetting, KindOf, End
    <2> QED
      BY <2>1, <2>6, OnlyMoves
  <1>3. ASSUME NEW j \in Jti, NEW c \in 0..MaxTokens, Logout(r, j, c)
        PROVE  IInv'
    <2>1. /\ req'[r] = At("logout", tokens[j].user, j, c, 0)
          /\ \A s \in Requests \ {r} : req'[s] = req[s]
          /\ UNCHANGED <<now, tokens, black, revoked>>
      BY <1>0, <1>3 DEF Logout
    <2>2. req'[r].step = "logout"
      BY <2>1 DEF At
    <2>3. Holds(r)' /\ Entitled(r)
      BY <2>2 DEF Holds, Entitled, Resetting
    <2> QED
      BY <2>1, <2>3, OnlyMoves
  <1> QED
    BY <1>1, <1>2, <1>3

\* Steps of a reset between its claim and its end, and lost requests.
LEMMA ResetInv ==
  ASSUME IInv, TypeOK', NEW r \in Requests, SetPassword(r) \/ ResetFails(r) \/ Lost(r)
  PROVE  IInv'
  <1>0. TypeOK /\ req \in [Requests -> Local] /\ Holds(r)
    BY LocalType DEF IInv, RequestsHold
  <1>1. CASE Lost(r)
    <2>1. /\ req'[r] = Idle /\ \A s \in Requests \ {r} : req'[s] = req[s]
          /\ UNCHANGED <<now, tokens, black, revoked>>
      BY <1>0, <1>1 DEF Lost, Finish
    <2> QED
      BY <2>1, IdleHolds, OnlyMoves
  <1>2. CASE SetPassword(r) \/ ResetFails(r)
    <2>1. /\ req'[r].step \in {"revoke", "release"} /\ req'[r].token = req[r].token
          /\ req'[r].step = "revoke" => req'[r].sent = now
          /\ \A s \in Requests \ {r} : req'[s] = req[s]
          /\ UNCHANGED <<now, tokens, black, revoked>>
          /\ req[r].step \in Resetting
      BY <1>0, <1>2 DEF SetPassword, ResetFails, Goto, Local, Resetting
    <2>2. now \in Nat
      BY <1>0 DEF TypeOK
    <2>3. KindOf(req[r].token) = "reset" /\ (Entered(req[r].token) \/ LastSecond(req[r].token))
      BY <1>0, <2>1 DEF Holds
    <2>4. Holds(r)' /\ Entitled(r)
      BY <2>1, <2>2, <2>3 DEF Holds, Entitled, Resetting, KindOf, Entered, LastSecond, End
    <2> QED
      BY <2>1, <2>4, OnlyMoves
  <1> QED
    BY <1>1, <1>2

\* The timestamp was taken before the command landed.
LEMMA RevokeInv ==
  ASSUME IInv, TypeOK', NEW r \in Requests, RevokeSessions(r)
  PROVE  IInv'
  <1>0. TypeOK /\ req \in [Requests -> Local] /\ Holds(r)
    BY LocalType DEF IInv, RequestsHold
  <1>1. /\ req[r].step = "revoke" /\ req[r].sent <= now /\ req[r].sent \in Nat /\ now \in Nat
        /\ UNCHANGED <<now, tokens, black>> /\ \A s \in Requests \ {r} : req'[s] = req[s]
    BY <1>0 DEF RevokeSessions, Holds, Finish, Goto, TypeOK
  <1>2. RevocationsOutlive'
    <2> DEFINE life == RefreshLife * T
    <2>1. life \in Nat
      BY InTicks, TimeAssumption
    <2>2. revoked' = [revoked EXCEPT ![req[r].user] = [after |-> req[r].sent, until |-> now + life]]
      BY DEF RevokeSessions, T
    <2> HIDE DEF life
    <2>3. ASSUME NEW u \in Users, revoked'[u].after # 0
          PROVE  revoked'[u].after + life <= revoked'[u].until
      BY <1>0, <1>1, <2>1, <2>2, <2>3 DEF IInv, RevocationsOutlive, TypeOK, life
    <2> QED
      BY <2>3 DEF RevocationsOutlive, life
  <1>3. Steady
    BY <1>0, <1>1 DEF Steady, TypeOK, Entered
  <1>4. EntriesOutlive'
    BY <1>1 DEF IInv, EntriesOutlive, Entered, End
  <1>5. Holds(r)' /\ Entitled(r)
    <2>1. CASE Finish(r)
      BY <1>0, <2>1, IdleHolds DEF Finish
    <2>2. CASE Goto(r, "release")
      <3>1. req'[r].step = "release" /\ req'[r].token = req[r].token
        BY <1>0, <2>2 DEF Goto, Local
      <3>2. KindOf(req[r].token) = "reset" /\ (Entered(req[r].token) \/ LastSecond(req[r].token))
        BY <1>0, <1>1 DEF Holds, Resetting
      <3> QED
        BY <1>1, <3>1, <3>2 DEF Holds, Entitled, Resetting, KindOf, Entered, LastSecond, End
    <2> QED
      BY <2>1, <2>2 DEF RevokeSessions
  <1> QED
    BY <1>1, <1>2, <1>3, <1>4, <1>5, OneRequest DEF Entered
-----------------------------------------------------------------------------
(* The invariant is kept: the blacklist and time.                          *)

\* An entry that is written takes none away.
LEMMA EntryWritten ==
  ASSUME IInv, UNCHANGED <<now, tokens>>, NEW j \in 1..Len(tokens),
         NEW x \in Nat \ {0}, x + T > End(j), black' = [black EXCEPT ![j] = x]
  PROVE  /\ EntriesOutlive' /\ Steady /\ Entered(j)'
         /\ \A k \in Jti : Entered(k) => Entered(k)'
  <1>0. TypeOK /\ EntriesOutlive
    BY DEF IInv
  <1>1. /\ j \in Jti /\ black \in [Jti -> Nat] /\ now \in Nat
        /\ \A k \in 1..Len(tokens) : k \in Jti
    BY <1>0, EndType DEF TypeOK
  <1>2. black'[j] = x /\ \A k \in Jti \ {j} : black'[k] = black[k]
    BY <1>1
  <1>3. /\ Entered(j)' /\ \A k \in Jti : Entered(k) => Entered(k)'
    BY <1>2 DEF Entered
  <1>4. Steady
    BY <1>1, <1>3 DEF Steady, TypeOK
  <1>5. EntriesOutlive'
    <2>1. ASSUME NEW k \in Jti, Entered(k)'
          PROVE  k \in 1..Len(tokens) /\ black'[k] + T > End(k)
      BY <1>0, <1>2, <2>1 DEF EntriesOutlive, Entered
    <2> QED
      BY <2>1 DEF EntriesOutlive, Entered, End
  <1> QED
    BY <1>3, <1>4, <1>5

\* A request that moves after it wrote the entry of a token.
LEMMA WritesEntry ==
  ASSUME IInv, TypeOK', UNCHANGED <<now, tokens, revoked>>,
         NEW r \in Requests, \A s \in Requests \ {r} : req'[s] = req[s],
         NEW j \in 1..Len(tokens),
         NEW x \in Nat \ {0}, x + T > End(j), black' = [black EXCEPT ![j] = x],
         Holds(r)', Entitled(r)
  PROVE  IInv'
  <1>1. /\ EntriesOutlive' /\ Steady /\ \A k \in Jti : Entered(k) => Entered(k)'
    BY EntryWritten
  <1>2. RevocationsOutlive'
    BY DEF IInv, RevocationsOutlive
  <1>3. \A s \in Requests : req[s].step \in Resetting => req[s].token \in Jti
    BY EndType DEF IInv, TypeOK, Resetting
  <1>4. \A s \in Requests \ {r} :
            req[s].step \in Resetting /\ Entered(req[s].token) => Entered(req[s].token)'
    <2>1. ASSUME NEW s \in Requests \ {r}, req[s].step \in Resetting, Entered(req[s].token)
          PROVE  black'[req[s].token] # 0
      BY <1>1, <1>3, <2>1 DEF Entered
    <2> QED
      BY <2>1 DEF Entered
  <1> QED
    BY <1>1, <1>2, <1>4, OneRequest

LEMMA ClaimInv ==
  ASSUME IInv, TypeOK', NEW r \in Requests, ClaimToken(r)
  PROVE  IInv'
  <1>1. PICK j : j = req[r].token
    OBVIOUS
  <1>2. /\ TypeOK /\ EntriesOutlive /\ req \in [Requests -> Local] /\ Holds(r)
        /\ j \in 1..Len(tokens) /\ j \in Jti /\ req[r].step = "claim"
    BY <1>1, LocalType, EndType DEF IInv, RequestsHold, ClaimToken, TypeOK
  <1>3. KindOf(j) \in {"refresh", "reset"} /\ req[r].sent # 0 /\ now + req[r].sent * T + T > End(j)
    BY <1>1, <1>2 DEF Holds
  <1>4. UNCHANGED <<now, tokens, revoked>> /\ \A s \in Requests \ {r} : req'[s] = req[s]
    BY <1>2 DEF ClaimToken, Finish, Goto
  <1>5. CASE Blacklisted(j)
    <2>1. UNCHANGED black /\ req'[r] = Idle
      BY <1>1, <1>2, <1>5 DEF ClaimToken, Finish
    <2> QED
      BY <1>4, <2>1, IdleHolds, OnlyMoves
  <1>6. CASE ~Blacklisted(j)
    <2>1. PICK x : x = now + req[r].sent * T
      OBVIOUS
    <2>2. x \in Nat \ {0} /\ x + T > End(j)
      <3>1. req[r].sent \in Nat /\ now \in Nat
        BY <1>2 DEF TypeOK
      <3>2. req[r].sent * T \in Nat /\ req[r].sent * T > 0
        BY <1>3, <3>1, InTicks
      <3> QED
        BY <1>3, <2>1, <3>1, <3>2
    <2>3. black' = [black EXCEPT ![j] = x]
      BY <1>1, <1>2, <1>6, <2>1 DEF ClaimToken, T
    <2>4. req'[r].token = j /\ req'[r].step = (IF KindOf(j) = "refresh" THEN "issue" ELSE "set")
      BY <1>1, <1>2, <1>6 DEF ClaimToken, Goto, Local, KindOf
    <2>5. Entered(j) => LastSecond(j)
      <3>1. ASSUME Entered(j) PROVE black[j] < now /\ black[j] + T > End(j)
        BY <1>2, <1>6, <3>1 DEF Blacklisted, EntriesOutlive, Entered, TypeOK
      <3>2. now \in Nat /\ black[j] \in Nat /\ End(j) \in Nat /\ T \in Nat
        BY <1>2, EndType, TimeAssumption DEF TypeOK, T
      <3> QED
        BY <3>1, <3>2 DEF LastSecond, T
    <2>6. Entered(j)'
      BY <1>4, <2>2, <2>3, <1>2, EntryWritten
    <2>7. Holds(r)' /\ Entitled(r)
      BY <1>2, <1>3, <1>4, <2>4, <2>5, <2>6 DEF Holds, Entitled, Resetting, KindOf, Entered
    <2> QED
      BY <1>2, <1>4, <2>2, <2>3, <2>7, WritesEntry
  <1> QED
    BY <1>5, <1>6

\* Only the holder of a link gives it back, before the link's last second.
LEMMA ReleaseInv ==
  ASSUME IInv, TypeOK', NEW r \in Requests, ReleaseToken(r)
  PROVE  IInv'
  <1>1. PICK j : j = req[r].token
    OBVIOUS
  <1>2. /\ TypeOK /\ EntriesOutlive /\ LinkHeldByOne /\ req \in [Requests -> Local]
        /\ j \in 1..Len(tokens) /\ j \in Jti /\ req[r].step = "release" /\ KindOf(j) = "reset"
    BY <1>1, LocalType, EndType
       DEF IInv, RequestsHold, Holds, ReleaseToken, TypeOK, Resetting
  <1>3. /\ UNCHANGED <<now, tokens, revoked>> /\ \A s \in Requests \ {r} : req'[s] = req[s]
        /\ req'[r] = Idle /\ now \in Nat
        /\ black'[j] = 0 /\ \A k \in Jti \ {j} : black'[k] = black[k]
    BY <1>1, <1>2 DEF ReleaseToken, Finish, TypeOK
  <1>4. Steady
    <2>1. ASSUME NEW k \in 1..Len(tokens), KindOf(k) = "refresh", Entered(k)
          PROVE  Entered(k)'
      BY <1>2, <1>3, <2>1, EndType DEF Entered
    <2> QED
      BY <1>2, <1>3, <2>1 DEF Steady, TypeOK
  <1>5. EntriesOutlive'
    <2>1. ASSUME NEW k \in Jti, black'[k] # 0
          PROVE  k \in 1..Len(tokens) /\ black'[k] + T > End(k)
      BY <1>2, <1>3, <2>1 DEF EntriesOutlive, Entered
    <2> QED
      BY <1>3, <2>1 DEF EntriesOutlive, Entered, End
  <1>6. RevocationsOutlive'
    BY <1>3 DEF IInv, RevocationsOutlive
  <1>7. ASSUME NEW s \in Requests \ {r}, req[s].step \in Resetting, Entered(req[s].token)
        PROVE  Entered(req[s].token)' \/ LastSecond(req[s].token)'
    <2>1. req[s].token \in Jti
      BY <1>2, <1>7, EndType DEF TypeOK, Resetting
    <2>2. CASE req[s].token = j
      <3>1. LastSecond(req[s].token)
        BY <1>1, <1>2, <1>7, <2>2 DEF LinkHeldByOne, Resetting
      <3> QED
        BY <1>3, <3>1 DEF LastSecond, End
    <2>3. CASE req[s].token # j
      <3>1. black'[req[s].token] = black[req[s].token]
        BY <1>3, <2>1, <2>3
      <3> QED
        BY <1>3, <1>7, <3>1 DEF Entered
    <2> QED
      BY <2>2, <2>3
  <1> QED
    BY <1>3, <1>4, <1>5, <1>6, <1>7, IdleHolds, OneRequest

\* Both entries of a logout.
LEMMA LogoutInv ==
  ASSUME IInv, TypeOK', NEW r \in Requests, LogoutAccess(r) \/ LogoutRefresh(r)
  PROVE  IInv'
  <1>1. TypeOK /\ req \in [Requests -> Local] /\ WellFormed(req[r])
    BY LocalType DEF IInv
  <1>2. /\ UNCHANGED <<now, tokens, revoked>> /\ \A s \in Requests \ {r} : req'[s] = req[s]
        /\ req'[r].step \in {"idle", "cookie"}
    BY <1>1 DEF LogoutAccess, LogoutRefresh, Finish, Goto, Local, Idle, At
  <1>3. PICK j \in 1..Len(tokens) : UNCHANGED black \/ BlacklistToken(j)
    BY <1>1, LocalType DEF LogoutAccess, LogoutRefresh, WellFormed, Local
  <1>4. Holds(r)' /\ Entitled(r)
    BY <1>2 DEF Holds, Entitled, Resetting
  <1>5. CASE UNCHANGED black
    BY <1>2, <1>4, <1>5, OnlyMoves
  <1>6. CASE ~UNCHANGED black
    <2>1. PICK x : x = now + Remaining(j) * T
      OBVIOUS
    <2>2. black' = [black EXCEPT ![j] = x] /\ Remaining(j) # 0
      BY <1>3, <1>6, <2>1 DEF BlacklistToken, T
    <2>3. x \in Nat \ {0} /\ x + T > End(j)
      <3>1. Remaining(j) \in Nat /\ now \in Nat /\ now + Remaining(j) * T + T > End(j)
        BY <1>1, EndType DEF TypeOK
      <3>2. Remaining(j) * T \in Nat /\ Remaining(j) * T > 0
        BY <2>2, <3>1, InTicks
      <3> QED
        BY <2>1, <3>1, <3>2
    <2> QED
      BY <1>2, <1>4, <2>2, <2>3, WritesEntry
  <1> QED
    BY <1>5, <1>6

LEMMA TickInv ==
  ASSUME IInv, TypeOK', Tick
  PROVE  IInv'
  <1>0. TypeOK /\ now' = now + 1 /\ now \in Nat /\ UNCHANGED <<accounts, tokens, black, revoked, req>>
    BY DEF IInv, Tick, TypeOK
  <1>1. Steady
    BY <1>0 DEF Steady, TypeOK, Entered
  <1>2. EntriesOutlive' /\ RevocationsOutlive'
    BY <1>0 DEF IInv, EntriesOutlive, RevocationsOutlive, Entered, End
  <1>3. Signed'
    BY <1>0, <1>1, SignedOn DEF IInv, Signed
  <1>4. RequestsHold'
    BY <1>0, <1>1, HoldsOn DEF IInv, RequestsHold, Entered
  <1>5. \A j \in 1..Len(tokens) : LastSecond(j) =>
            now' + TicksPerSecond > tokens'[j].exp * TicksPerSecond
    BY <1>0, <1>1, Settled DEF LastSecond, End
  <1>6. LinkHeldByOne'
    <2>1. \A s \in Requests : req[s].step \in Resetting => req[s].token \in 1..Len(tokens)
      BY <1>0 DEF TypeOK, Resetting
    <2> QED
      BY <1>0, <1>5, <2>1 DEF IInv, LinkHeldByOne, LastSecond, End
  <1>7. Once'
    <2>1. \A i \in 1..Len(tokens) : IsPair(i) => tokens[i].parent \in 1..Len(tokens)
      BY DEF IInv, IsPair, Signed, WellSigned
    <2>2. \A s \in Requests : Exchanging(s) => req[s].token \in 1..Len(tokens)
      BY DEF IInv, Exchanging, RequestsHold, Holds
    <2> QED
      BY SMTT(20), <1>0, <1>5, <2>1, <2>2 DEF IInv, Once, IsPair, KindOf, Exchanging, LastSecond, End
  <1> QED
    BY <1>2, <1>3, <1>4, <1>6, <1>7 DEF IInv

-----------------------------------------------------------------------------
(* The properties.                                                         *)

LEMMA InitInv == Init => IInv
  <1> SUFFICES ASSUME Init PROVE IInv
    OBVIOUS
  <1>1. TypeOK /\ Len(tokens) = 0 /\ \A r \in Requests : req[r].step = "idle"
    BY InitType DEF Init, Idle, At
  <1>2. Signed /\ EntriesOutlive /\ RevocationsOutlive
    BY <1>1 DEF Init, Signed, EntriesOutlive, RevocationsOutlive, Entered
  <1>3. RequestsHold /\ Once /\ LinkHeldByOne
    BY <1>1 DEF RequestsHold, Holds, Resetting, Once, Exchanging, LinkHeldByOne
  <1> QED
    BY <1>1, <1>2, <1>3 DEF IInv

LEMMA NextInv == IInv /\ [Next]_vars => IInv'
  <1> SUFFICES ASSUME IInv, [Next]_vars PROVE IInv'
    OBVIOUS
  <1>0. TypeOK'
    BY NextType DEF IInv
  <1>1. CASE UNCHANGED vars
    BY <1>1 DEF vars, IInv, TypeOK, Signed, WellSigned, EntriesOutlive, RevocationsOutlive,
        RequestsHold, Holds, Once, IsPair, Exchanging, LinkHeldByOne, KindOf, Entered,
        LastSecond, End
  <1>2. ASSUME NEW r \in Requests,
               \/ SignIn(r) \/ Refresh(r) \/ ResetPassword(r)
               \/ \E j \in Jti, c \in 0..MaxTokens : Logout(r, j, c)
        PROVE  IInv'
    BY <1>0, <1>2, BeginInv DEF SignIn, Refresh, ResetPassword
  <1> QED
    BY <1>0, <1>1, <1>2, IssueInv, ForgotInv, ResetInv, RevokeInv, ClaimInv, ReleaseInv,
       LogoutInv, TickInv DEF Next

LEMMA Invariance == Spec => []IInv
  BY InitInv, NextInv, PTL DEF Spec

\* A refresh token is exchanged for at most one pair until its last second:
\* whoever is about to issue one has claimed it, and the entry of the claim
\* stays until then (refresh_tokens, claim_token).
THEOREM RotatesOnce == Spec => []RotatedOnce
  <1>1. IInv => RotatedOnce
    <2> SUFFICES ASSUME IInv, NEW e \in Exchanges, NEW f \in Exchanges, e.parent = f.parent
                 PROVE  e = f \/ LastSecond(e.parent)
      BY DEF RotatedOnce
    <2> DEFINE Pair(i) == [parent |-> tokens[i].parent, by |-> <<"pair", i>>]
               Request(r) == [parent |-> req[r].token, by |-> <<"request", r>>]
    <2>1. \A x \in Exchanges : \/ \E i \in 1..Len(tokens) : IsPair(i) /\ x = Pair(i)
                              \/ \E r \in Requests : Exchanging(r) /\ x = Request(r)
      BY DEF Exchanges, IsPair, Exchanging, KindOf
    <2>2. \A i : Pair(i).parent = tokens[i].parent
      OBVIOUS
    <2>3. \A r : Request(r).parent = req[r].token
      OBVIOUS
    <2> HIDE DEF Pair, Request
    <2> QED
      BY <2>1, <2>2, <2>3 DEF IInv, Once
  <1> QED
    BY <1>1, Invariance, PTL

\* Two requests never work with one reset link before its last second, although
\* a reset that fails gives the link back: nobody else can (reset_password).
THEOREM LinkHeld == Spec => []LinkHeldByOne
  <1>1. IInv => LinkHeldByOne
    BY DEF IInv
  <1> QED
    BY <1>1, Invariance, PTL

\* What was blacklisted is refused until the last second of its life: the
\* truncated time to live of the entry, computed before it is written, is never
\* short by more (blacklist_token, remaining_seconds, claim_token).
THEOREM LogoutIsFinal == Spec => []LogoutHolds
  <1>1. IInv => LogoutHolds
    <2> SUFFICES ASSUME IInv, NEW j \in 1..Len(tokens), Entered(j), Usable(j)
                 PROVE  LastSecond(j)
      BY DEF LogoutHolds, Entered
    <2>1. ~Blacklisted(j)
      BY DEF Usable, Honoured, SessionRevoked
    <2>2. /\ now \in Nat /\ black[j] \in Nat /\ End(j) \in Nat /\ T \in Nat
          /\ black[j] + T > End(j)
      BY EndType, TimeAssumption DEF IInv, TypeOK, EntriesOutlive, T
    <2> QED
      BY <2>1, <2>2 DEF Blacklisted, LastSecond, Entered, T
  <1> QED
    BY <1>1, Invariance, PTL

\* A token issued before a revocation whose key is gone has expired.
LEMMA ExpiredWithKey ==
  ASSUME TypeOK, Signed, RevocationsOutlive, NEW j \in 1..Len(tokens), NEW u \in Users,
         tokens[j].iat < revoked[u].after, revoked[u].until < now
  PROVE  Remaining(j) = 0 /\ (KindOf(j) = "access" => tokens[j].exp < now \div T)
  <1> DEFINE iat == tokens[j].iat
             life == Lifetime(KindOf(j))
             start == iat \div T
  <1>1. /\ iat \in Nat /\ now \in Nat /\ KindOf(j) \in Kinds
        /\ revoked[u].after \in Nat /\ revoked[u].until \in Nat
    BY EndType DEF TypeOK, Token, KindOf
  <1>2. life \in Nat /\ life <= RefreshLife /\ RefreshLife \in Nat /\ T \in Nat \ {0}
    BY <1>1, LifetimeType, TimeAssumption DEF T
  <1>3. iat + RefreshLife * T < now /\ RefreshLife * T \in Nat
    <2>1. RefreshLife * T \in Nat
      BY <1>2, InTicks
    <2>2. revoked[u].after + RefreshLife * T <= revoked[u].until
      BY <1>1 DEF RevocationsOutlive
    <2> QED
      BY <1>1, <2>1, <2>2
  <1>4. start \in Nat /\ start * T <= iat
    BY <1>1, Truncated
  <1>5. tokens[j].exp = start + life
    BY DEF Signed, WellSigned, T
  <1>6. (start + RefreshLife) * T <= now /\ (start + RefreshLife) \in Nat
    <2>1. (start + RefreshLife) * T = start * T + RefreshLife * T /\ start * T \in Nat
      BY <1>2, <1>4, InTicks
    <2> DEFINE a == start * T
               b == RefreshLife * T
    <2>2. a \in Nat /\ b \in Nat /\ a <= iat /\ iat + b < now
      BY <1>3, <1>4, <2>1
    <2> HIDE DEF a, b
    <2>3. a + b <= now
      BY <1>1, <2>2
    <2> HIDE DEF start
    <2> QED
      BY <1>2, <1>4, <2>1, <2>3 DEF a, b
  <1> HIDE DEF life, start
  <1>7. End(j) <= now
    <2>1. End(j) = (start + life) * T /\ start + life \in Nat /\ start + life <= start + RefreshLife
      BY <1>2, <1>4, <1>5 DEF End, T
    <2>2. (start + life) * T <= (start + RefreshLife) * T /\ (start + life) * T \in Nat
          /\ (start + RefreshLife) * T \in Nat
      BY <1>6, <2>1, InTicks
    <2> QED
      BY <1>1, <1>6, <2>1, <2>2
  <1>8. ASSUME KindOf(j) = "access"
        PROVE  tokens[j].exp < now \div T
    <2>1. life < RefreshLife
      BY <1>8, TimeAssumption DEF Lifetime, life
    <2>2. now \div T \in Nat /\ now < (now \div T) * T + T
      BY <1>1, Truncated
    <2>3. ~(now \div T < start + RefreshLife)
      <3>1. ASSUME now \div T < start + RefreshLife
            PROVE  (now \div T) * T + T <= (start + RefreshLife) * T
        BY <1>6, <2>2, <3>1, InTicks
      <3>2. (now \div T) * T \in Nat /\ (start + RefreshLife) * T \in Nat
        BY <1>6, <2>2, InTicks
      <3> QED
        BY <1>1, <1>2, <1>6, <2>2, <3>1, <3>2
    <2> QED
      BY <1>2, <1>4, <1>5, <2>1, <2>2, <2>3
  <1> QED
    BY <1>7, <1>8 DEF Remaining

\* No token issued before the last revocation of its user is usable again,
\* also after the revocation key has expired: whatever it stood against has
\* expired before it (revoke_user_sessions).
THEOREM RevocationIsFinal == Spec => []LastRevocationHolds
  <1>1. IInv => LastRevocationHolds
    <2> SUFFICES ASSUME IInv, NEW j \in 1..Len(tokens), Usable(j),
                        ~(tokens[j].iat >= revoked[tokens[j].user].after)
                 PROVE  FALSE
      BY DEF LastRevocationHolds
    <2>1. /\ tokens[j].user \in Users /\ tokens[j].iat \in Nat /\ now \in Nat
          /\ revoked[tokens[j].user].after \in Nat /\ revoked[tokens[j].user].until \in Nat
      BY EndType DEF IInv, TypeOK, Token
    <2>2. tokens[j].iat < revoked[tokens[j].user].after
      BY <2>1
    <2>3. revoked[tokens[j].user].until < now
      BY <2>1, <2>2 DEF Usable, Honoured, SessionRevoked
    <2>4. Remaining(j) = 0 /\ (KindOf(j) = "access" => tokens[j].exp < now \div T)
      BY <2>1, <2>2, <2>3, ExpiredWithKey DEF IInv
    <2>5. Honoured(j)
      BY <2>4 DEF Usable
    <2>6. tokens[j].exp \in Nat /\ now \div T \in Nat
      BY <2>1, EndType, Truncated DEF Token, IInv
    <2> QED
      BY <2>4, <2>5, <2>6 DEF Honoured, Verified, KindOf, T
  <1> QED
    BY <1>1, Invariance, PTL

-----------------------------------------------------------------------------
(* The schema moves with the version: Migrations.                          *)

\* A set of numbers has a least element.
LEMMA Least ==
  ASSUME NEW S \in SUBSET Nat, S # {}
  PROVE  \E n \in S : \A m \in S : n <= m
  <1> PICK b \in S : TRUE
    OBVIOUS
  <1> DEFINE Below == {0..n : n \in {m \in S : m <= b}}
  <1>1. IsWellFoundedOn(StrictSubsetOrdering(0..b), SUBSET (0..b))
    <2>1. IsFiniteSet(0..b)
      BY FS_Interval
    <2> QED
      BY <2>1, FS_StrictSubsetOrderingWellFounded, FS_FiniteSubsetsOfFinite
  <1>2. Below \subseteq SUBSET (0..b) /\ Below # {}
    OBVIOUS
  <1>3. \A m \in S : m <= b => 0..m \in Below
    OBVIOUS
  <1>4. \A X \in Below : \E n \in S : n <= b /\ X = 0..n
    OBVIOUS
  <1> HIDE DEF Below
  <1>5. PICK X \in Below : \A Y \in Below : <<Y, X>> \notin StrictSubsetOrdering(0..b)
    BY <1>1, <1>2, WFMin
  <1>6. PICK n \in S : n <= b /\ X = 0..n
    BY <1>4
  <1>7. ASSUME NEW m \in S, m < n PROVE FALSE
    <2>1. 0..m \in Below /\ 0..m \subseteq X /\ 0..m # X
      BY <1>3, <1>6, <1>7
    <2> QED
      BY <2>1, <1>2, <1>5 DEF StrictSubsetOrdering
  <1> QED
    BY <1>7

\* What a run holds, and what a database is.
RunFields == {"tables", "types", "rows", "filled", "stray", "saved", "outcome"}
IsSchema(d) == DOMAIN d = {"tables", "types", "rows"} /\ d.rows \subseteq DOMAIN d.tables
IsRun(d) == DOMAIN d = RunFields /\ d.rows \subseteq DOMAIN d.tables

Begun(d) == [tables |-> d.tables, types |-> d.types, rows |-> d.rows,
             filled |-> {}, stray |-> {}, saved |-> d, outcome |-> "done"]
\* f is what a script leaves after each of its first n statements.
Runs(f, script, d, dirtyRows, n) ==
    f = [i \in 0 .. n |-> IF i = 0 THEN Begun(d) ELSE Execute(f[i - 1], script[i], dirtyRows)]

\* A script of any length has a run, and Run is the end of one.
LEMMA RunExists ==
  ASSUME NEW script, NEW d, NEW b, Len(script) \in Nat
  PROVE  \E f : Runs(f, script, d, b, Len(script)) /\ Run(script, d, b) = f[Len(script)]
  <1> DEFINE Has(n) == \E f : Runs(f, script, d, b, n)
  <1>1. Has(0)
    <2> DEFINE f == [i \in 0 .. 0 |-> Begun(d)]
    <2>1. Runs(f, script, d, b, 0)
      BY DEF Runs
    <2> QED
      BY <2>1
  <1>2. ASSUME NEW n \in Nat, Has(n) PROVE Has(n + 1)
    <2>1. PICK f : Runs(f, script, d, b, n)
      BY <1>2
    <2> DEFINE g == [i \in 0 .. n + 1 |-> IF i = n + 1 THEN Execute(f[n], script[n + 1], b) ELSE f[i]]
    <2>2. \A i \in 0 .. n : f[i] = IF i = 0 THEN Begun(d) ELSE Execute(f[i - 1], script[i], b)
      BY <2>1 DEF Runs
    <2>3. \A i \in 0 .. n + 1 : g[i] = IF i = 0 THEN Begun(d) ELSE Execute(g[i - 1], script[i], b)
      <3> SUFFICES ASSUME NEW i \in 0 .. n + 1
                   PROVE  g[i] = IF i = 0 THEN Begun(d) ELSE Execute(g[i - 1], script[i], b)
        OBVIOUS
      <3>1. CASE i = n + 1
        BY <3>1
      <3>2. CASE i # n + 1 /\ i # 0
        <4>1. i \in 0 .. n /\ i - 1 \in 0 .. n + 1 /\ i - 1 # n + 1
          BY <3>2
        <4>2. g[i] = f[i] /\ g[i - 1] = f[i - 1]
          BY <4>1, <3>2
        <4> QED
          BY <4>1, <4>2, <2>2, <3>2
      <3>3. CASE i = 0
        BY <3>3, <2>2
      <3> QED
        BY <3>1, <3>2, <3>3
    <2>4. Runs(g, script, d, b, n + 1)
      <3> HIDE DEF g
      <3>1. g = [i \in 0 .. n + 1 |-> g[i]]
        BY DEF g
      <3> QED
        BY <3>1, <2>3 DEF Runs
    <2> QED
      BY <2>4
  <1>3. ASSUME NEW n \in Nat, ~Has(n) PROVE FALSE
    <2> HIDE DEF Has
    <2> DEFINE S == {m \in Nat : ~Has(m)}
    <2>1. PICK m \in S : \A k \in S : m <= k
      BY <1>3, Least
    <2>2. m # 0 /\ m - 1 \in Nat /\ Has(m - 1)
      BY <2>1, <1>1
    <2> QED
      BY <2>1, <2>2, <1>2
  <1>4. PICK f : Runs(f, script, d, b, Len(script))
    BY <1>3
  <1> DEFINE h == CHOOSE g : g = [i \in 0 .. Len(script) |->
                        IF i = 0 THEN Begun(d) ELSE Execute(g[i - 1], script[i], b)]
  <1>5. Runs(h, script, d, b, Len(script))
    BY <1>4, Zenon DEF Runs
  <1>6. Run(script, d, b) = h[Len(script)]
    BY Zenon DEF Run, Begun
  <1> QED
    BY <1>5, <1>6, Zenon

\* A statement that leaves the transaction open; a script of such statements is
\* applied as a whole or not at all.
Stays(o) == o.do # "commit" /\ (o.do = "if_needed" => o.o.do # "commit")
Whole(script) == Len(script) \in Nat /\ \A i \in 1 .. Len(script) : Stays(script[i])

\* What one statement keeps: the shape of the run, rows in tables that exist, and
\* the committed database, save that a COMMIT takes the tables as they are.
LEMMA EffectKeeps ==
  ASSUME NEW stmt, NEW d, IsRun(d), IsSchema(d.saved), Applies(stmt, d)
  PROVE  /\ IsRun(Effect(stmt, d)) /\ IsSchema(Effect(stmt, d).saved)
         /\ stmt.do # "commit" => Effect(stmt, d).saved = d.saved
         /\ stmt.do = "commit" => Effect(stmt, d).saved.tables = d.tables
         /\ stmt.do \in {"commit", "label"} => Effect(stmt, d).tables = d.tables
         /\ Effect(stmt, d).outcome = d.outcome
  <1> DEFINE e == Effect(stmt, d)
  <1> USE DEF IsRun, RunFields
  <1>1. CASE stmt.do \in Alterations
    <2>1. DOMAIN e = DOMAIN d /\ e.saved = d.saved /\ e.outcome = d.outcome /\ e.rows = d.rows
      BY <1>1 DEF Effect, Alterations
    <2>2. e.tables = [d.tables EXCEPT ![stmt.t] = Altered(stmt, @)]
      BY <1>1 DEF Effect, Alterations
    <2>3. DOMAIN e.tables = DOMAIN d.tables
      BY <2>2
    <2> QED
      BY <2>1, <2>3, <1>1 DEF Alterations
  <1>2. CASE stmt.do = "table"
    BY <1>2 DEF Effect, Alterations
  <1>3. CASE stmt.do = "drop_tables"
    BY <1>3 DEF Effect, Alterations, Without, Restrict
  <1>4. CASE stmt.do \in {"fill", "repoint", "type", "types", "drop_type", "drop_types", "label", "unlabel"}
    BY <1>4 DEF Effect, Alterations
  <1>5. CASE stmt.do \in {"insert", "copy"}
    BY <1>5 DEF Effect, Alterations, Applies, HasTable
  <1>6. CASE stmt.do = "commit"
    BY <1>6 DEF Effect, Alterations, Snapshot, IsSchema
  <1>7. CASE stmt.do \notin Alterations \cup {"table", "drop_tables", "fill", "repoint", "type", "types", "drop_type",
                        "drop_types", "label", "unlabel", "insert", "copy", "commit"}
    <2>1. e = d
      BY <1>7, Zenon DEF Effect
    <2> QED
      BY <2>1, <1>7
  <1> QED
    BY <1>1, <1>2, <1>3, <1>4, <1>5, <1>6, <1>7

\* A statement of a script, also one that is skipped, fails or is refused.
LEMMA ExecuteKeeps ==
  ASSUME NEW stmt, NEW d, NEW b, IsRun(d), IsSchema(d.saved)
  PROVE  /\ IsRun(Execute(d, stmt, b)) /\ IsSchema(Execute(d, stmt, b).saved)
         /\ Stays(stmt) => Execute(d, stmt, b).saved = d.saved
         /\ d.saved.tables = d.tables /\ stmt.do \in {"commit", "label"} =>
                Execute(d, stmt, b).tables = d.tables /\ Execute(d, stmt, b).saved.tables = d.tables
  <1> DEFINE e == Execute(d, stmt, b)
  <1>1. CASE e = d
    BY <1>1
  <1>2. CASE \E how : e = [d EXCEPT !.outcome = how]
    BY <1>2 DEF IsRun, RunFields
  <1>3. CASE stmt.do # "if_needed" /\ Applies(stmt, d) /\ e = Effect(stmt, d)
    BY <1>3, EffectKeeps DEF Stays
  <1>4. CASE stmt.do = "if_needed" /\ Applies(stmt.o, d) /\ e = Effect(stmt.o, d)
    BY <1>4, EffectKeeps DEF Stays
  <1>5. e = d \/ (\E how : e = [d EXCEPT !.outcome = how])
          \/ (stmt.do # "if_needed" /\ Applies(stmt, d) /\ e = Effect(stmt, d))
          \/ (stmt.do = "if_needed" /\ Applies(stmt.o, d) /\ e = Effect(stmt.o, d))
    <2>1. CASE d.outcome # "done"
      BY <2>1 DEF Execute
    <2>2. CASE d.outcome = "done" /\ stmt.do = "if_needed"
      BY <2>2 DEF Execute
    <2>3. CASE d.outcome = "done" /\ stmt.do # "if_needed"
      BY <2>3 DEF Execute
    <2> QED
      BY <2>1, <2>2, <2>3
  <1> QED
    BY <1>1, <1>2, <1>3, <1>4, <1>5, Zenon

\* A script that commits in the middle does so before it touches a table.
CommitsEarly(script) ==
    /\ Len(script) \in Nat
    /\ \E k \in 0 .. Len(script) : /\ \A i \in 1 .. k : script[i].do \in {"commit", "label"}
                                   /\ \A i \in k + 1 .. Len(script) : Stays(script[i])

\* Such a script, run on any database, leaves tables that hold its rows, and what it
\* had committed when it failed has the tables of the database it started on.
LEMMA RunKeeps ==
  ASSUME NEW script, CommitsEarly(script), NEW d, IsSchema(d), NEW b
  PROVE  /\ IsRun(Run(script, d, b)) /\ IsSchema(Run(script, d, b).saved)
         /\ Run(script, d, b).saved.tables = d.tables
  <1>1. PICK f : Runs(f, script, d, b, Len(script)) /\ Run(script, d, b) = f[Len(script)]
    BY RunExists DEF CommitsEarly
  <1>2. PICK k \in 0 .. Len(script) : /\ \A i \in 1 .. k : script[i].do \in {"commit", "label"}
                                      /\ \A i \in k + 1 .. Len(script) : Stays(script[i])
    BY DEF CommitsEarly
  <1>0. Len(script) \in Nat
    BY DEF CommitsEarly
  <1> DEFINE Good(i) == /\ IsRun(f[i]) /\ IsSchema(f[i].saved)
                        /\ f[i].saved.tables = d.tables
                        /\ i <= k => f[i].tables = d.tables
  <1>3. Good(0)
    <2>1. f[0] = Begun(d)
      BY <1>1, <1>0 DEF Runs
    <2> QED
      BY <2>1 DEF Begun, IsRun, RunFields, IsSchema
  <1>4. ASSUME NEW i \in 1 .. Len(script), Good(i - 1) PROVE Good(i)
    <2>1. f[i] = Execute(f[i - 1], script[i], b)
      BY <1>1, <1>0 DEF Runs
    <2>2. IsRun(f[i]) /\ IsSchema(f[i].saved)
      BY <2>1, <1>4, ExecuteKeeps
    <2>3. CASE i <= k
      <3>1. script[i].do \in {"commit", "label"} /\ f[i - 1].tables = d.tables
        BY <1>2, <1>4, <2>3, <1>0
      <3> QED
        BY <3>1, <2>1, <2>2, <1>4, ExecuteKeeps
    <2>4. CASE ~(i <= k)
      <3>1. Stays(script[i])
        BY <1>2, <2>4, <1>0
      <3> QED
        BY <3>1, <2>1, <2>2, <2>4, <1>4, ExecuteKeeps
    <2> QED
      BY <2>3, <2>4
  <1> HIDE DEF Good
  <1>5. ASSUME ~Good(Len(script)) PROVE FALSE
    <2> DEFINE S == {m \in Nat : m <= Len(script) /\ ~Good(m)}
    <2>0. Len(script) \in S /\ S \in SUBSET Nat
      BY <1>5, <1>0
    <2>1. PICK m \in S : \A n \in S : m <= n
      BY <2>0, Least
    <2>2. m # 0 /\ m \in 1 .. Len(script) /\ Good(m - 1)
      BY <2>1, <1>3, <1>0
    <2> QED
      BY <2>1, <2>2, <1>4
  <1> QED
    BY <1>1, <1>5 DEF Good

\* A script that never commits certainly does not do so too late.
LEMMA EarlyOrWhole ==
  ASSUME NEW script, Whole(script)
  PROVE  CommitsEarly(script)
  <1>1. /\ \A i \in 1 .. 0 : script[i].do \in {"commit", "label"}
        /\ \A i \in 0 + 1 .. Len(script) : Stays(script[i])
    BY DEF Whole
  <1> QED
    BY <1>1 DEF Whole, CommitsEarly

\* Long scripts are written in parts.
LEMMA Concatenated ==
  ASSUME NEW s, NEW u, Whole(s), Whole(u)
  PROVE  Whole(s \o u)
  BY DEF Whole

\* The statements: all but COMMIT leave the transaction open.
LEMMA StatementsStay ==
  /\ \A p, q, r, s : Stays(Table(p, q, r, s))
  /\ \A p : Stays(DropTables(p))
  /\ \A p, q : Stays(AddColumns(p, q))
  /\ \A p, q, r : Stays(AddTyped(p, q, r))
  /\ \A p, q : Stays(AddRequired(p, q))
  /\ \A p, q, r : Stays(Generated(p, q, r))
  /\ \A p, q : Stays(DropColumns(p, q))
  /\ \A p, q, r : Stays(Rename(p, q, r))
  /\ \A p, q, r : Stays(Retype(p, q, r))
  /\ \A p, q : Stays(Fill(p, q))
  /\ \A p, q : Stays(NotNull(p, q))
  /\ \A p, q, r, s : Stays(Key(p, q, r, s))
  /\ \A p, q, r, s : Stays(KeyOver(p, q, r, s))
  /\ \A p, q : Stays(Ix(p, q))
  /\ \A p, q : Stays(UniqueIx(p, q))
  /\ \A p, q : Stays(UniqueIxOver(p, q))
  /\ \A p, q, r : Stays(SearchIx(p, q, r))
  /\ \A p, q : Stays(DropKey(p, q))
  /\ \A p, q : Stays(DropIx(p, q))
  /\ \A p, q, r, s : Stays(Ref(p, q, r, s))
  /\ \A p, q, r, s, t : Stays(NamedRef(p, q, r, s, t))
  /\ \A p, q : Stays(DropRef(p, q))
  /\ \A p, q : Stays(DropNamedRef(p, q))
  /\ \A p, q : Stays(DropRefTo(p, q))
  /\ \A p, q, r : Stays(Repoint(p, q, r))
  /\ \A p, q : Stays(NewType(p, q))
  /\ \A p : Stays(DropType(p))
  /\ \A p, q : Stays(Label(p, q))
  /\ \A p, q : Stays(Unlabel(p, q))
  /\ \A p : Stays(Insert(p))
  /\ \A p, q : Stays(Copy(p, q))
  /\ \A p : Stays(Refuses(p))
  /\ \A p : Stays(RequireEmpty(p))
  /\ \A p : Stays(Sequence(p))
  /\ \A p : Stays(Unnamed(p))
  /\ \A p : Stays(Types(p))
  /\ \A p : Stays(Extensions(p))
  /\ \A p : Stays(DropTypes(p))
  /\ \A p : Stays(p) => Stays(IfNeeded(p))
  BY DEF Stays,
       KeyOf, RefOf, IfNeeded, Table, DropTables, AddColumns, AddTyped, AddRequired, Generated, DropColumns, Rename,
       Retype, Fill, NotNull, Key, KeyOver, Ix, UniqueIx, UniqueIxOver, SearchIx, DropKey, DropIx, Ref, NamedRef,
       DropRef, DropNamedRef, DropRefTo, Repoint, NewType, DropType, Label, Unlabel, Insert, Copy, Refuses,
       RequireEmpty, Sequence, Unnamed, Types, Extensions, DropTypes

\* Every upgrade but one is a single transaction.
LEMMA UpgradesWhole ==
  \A i \in 1 .. 82 : i # 17 => Whole(Up[i])
  <1>1. Whole(Up_0001) /\ Whole(Up_0002_players) /\ Whole(Up_0002_spells) /\ Whole(Up_0003) /\
        Whole(Up_bb20790b5a8c) /\ Whole(Up_69038c284ea4_catalogs) /\ Whole(Up_69038c284ea4_spells) /\
        Whole(Up_69038c284ea4_characters) /\ Whole(Up_69038c284ea4_sheets) /\ Whole(Up_5bde518ea704_catalogs) /\
        Whole(Up_5bde518ea704_features) /\ Whole(Up_5bde518ea704_sheets) /\ Whole(Up_ed896a68cda0) /\
        Whole(Up_62ead1ad9e84) /\ Whole(Up_0c571ff6a50e) /\ Whole(Up_ad86e093f8cb) /\ Whole(Up_7e70b8a81bb9) /\
        Whole(Up_4b17bc9bfef5) /\ Whole(Up_802345a50dc7) /\ Whole(Up_ae09bdf473f4) /\ Whole(Up_2bea8b331f7a) /\
        Whole(Up_d4c1e9b2a7f3) /\ Whole(Up_9f4c8e2a1b7d) /\ Whole(Up_c3f8e2a1b5d9)
    BY StatementsStay DEF Whole,
       Up_0001, Up_0002_players, Up_0002_spells, Up_0003, Up_bb20790b5a8c, Up_69038c284ea4_catalogs,
       Up_69038c284ea4_spells, Up_69038c284ea4_characters, Up_69038c284ea4_sheets, Up_5bde518ea704_catalogs,
       Up_5bde518ea704_features, Up_5bde518ea704_sheets, Up_ed896a68cda0, Up_62ead1ad9e84, Up_0c571ff6a50e,
       Up_ad86e093f8cb, Up_7e70b8a81bb9, Up_4b17bc9bfef5, Up_802345a50dc7, Up_ae09bdf473f4, Up_2bea8b331f7a,
       Up_d4c1e9b2a7f3, Up_9f4c8e2a1b7d, Up_c3f8e2a1b5d9
  <1>2. Whole(Up_a89aff41cc17) /\ Whole(Up_c1a2b3d4e5f6) /\ Whole(Up_d2e3f4a5b6c7) /\ Whole(Up_a1b2c3d4e5f7) /\
        Whole(Up_f0a1b2c3d4e5) /\ Whole(Up_f1a2b3c4d5e6) /\ Whole(Up_e7f8a9b0c1d2) /\ Whole(Up_8a4c5d6e7f8a) /\
        Whole(Up_af6347715f5e) /\ Whole(Up_b7c2d9e4f1a8) /\ Whole(Up_a48de7f0f9b3) /\ Whole(Up_6fa86eefd557) /\
        Whole(Up_c4d7e1a9f3b2) /\ Whole(Up_b5f3d8c2e7a9) /\ Whole(Up_e2a9f4b7c6d1) /\ Whole(Up_f7c1b8d3a5e2) /\
        Whole(Up_a9d4f2e8b1c7) /\ Whole(Up_c3e7a1f9d2b4) /\ Whole(Up_e8b5c7d9f1a3) /\ Whole(Up_f9c6d8e2b4a7) /\
        Whole(Up_b8e2f4a6c9d1) /\ Whole(Up_c5d9e8f2a4b7) /\ Whole(Up_d1e2f3a4b5c6) /\ Whole(Up_a3b4c5d6e7f8)
    BY StatementsStay DEF Whole,
       Up_a89aff41cc17, Up_c1a2b3d4e5f6, Up_d2e3f4a5b6c7, Up_a1b2c3d4e5f7, Up_f0a1b2c3d4e5, Up_f1a2b3c4d5e6,
       Up_e7f8a9b0c1d2, Up_8a4c5d6e7f8a, Up_af6347715f5e, Up_b7c2d9e4f1a8, Up_a48de7f0f9b3, Up_6fa86eefd557,
       Up_c4d7e1a9f3b2, Up_b5f3d8c2e7a9, Up_e2a9f4b7c6d1, Up_f7c1b8d3a5e2, Up_a9d4f2e8b1c7, Up_c3e7a1f9d2b4,
       Up_e8b5c7d9f1a3, Up_f9c6d8e2b4a7, Up_b8e2f4a6c9d1, Up_c5d9e8f2a4b7, Up_d1e2f3a4b5c6, Up_a3b4c5d6e7f8
  <1>3. Whole(Up_e3d5f7a9b2c4) /\ Whole(Up_f2a9c7d3b5e1) /\ Whole(Up_b3f6a2c8d4e1) /\
        Whole(Up_c8f4e2a6b9d3_features) /\ Whole(Up_c8f4e2a6b9d3_effects) /\ Whole(Up_c8f4e2a6b9d3_more_effects) /\
        Whole(Up_c8f4e2a6b9d3_grants) /\ Whole(Up_c8f4e2a6b9d3_proficiencies) /\ Whole(Up_c8f4e2a6b9d3_feats) /\
        Whole(Up_c8f4e2a6b9d3_asi) /\ Whole(Up_c8f4e2a6b9d3_tags) /\ Whole(Up_d4e6f8a2c1b3) /\
        Whole(Up_a1b2c3d4e5f6) /\ Whole(Up_f3a5c7e9b1d4_proficiencies) /\ Whole(Up_f3a5c7e9b1d4_their_keys) /\
        Whole(Up_f3a5c7e9b1d4_backgrounds) /\ Whole(Up_f0168d7c8559) /\ Whole(Up_771ee792d001) /\
        Whole(Up_42d89281e627) /\ Whole(Up_e6dde395e1a0) /\ Whole(Up_5c2b6d2ff132) /\ Whole(Up_76676c656c28) /\
        Whole(Up_c2a4e8f1b6d3) /\ Whole(Up_b7e4d1f2a9c6)
    BY StatementsStay DEF Whole,
       Up_e3d5f7a9b2c4, Up_f2a9c7d3b5e1, Up_b3f6a2c8d4e1, Up_c8f4e2a6b9d3_features, Up_c8f4e2a6b9d3_effects,
       Up_c8f4e2a6b9d3_more_effects, Up_c8f4e2a6b9d3_grants, Up_c8f4e2a6b9d3_proficiencies, Up_c8f4e2a6b9d3_feats,
       Up_c8f4e2a6b9d3_asi, Up_c8f4e2a6b9d3_tags, Up_d4e6f8a2c1b3, Up_a1b2c3d4e5f6, Up_f3a5c7e9b1d4_proficiencies,
       Up_f3a5c7e9b1d4_their_keys, Up_f3a5c7e9b1d4_backgrounds, Up_f0168d7c8559, Up_771ee792d001, Up_42d89281e627,
       Up_e6dde395e1a0, Up_5c2b6d2ff132, Up_76676c656c28, Up_c2a4e8f1b6d3, Up_b7e4d1f2a9c6
  <1>4. Whole(Up_a031c08480da) /\ Whole(Up_47437cd77998) /\ Whole(Up_4ffb883f9582) /\ Whole(Up_705548ecfb46) /\
        Whole(Up_d2b8f6c41a97) /\ Whole(Up_e5c1a7d93f02) /\ Whole(Up_b4e8d2a6f1c3) /\ Whole(Up_c7a3e9d1b5f2) /\
        Whole(Up_d8b4f0a2c6e9) /\ Whole(Up_e2c6a8f4d0b7) /\ Whole(Up_f4d8b2c6a0e1) /\ Whole(Up_a5e9c3f7b1d2) /\
        Whole(Up_b6f0d4a8c2e3) /\ Whole(Up_d6a2c8e4f0b1) /\ Whole(Up_e7b2d4f6a8c0) /\ Whole(Up_f8c3e5a7b9d1) /\
        Whole(Up_a6d1f3b5c7e9) /\ Whole(Up_c4a8e2f6b1d9) /\ Whole(Up_d7b3e9a1c5f2) /\ Whole(Up_e2c6a4f8d0b3) /\
        Whole(Up_f5a1d7c3e9b2) /\ Whole(Up_a7c3e5f9b1d4_announcements) /\ Whole(Up_a7c3e5f9b1d4_campaigns) /\
        Whole(Up_a7c3e5f9b1d4_reviews)
    BY StatementsStay DEF Whole,
       Up_a031c08480da, Up_47437cd77998, Up_4ffb883f9582, Up_705548ecfb46, Up_d2b8f6c41a97, Up_e5c1a7d93f02,
       Up_b4e8d2a6f1c3, Up_c7a3e9d1b5f2, Up_d8b4f0a2c6e9, Up_e2c6a8f4d0b7, Up_f4d8b2c6a0e1, Up_a5e9c3f7b1d2,
       Up_b6f0d4a8c2e3, Up_d6a2c8e4f0b1, Up_e7b2d4f6a8c0, Up_f8c3e5a7b9d1, Up_a6d1f3b5c7e9, Up_c4a8e2f6b1d9,
       Up_d7b3e9a1c5f2, Up_e2c6a4f8d0b3, Up_f5a1d7c3e9b2, Up_a7c3e5f9b1d4_announcements, Up_a7c3e5f9b1d4_campaigns,
       Up_a7c3e5f9b1d4_reviews
  <1>5. Whole(Up_b3d9f1a6c8e2) /\ Whole(Up_c8e2a4f6d1b9)
    BY StatementsStay DEF Whole,
       Up_b3d9f1a6c8e2, Up_c8e2a4f6d1b9
  <1>6. Whole(Up_0002) /\ Whole(Up_69038c284ea4) /\ Whole(Up_5bde518ea704) /\ Whole(Up_c8f4e2a6b9d3) /\
        Whole(Up_f3a5c7e9b1d4) /\ Whole(Up_a7c3e5f9b1d4)
    BY <1>1, <1>2, <1>3, <1>4, <1>5, Concatenated DEF
       Up_0002, Up_69038c284ea4, Up_5bde518ea704, Up_c8f4e2a6b9d3, Up_f3a5c7e9b1d4, Up_a7c3e5f9b1d4
  <1> QED
    BY <1>1, <1>2, <1>3, <1>4, <1>5, <1>6, SMTT(60) DEF Up

\* And so is every downgrade.
LEMMA DowngradesWhole ==
  \A i \in 1 .. 82 : Whole(Down[i])
  <1>1. Whole(Down_0001) /\ Whole(Down_0002) /\ Whole(Down_0003) /\ Whole(Down_bb20790b5a8c_races) /\
        Whole(Down_bb20790b5a8c_characters) /\ Whole(Down_bb20790b5a8c_spells) /\ Whole(Down_69038c284ea4) /\
        Whole(Down_5bde518ea704) /\ Whole(Down_ed896a68cda0) /\ Whole(Down_62ead1ad9e84) /\
        Whole(Down_0c571ff6a50e) /\ Whole(Down_ad86e093f8cb) /\ Whole(Down_7e70b8a81bb9) /\
        Whole(Down_4b17bc9bfef5) /\ Whole(Down_802345a50dc7) /\ Whole(Down_ae09bdf473f4) /\
        Whole(Down_2bea8b331f7a) /\ Whole(Down_d4c1e9b2a7f3) /\ Whole(Down_8e6cbf5381ba) /\
        Whole(Down_9f4c8e2a1b7d) /\ Whole(Down_c3f8e2a1b5d9) /\ Whole(Down_a89aff41cc17) /\
        Whole(Down_c1a2b3d4e5f6) /\ Whole(Down_d2e3f4a5b6c7)
    BY StatementsStay DEF Whole,
       Down_0001, Down_0002, Down_0003, Down_bb20790b5a8c_races, Down_bb20790b5a8c_characters,
       Down_bb20790b5a8c_spells, Down_69038c284ea4, Down_5bde518ea704, Down_ed896a68cda0, Down_62ead1ad9e84,
       Down_0c571ff6a50e, Down_ad86e093f8cb, Down_7e70b8a81bb9, Down_4b17bc9bfef5, Down_802345a50dc7,
       Down_ae09bdf473f4, Down_2bea8b331f7a, Down_d4c1e9b2a7f3, Down_8e6cbf5381ba, Down_9f4c8e2a1b7d,
       Down_c3f8e2a1b5d9, Down_a89aff41cc17, Down_c1a2b3d4e5f6, Down_d2e3f4a5b6c7
  <1>2. Whole(Down_a1b2c3d4e5f7) /\ Whole(Down_f0a1b2c3d4e5) /\ Whole(Down_f1a2b3c4d5e6) /\
        Whole(Down_e7f8a9b0c1d2) /\ Whole(Down_8a4c5d6e7f8a) /\ Whole(Down_af6347715f5e) /\
        Whole(Down_b7c2d9e4f1a8) /\ Whole(Down_a48de7f0f9b3) /\ Whole(Down_6fa86eefd557) /\
        Whole(Down_c4d7e1a9f3b2) /\ Whole(Down_b5f3d8c2e7a9) /\ Whole(Down_e2a9f4b7c6d1) /\
        Whole(Down_f7c1b8d3a5e2) /\ Whole(Down_a9d4f2e8b1c7) /\ Whole(Down_c3e7a1f9d2b4) /\
        Whole(Down_e8b5c7d9f1a3) /\ Whole(Down_f9c6d8e2b4a7) /\ Whole(Down_b8e2f4a6c9d1) /\
        Whole(Down_c5d9e8f2a4b7) /\ Whole(Down_d1e2f3a4b5c6) /\ Whole(Down_a3b4c5d6e7f8) /\
        Whole(Down_e3d5f7a9b2c4) /\ Whole(Down_f2a9c7d3b5e1) /\ Whole(Down_b3f6a2c8d4e1)
    BY StatementsStay DEF Whole,
       Down_a1b2c3d4e5f7, Down_f0a1b2c3d4e5, Down_f1a2b3c4d5e6, Down_e7f8a9b0c1d2, Down_8a4c5d6e7f8a,
       Down_af6347715f5e, Down_b7c2d9e4f1a8, Down_a48de7f0f9b3, Down_6fa86eefd557, Down_c4d7e1a9f3b2,
       Down_b5f3d8c2e7a9, Down_e2a9f4b7c6d1, Down_f7c1b8d3a5e2, Down_a9d4f2e8b1c7, Down_c3e7a1f9d2b4,
       Down_e8b5c7d9f1a3, Down_f9c6d8e2b4a7, Down_b8e2f4a6c9d1, Down_c5d9e8f2a4b7, Down_d1e2f3a4b5c6,
       Down_a3b4c5d6e7f8, Down_e3d5f7a9b2c4, Down_f2a9c7d3b5e1, Down_b3f6a2c8d4e1
  <1>3. Whole(Down_c8f4e2a6b9d3_feats) /\ Whole(Down_c8f4e2a6b9d3_engine) /\ Whole(Down_d4e6f8a2c1b3) /\
        Whole(Down_a1b2c3d4e5f6) /\ Whole(Down_f3a5c7e9b1d4_backgrounds) /\ Whole(Down_f3a5c7e9b1d4_proficiencies) /\
        Whole(Down_f0168d7c8559) /\ Whole(Down_771ee792d001) /\ Whole(Down_42d89281e627) /\
        Whole(Down_e6dde395e1a0) /\ Whole(Down_5c2b6d2ff132) /\ Whole(Down_76676c656c28) /\
        Whole(Down_c2a4e8f1b6d3) /\ Whole(Down_b7e4d1f2a9c6) /\ Whole(Down_a031c08480da) /\
        Whole(Down_47437cd77998) /\ Whole(Down_4ffb883f9582) /\ Whole(Down_705548ecfb46) /\
        Whole(Down_d2b8f6c41a97) /\ Whole(Down_e5c1a7d93f02) /\ Whole(Down_b4e8d2a6f1c3) /\
        Whole(Down_c7a3e9d1b5f2) /\ Whole(Down_d8b4f0a2c6e9) /\ Whole(Down_e2c6a8f4d0b7)
    BY StatementsStay DEF Whole,
       Down_c8f4e2a6b9d3_feats, Down_c8f4e2a6b9d3_engine, Down_d4e6f8a2c1b3, Down_a1b2c3d4e5f6,
       Down_f3a5c7e9b1d4_backgrounds, Down_f3a5c7e9b1d4_proficiencies, Down_f0168d7c8559, Down_771ee792d001,
       Down_42d89281e627, Down_e6dde395e1a0, Down_5c2b6d2ff132, Down_76676c656c28, Down_c2a4e8f1b6d3,
       Down_b7e4d1f2a9c6, Down_a031c08480da, Down_47437cd77998, Down_4ffb883f9582, Down_705548ecfb46,
       Down_d2b8f6c41a97, Down_e5c1a7d93f02, Down_b4e8d2a6f1c3, Down_c7a3e9d1b5f2, Down_d8b4f0a2c6e9,
       Down_e2c6a8f4d0b7
  <1>4. Whole(Down_f4d8b2c6a0e1) /\ Whole(Down_a5e9c3f7b1d2) /\ Whole(Down_b6f0d4a8c2e3) /\
        Whole(Down_d6a2c8e4f0b1) /\ Whole(Down_e7b2d4f6a8c0) /\ Whole(Down_f8c3e5a7b9d1) /\
        Whole(Down_a6d1f3b5c7e9) /\ Whole(Down_c4a8e2f6b1d9) /\ Whole(Down_d7b3e9a1c5f2) /\
        Whole(Down_e2c6a4f8d0b3) /\ Whole(Down_f5a1d7c3e9b2) /\ Whole(Down_a7c3e5f9b1d4) /\
        Whole(Down_b3d9f1a6c8e2) /\ Whole(Down_c8e2a4f6d1b9)
    BY StatementsStay DEF Whole,
       Down_f4d8b2c6a0e1, Down_a5e9c3f7b1d2, Down_b6f0d4a8c2e3, Down_d6a2c8e4f0b1, Down_e7b2d4f6a8c0,
       Down_f8c3e5a7b9d1, Down_a6d1f3b5c7e9, Down_c4a8e2f6b1d9, Down_d7b3e9a1c5f2, Down_e2c6a4f8d0b3,
       Down_f5a1d7c3e9b2, Down_a7c3e5f9b1d4, Down_b3d9f1a6c8e2, Down_c8e2a4f6d1b9
  <1>5. Whole(Down_bb20790b5a8c) /\ Whole(Down_c8f4e2a6b9d3) /\ Whole(Down_f3a5c7e9b1d4)
    BY <1>1, <1>2, <1>3, <1>4, Concatenated DEF
       Down_bb20790b5a8c, Down_c8f4e2a6b9d3, Down_f3a5c7e9b1d4
  <1> QED
    BY <1>1, <1>2, <1>3, <1>4, <1>5, SMTT(60) DEF Down

\* The 17th adds a label to an enum, which a transaction cannot use before its COMMIT;
\* the key that follows is in the transaction after it.
LEMMA LabelFirst == CommitsEarly(Up[17])
  <1>1. Up[17] = Up_8e6cbf5381ba
    BY DEF Up
  <1>2. /\ Len(Up_8e6cbf5381ba) = 4
        /\ \A i \in 1 .. 3 : Up_8e6cbf5381ba[i].do \in {"commit", "label"}
        /\ Stays(Up_8e6cbf5381ba[4])
    BY StatementsStay DEF Up_8e6cbf5381ba, Commit, Label
  <1>3. 3 \in 0 .. 4 /\ \A i \in 3 + 1 .. 4 : i = 4
    OBVIOUS
  <1> QED
    BY <1>1, <1>2, <1>3 DEF CommitsEarly

\* So no script of the chain commits after it has touched a table.
LEMMA ScriptsCommitEarly ==
  /\ Newest = 82
  /\ \A i \in 1 .. Newest : CommitsEarly(Up[i]) /\ CommitsEarly(Down[i])
  <1>1. Newest = 82
    BY DEF Newest, Up
  <1> QED
    BY <1>1, UpgradesWhole, DowngradesWhole, LabelFirst, EarlyOrWhole

-----------------------------------------------------------------------------
\* What every state of a deployment has: rows are in tables, and a runner that is
\* under way has not arrived.
DeployInv ==
    /\ DeployTypeOK
    /\ IsSchema(db)
    /\ \A r \in Runners : Busy(r) => runner[r].at # runner[r].goal

\* The script a runner is about to run is one of the 164.
LEMMA AttemptKeeps ==
  ASSUME DeployInv, NEW r \in Runners, Busy(r)
  PROVE  /\ IsRun(Attempt(r)) /\ IsSchema(Attempt(r).saved)
         /\ Attempt(r).saved.tables = db.tables
  <1>1. runner[r] \in [at : 0 .. 82, goal : 0 .. 82] /\ runner[r].at # runner[r].goal
    BY ScriptsCommitEarly DEF DeployInv, DeployTypeOK, AtRest
  <1>2. CASE Ascends(r)
    <2>1. CommitsEarly(Up[runner[r].at + 1])
      BY <1>1, <1>2, ScriptsCommitEarly DEF Ascends
    <2> QED
      BY <2>1, <1>2, RunKeeps DEF Attempt, DeployInv
  <1>3. CASE ~Ascends(r)
    <2>1. CommitsEarly(Down[runner[r].at])
      BY <1>1, <1>3, ScriptsCommitEarly DEF Ascends
    <2> QED
      BY <2>1, <1>3, RunKeeps DEF Attempt, DeployInv
  <1> QED
    BY <1>2, <1>3

\* A command that ends leaves its runner at rest and the others where they are.
LEMMA HaltKeeps ==
  ASSUME DeployInv, NEW r \in Runners, Halt(r)
  PROVE  /\ runner' \in [Runners -> {AtRest} \cup [at : 0 .. Newest, goal : 0 .. Newest]]
         /\ \A q \in Runners : Busy(q)' => runner[q].at' # runner[q].goal'
  BY DEF DeployInv, DeployTypeOK, Halt, Busy, AtRest

\* The empty database, nobody running.
LEMMA DeployBegins ==
  ASSUME DeployInit
  PROVE  DeployInv
  <1>1. IsSchema(db)
    BY DEF DeployInit, NoDatabase, IsSchema
  <1>2. \A r \in Runners : ~Busy(r)
    BY DEF DeployInit, Busy
  <1>3. /\ 0 \in 0 .. Newest
        /\ 0 \in 0 .. MaxUses /\ 0 \in 0 .. MaxRollbacks /\ 0 \in 0 .. MaxCrashes
    BY ScriptsCommitEarly, BoundsAssumption
  <1>4. DeployTypeOK
    BY <1>1, <1>3 DEF DeployInit, DeployTypeOK, IsSchema
  <1> QED
    BY <1>1, <1>2, <1>4 DEF DeployInv

\* Every step keeps the invariant: the scripts by AttemptKeeps, the rest by its guards.
LEMMA DeployKeeps ==
  ASSUME DeployInv, [DeployNext]_deployVars
  PROVE  DeployInv'
  <1> USE DEF deployVars, bounds
  <1>0. /\ Newest = 82 /\ Floor \in Nat /\ Releases \subseteq 0 .. Newest
        /\ MaxUses \in Nat /\ MaxRollbacks \in Nat /\ MaxCrashes \in Nat
    BY ScriptsCommitEarly, ReleasesAssumption, BoundsAssumption
  <1>1. ASSUME NEW r \in Runners, NEW head \in Releases, Start(r, head) PROVE DeployInv'
    BY <1>1, <1>0 DEF Start, DeployInv, DeployTypeOK, Busy, AtRest, IsSchema
  <1>2. ASSUME NEW r \in Runners, Rollback(r) PROVE DeployInv'
    BY <1>2, <1>0 DEF Rollback, DeployInv, DeployTypeOK, Busy, AtRest, IsSchema
  <1>3. ASSUME NEW r \in Runners, Advance(r) PROVE DeployInv'
    <2>1. IsSchema(db')
      BY <1>3, AttemptKeeps DEF Advance, Left, Snapshot, IsSchema, IsRun
    <2>2. runner[r] \in [at : 0 .. 82, goal : 0 .. 82] /\ runner[r].at # runner[r].goal
      BY <1>3, <1>0 DEF Advance, DeployInv, DeployTypeOK, AtRest
    <2>3. Beyond(r) \in 0 .. 82
      BY <2>2 DEF Beyond, Ascends
    <2>4. /\ runner' \in [Runners -> {AtRest} \cup [at : 0 .. Newest, goal : 0 .. Newest]]
          /\ \A q \in Runners : Busy(q)' => runner[q].at' # runner[q].goal'
      BY <1>3, <1>0, <2>2, <2>3 DEF Advance, DeployInv, DeployTypeOK, Busy, AtRest
    <2> QED
      BY <1>3, <1>0, <2>1, <2>3, <2>4 DEF Advance, DeployInv, DeployTypeOK, IsSchema
  <1>4. ASSUME NEW r \in Runners, Stop(r) PROVE DeployInv'
    <2>1. IsSchema(db')
      BY <1>4, AttemptKeeps DEF Stop
    <2> QED
      BY <1>4, <2>1, HaltKeeps DEF Stop, DeployInv, DeployTypeOK, IsSchema
  <1>5. ASSUME NEW r \in Runners, Crash(r) PROVE DeployInv'
    <2>1. IsSchema(db')
      BY <1>5, AttemptKeeps DEF Crash, DeployInv
    <2>2. crashes' \in 0 .. MaxCrashes
      BY <1>5, <1>0 DEF Crash, DeployInv, DeployTypeOK
    <2> QED
      BY <1>5, <2>1, <2>2, HaltKeeps DEF Crash, DeployInv, DeployTypeOK, IsSchema
  <1>6. CASE Use
    <2>1. IsSchema(db')
      <3>1. PICK ts \in Filled(db) : db' = [db EXCEPT !.rows = @ \cup ts]
        BY <1>6 DEF Use
      <3> QED
        BY <3>1 DEF Filled, DeployInv, IsSchema
    <2>2. uses' \in 0 .. MaxUses
      BY <1>6, <1>0 DEF Use, DeployInv, DeployTypeOK
    <2> QED
      BY <1>6, <2>1, <2>2 DEF Use, DeployInv, DeployTypeOK, IsSchema, Busy
  <1>7. CASE Clean
    BY <1>7 DEF Clean, DeployInv, DeployTypeOK, IsSchema, Busy
  <1>8. CASE Deployed \/ UNCHANGED deployVars
    BY <1>8 DEF Deployed, DeployInv, DeployTypeOK, IsSchema, Busy
  <1> QED
    BY <1>1, <1>2, <1>3, <1>4, <1>5, <1>6, <1>7, <1>8 DEF DeployNext

\* The invariant of a deployment.
LEMMA DeployAlways == DeploySpec => []DeployInv
  BY DeployBegins, DeployKeeps, PTL DEF DeploySpec

\* Types, and that no script of the chain leaves rows of a table it has dropped,
\* also after a failure half way (src/migrations/versions).
THEOREM DeployTyped == DeploySpec => []DeployTypeOK
  <1>1. DeployInv => DeployTypeOK
    BY DEF DeployInv
  <1> QED
    BY <1>1, DeployAlways, PTL

\* Whatever leaves the version alone leaves the tables alone; Advance always moves it by one.
LEMMA StepKeepsSchema ==
  ASSUME DeployInv, [DeployNext]_deployVars, version' = version
  PROVE  db'.tables = db.tables
  <1> USE DEF deployVars, bounds
  <1>1. ASSUME NEW r \in Runners, NEW head \in Releases, Start(r, head) PROVE db' = db
    BY <1>1 DEF Start
  <1>2. ASSUME NEW r \in Runners, Rollback(r) PROVE db' = db
    BY <1>2 DEF Rollback
  <1>3. ASSUME NEW r \in Runners, Advance(r) PROVE FALSE
    BY <1>3, ScriptsCommitEarly DEF Advance, Beyond, DeployInv, DeployTypeOK
  <1>4. ASSUME NEW r \in Runners, Stop(r) \/ Crash(r) PROVE db'.tables = db.tables
    BY <1>4, AttemptKeeps DEF Stop, Crash
  <1>5. CASE Use
    BY <1>5 DEF Use, DeployInv, IsSchema
  <1>6. CASE Clean \/ Deployed \/ UNCHANGED deployVars
    BY <1>6 DEF Clean, Deployed
  <1> QED
    BY <1>1, <1>2, <1>3, <1>4, <1>5, <1>6 DEF DeployNext

\* Nothing is half-applied: without a move of the version no table changes, with any
\* number of containers, crashes inside scripts, stale runners and rollbacks
\* (src/migrations/env.py, transaction_per_migration).
THEOREM NothingHalfApplied == DeploySpec => SchemaMovesWithVersion
  <1>1. DeployInv /\ [DeployNext]_deployVars => [version' = version => db'.tables = db.tables]_deployVars
    BY StepKeepsSchema
  <1> QED
    BY <1>1, DeployAlways, PTL DEF DeploySpec, SchemaMovesWithVersion
=============================================================================
