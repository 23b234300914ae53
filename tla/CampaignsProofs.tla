--------------------------- MODULE CampaignsProofs ---------------------------
(***************************************************************************)
(* Campaigns keeps its promises for every number of campaigns, characters, *)
(* users, rows and requests: SeatsAgree, AutoNumberFree, HistoryKept,      *)
(* and ReviewsKept; and it implements CampaignSeats (RosterPromise).       *)
(*                                                                         *)
(* A request that holds a campaign's row knows between its check and its   *)
(* write what it read (Known), because whoever else moves meanwhile holds  *)
(* another campaign or only takes rows away with a character or an account *)
(* (Undisturbed): no row changes its campaign and no id comes back.        *)
(***************************************************************************)
EXTENDS Campaigns, TLAPS, FiniteSetTheorems, WellFoundedInduction

-----------------------------------------------------------------------------
(* The invariant.                                                          *)

Founders == {"hide", "unhide"}    \* the operations outside the lock

\* A request that works on a campaign holds its row.
Working(r) == req[r].step # "idle" /\ req[r].op \notin Founders

HoldsRow(r) ==
    /\ IF Working(r) THEN req[r].campaign \in DOMAIN campaign /\ lock[req[r].campaign] = r
                     ELSE req[r].op \in {""} \cup Founders /\ "player" \notin req[r].as
    /\ req[r].step = "locked" => req[r].op = ""

Held == \A r \in Requests : HoldsRow(r)

\* The rows of the roster agree with each other.
Seated(p) == part[p].status = "ACTIVE"

RowsAgree ==
    /\ \A p \in DOMAIN part :
            /\ part[p].user = OwnerOf[part[p].character]
            /\ part[p].ended = "" <=> Seated(p)
    /\ \A p, q \in DOMAIN part :
            Seated(p) /\ Seated(q) /\ part[p].character = part[q].character => p = q

\* What a request read under the lock, while rows may go with their character.
KnowsCaller(r) ==
    "player" \in req[r].as => IsPlayer(req[r].campaign, req[r].user) \/ HasDeleted(req[r].user)

KnowsAdd(r) ==
    req[r].op = "add" =>
        /\ req[r].on \in Characters
        /\ ~campaign[req[r].campaign].closed /\ ~campaign[req[r].campaign].archived

KnowsStatus(r) ==
    req[r].op = "status" =>
        /\ req[r].on \in issued \cap PartIds /\ req[r].status \in Ended
        /\ req[r].on \in DOMAIN part =>
                /\ part[req[r].on].campaign = req[r].campaign
                /\ part[req[r].on].ended = req[r].ended
                /\ StatusChangeAllowed(part[req[r].on].status, req[r].status)

KnowsNumber(r) ==
    req[r].op \in {"auto", "number"} =>
        /\ req[r].number \in 1..MaxNumber
        /\ req[r].op = "auto" => NumberFree(req[r].campaign, req[r].number)

KnowsAttendance(r) ==
    req[r].op = "attendance" =>
        /\ req[r].on \in issued /\ req[r].set \subseteq issued
        /\ req[r].on \in DOMAIN session => session[req[r].on].campaign = req[r].campaign
        /\ \A p \in req[r].set \cap DOMAIN part : part[p].campaign = req[r].campaign

KnowsScope(r) ==
    req[r].op = "review" =>
        /\ "player" \in req[r].as
        /\ req[r].on = req[r].campaign \/ req[r].on \in issued \cap SessionIds
        /\ req[r].on \in DOMAIN session =>
                session[req[r].on].campaign = req[r].campaign /\ session[req[r].on].published

Known(r) ==
    /\ KnowsCaller(r) /\ KnowsAdd(r) /\ KnowsStatus(r)
    /\ KnowsNumber(r) /\ KnowsAttendance(r) /\ KnowsScope(r)

Knowing == \A r \in Requests : Known(r)

\* The types of the tables, and what refers to what.
RowsTyped ==
    /\ campaign \in [DOMAIN campaign -> CampaignRow] /\ DOMAIN campaign \subseteq Campaigns
    /\ part \in [DOMAIN part -> Participation] /\ DOMAIN part \subseteq PartIds \cap issued
    /\ session \in [DOMAIN session -> SessionRow] /\ DOMAIN session \subseteq SessionIds \cap issued
    /\ review \in [DOMAIN review -> Review] /\ DOMAIN review \subseteq ReviewIds \cap issued
    /\ issued \subseteq PartIds \cup SessionIds \cup ReviewIds

RowsLinked ==
    /\ users \subseteq Users
    /\ characters \subseteq {h \in Characters : OwnerOf[h] \in users}
    /\ \A p \in DOMAIN part : /\ part[p].campaign \in DOMAIN campaign
                              /\ part[p].character \in characters
    /\ \A s \in DOMAIN session : /\ session[s].campaign \in DOMAIN campaign
                                 /\ session[s].attended \subseteq DOMAIN part
    /\ \A v \in DOMAIN review : /\ review[v].scope \in DOMAIN campaign \cup DOMAIN session
                                /\ review[v].author \in users

RowsSound == RowsTyped /\ RowsLinked /\ RowsAgree /\ ClosedHoldsNobody /\ AttendanceOfOwnTable

\* What a request carries.
Local == [step : {"idle", "locked", "checked"}, op : Ops,
          campaign : Campaigns \cup {Null}, user : Users \cup {NoUser},
          as : SUBSET {"gm", "player"},
          on : Characters \cup PartIds \cup Campaigns \cup SessionIds \cup ReviewIds \cup {Null},
          status : Statuses \cup {""}, ended : Ended \cup {""}, number : 0..MaxNumber,
          set : SUBSET PartIds]

Locks == [Campaigns -> Requests \cup {NoRequest}]

IInv == RowsSound /\ lock \in Locks /\ req \in [Requests -> Local] /\ Held /\ Knowing
-----------------------------------------------------------------------------
(* Types.                                                                  *)

LEMMA InvType == IInv => TypeOK
  <1> SUFFICES ASSUME IInv PROVE TypeOK
    OBVIOUS
  <1>1. Tables
    BY DEF IInv, RowsSound, RowsTyped, Tables
  <1> QED
    BY <1>1 DEF IInv, RowsSound, RowsTyped, RowsLinked, Local, Locks, TypeOK

LEMMA IdleType ==
  /\ Idle \in Local
  /\ Idle.step = "idle" /\ Idle.op = "" /\ Idle.as = {}
  BY BoundAssumption DEF Idle, At, Local, Ops

-----------------------------------------------------------------------------
(* The initial states.                                                     *)

LEMMA InitInv == Init => IInv
  <1> SUFFICES ASSUME Init PROVE IInv
    OBVIOUS
  <1>1. /\ DOMAIN campaign = {} /\ DOMAIN part = {} /\ DOMAIN session = {} /\ DOMAIN review = {}
        /\ \A S : NoRows \in [{} -> S]
    BY DEF Init, NoRows
  <1>2. RowsTyped
    BY <1>1 DEF Init, RowsTyped
  <1>3. RowsLinked /\ RowsAgree /\ ClosedHoldsNobody /\ AttendanceOfOwnTable
    BY <1>1, OwnerAssumption
    DEF Init, RowsLinked, RowsAgree, ClosedHoldsNobody, AttendanceOfOwnTable
  <1>4. lock \in Locks /\ req \in [Requests -> Local] /\ \A r \in Requests : req[r] = Idle
    BY IdleType DEF Init, Locks
  <1>5. Held
    BY <1>4, IdleType DEF Held, HoldsRow, Working
  <1>6. Knowing
    BY <1>4, IdleType DEF Knowing, Known, KnowsCaller, KnowsAdd, KnowsStatus, KnowsNumber,
       KnowsAttendance, KnowsScope
  <1> QED
    BY <1>2, <1>3, <1>4, <1>5, <1>6 DEF IInv, RowsSound

-----------------------------------------------------------------------------
(* What a request knows stays true while it waits.                         *)

\* What a step leaves alone of a campaign whose row its request does not hold.
Undisturbed(c) ==
    /\ issued \subseteq issued' /\ characters' \subseteq characters
    /\ c \in DOMAIN campaign =>
            /\ c \in DOMAIN campaign'
            /\ campaign'[c].closed = campaign[c].closed
            /\ campaign'[c].archived = campaign[c].archived
    /\ \A p \in PartsOf(c) : p \in DOMAIN part' \/ part[p].character \notin characters'
    /\ \A p \in DOMAIN part' \cap issued :
            /\ p \in DOMAIN part /\ part'[p].campaign = part[p].campaign
            /\ part[p].campaign = c => part'[p] = part[p]
    /\ \A s \in DOMAIN session' \cap issued :
            s \in DOMAIN session /\ session'[s].campaign = session[s].campaign
    /\ \A s \in DOMAIN session' : session'[s].campaign = c =>
            /\ s \in DOMAIN session
            /\ session'[s].number = session[s].number
            /\ session'[s].published = session[s].published

\* Nothing is disturbed by a step that changes no table.
LEMMA TablesKept ==
  ASSUME UNCHANGED <<users, characters, campaign, part, session, review, issued>>, IInv
  PROVE  RowsSound' /\ \A c \in Campaigns : Undisturbed(c)
  <1>1. RowsTyped' /\ RowsLinked'
    BY DEF IInv, RowsSound, RowsTyped, RowsLinked
  <1>2. RowsAgree' /\ ClosedHoldsNobody' /\ AttendanceOfOwnTable'
    BY DEF IInv, RowsSound, RowsAgree, Seated, ClosedHoldsNobody, AttendanceOfOwnTable, PartsOf
  <1>3. \A c \in Campaigns : Undisturbed(c)
    BY DEF IInv, RowsSound, RowsTyped, Undisturbed, PartsOf
  <1> QED
    BY <1>1, <1>2, <1>3 DEF RowsSound

\* A player stays a player or has lost a character.
LEMMA PlayerStays ==
  ASSUME IInv, NEW c \in Campaigns, NEW u \in Users, Undisturbed(c),
         IsPlayer(c, u) \/ HasDeleted(u)
  PROVE  IsPlayer(c, u)' \/ HasDeleted(u)'
  <1>1. CASE HasDeleted(u)
    BY <1>1 DEF HasDeleted, Undisturbed
  <1>2. CASE IsPlayer(c, u)
    <2>1. PICK p \in PartsOf(c) : part[p].user = u /\ part[p].status # "REMOVED"
      BY <1>2 DEF IsPlayer
    <2>2. /\ p \in DOMAIN part /\ p \in issued /\ part[p].campaign = c
          /\ part[p].character \in Characters /\ OwnerOf[part[p].character] = u
      BY <2>1 DEF PartsOf, IInv, RowsSound, RowsTyped, RowsLinked, RowsAgree, Participation
    <2>3. CASE p \in DOMAIN part'
      BY <2>1, <2>2, <2>3 DEF Undisturbed, IsPlayer, PartsOf
    <2>4. CASE part[p].character \notin characters'
      BY <2>2, <2>4 DEF HasDeleted
    <2> QED
      BY <2>1, <2>3, <2>4 DEF Undisturbed
  <1> QED
    BY <1>1, <1>2

\* What a request knows survives every step that leaves its campaign alone.
LEMMA KnownStays ==
  ASSUME IInv, RowsTyped', NEW s \in Requests, req'[s] = req[s],
         Working(s) => Undisturbed(req[s].campaign)
  PROVE  Known(s)'
  <1>1. /\ req[s] \in Local /\ Known(s) /\ HoldsRow(s)
        /\ RowsTyped /\ Known(s)
    BY DEF IInv, Knowing, Held, RowsSound
  <1>2. CASE ~Working(s)
    <2>1. "player" \notin req[s].as /\ req[s].op \in {""} \cup Founders
      BY <1>1, <1>2 DEF HoldsRow
    <2> QED
      BY <2>1 DEF Founders, Known, KnowsCaller, KnowsAdd, KnowsStatus, KnowsNumber,
         KnowsAttendance, KnowsScope
  <1>3. CASE Working(s)
    <2> DEFINE c == req[s].campaign
    <2>1. c \in DOMAIN campaign /\ c \in Campaigns /\ Undisturbed(c)
      BY <1>1, <1>3 DEF HoldsRow, RowsTyped
    <2>2. KnowsCaller(s)'
      <3> SUFFICES ASSUME "player" \in req[s].as
                   PROVE  IsPlayer(c, req[s].user)' \/ HasDeleted(req[s].user)'
        BY DEF KnowsCaller
      <3>1. IsPlayer(c, req[s].user) \/ HasDeleted(req[s].user)
        BY <1>1 DEF Known, KnowsCaller
      <3>2. req[s].user \in Users
        BY <3>1, <1>1, OwnerAssumption DEF IsPlayer, HasDeleted, PartsOf, RowsTyped, Participation
      <3> QED
        BY <3>1, <3>2, <2>1, PlayerStays
    <2>3. KnowsAdd(s)'
      BY <1>1, <2>1 DEF Known, KnowsAdd, Undisturbed
    <2>4. KnowsStatus(s)'
      BY <1>1, <2>1 DEF Known, KnowsStatus, Undisturbed
    <2>5. KnowsNumber(s)'
      BY <1>1, <2>1 DEF Known, KnowsNumber, Undisturbed, NumberFree, SessionsOf, RowsTyped
    <2>6. KnowsAttendance(s)'
      BY <1>1, <2>1 DEF Known, KnowsAttendance, Undisturbed
    <2>7. KnowsScope(s)'
      BY <1>1, <2>1, ScopeAssumption DEF Known, KnowsScope, Undisturbed, RowsTyped
    <2> QED
      BY <2>2, <2>3, <2>4, <2>5, <2>6, <2>7 DEF Known
  <1> QED
    BY <1>2, <1>3

-----------------------------------------------------------------------------
(* One request's turn.                                                     *)

\* The request that moves keeps the invariant if the tables stay sound, what
\* it goes on with is right and no other request's campaign is disturbed.
LEMMA Turn ==
  ASSUME IInv, NEW r \in Requests, NEW x \in Local, req' = [req EXCEPT ![r] = x],
         RowsSound', lock' \in Locks,
         \A c \in DOMAIN campaign : c \in DOMAIN campaign',
         \A c \in Campaigns : lock[c] \in Requests \ {r} => lock'[c] = lock[c] /\ Undisturbed(c),
         HoldsRow(r)', Known(r)'
  PROVE  IInv'
  <1>1. req \in [Requests -> Local] /\ lock \in Locks /\ RowsTyped /\ RowsTyped'
    BY DEF IInv, RowsSound
  <1>2. req' \in [Requests -> Local]
    BY <1>1
  <1>3. ASSUME NEW s \in Requests, s # r
        PROVE  HoldsRow(s)' /\ Known(s)'
    <2>1. req'[s] = req[s] /\ HoldsRow(s)
      BY <1>1, <1>3 DEF IInv, Held
    <2>2. CASE Working(s)
      <3>1. /\ req[s].campaign \in DOMAIN campaign /\ req[s].campaign \in Campaigns
            /\ lock[req[s].campaign] = s
        BY <1>1, <2>1, <2>2 DEF HoldsRow, RowsTyped
      <3>2. lock'[req[s].campaign] = s /\ Undisturbed(req[s].campaign)
        BY <3>1, <1>3
      <3>3. HoldsRow(s)'
        BY <2>1, <2>2, <3>1, <3>2 DEF HoldsRow, Working
      <3> QED
        BY <2>1, <3>2, <3>3, <1>1, KnownStays
    <2>3. CASE ~Working(s)
      <3>1. HoldsRow(s)'
        BY <2>1, <2>3 DEF HoldsRow, Working
      <3> QED
        BY <2>1, <2>3, <3>1, <1>1, KnownStays
    <2> QED
      BY <2>2, <2>3
  <1>4. Held' /\ Knowing'
    BY <1>3 DEF Held, Knowing
  <1> QED
    BY <1>2, <1>4 DEF IInv

\* A step between two statements of a request that changes no table.
LEMMA Reads ==
  ASSUME IInv, NEW r \in Requests, NEW x \in Local, req' = [req EXCEPT ![r] = x],
         UNCHANGED <<users, characters, campaign, part, session, review, issued>>,
         lock' \in Locks, \A c \in Campaigns : lock[c] \in Requests \ {r} => lock'[c] = lock[c],
         HoldsRow(r)', Known(r)'
  PROVE  IInv'
  BY TablesKept, Turn

\* The last statement of a request, or its rollback.
LEMMA Finishes ==
  ASSUME IInv, NEW r \in Requests, Release(r), RowsSound',
         \A c \in DOMAIN campaign : c \in DOMAIN campaign',
         \A c \in Campaigns : lock[c] # r => Undisturbed(c)
  PROVE  IInv'
  <1>1. req \in [Requests -> Local] /\ lock \in Locks
    BY DEF IInv
  <1>2. req' = [req EXCEPT ![r] = Idle] /\ req'[r] = Idle
    BY <1>1 DEF Release
  <1>3. lock' \in Locks /\ \A c \in Campaigns : lock[c] # r => lock'[c] = lock[c]
    BY <1>1 DEF Release, Locks
  <1>4. HoldsRow(r)'
    BY <1>2, IdleType DEF HoldsRow, Working
  <1>5. Known(r)'
    BY <1>2, IdleType DEF Known, KnowsCaller, KnowsAdd, KnowsStatus, KnowsNumber,
       KnowsAttendance, KnowsScope
  <1> QED
    BY <1>2, <1>3, <1>4, <1>5, IdleType, Turn

\* A step of nobody's request.
LEMMA Outside ==
  ASSUME IInv, UNCHANGED <<lock, req>>, RowsSound',
         \A c \in DOMAIN campaign : c \in DOMAIN campaign',
         \A c \in Campaigns : Undisturbed(c)
  PROVE  IInv'
  <1>1. RowsTyped /\ RowsTyped' /\ Held /\ Knowing
    BY DEF IInv, RowsSound
  <1>2. ASSUME NEW s \in Requests PROVE HoldsRow(s)' /\ Known(s)'
    <2>1. HoldsRow(s) /\ req'[s] = req[s]
      BY <1>1 DEF Held
    <2>2. HoldsRow(s)'
      BY <2>1 DEF HoldsRow, Working
    <2>3. Working(s) => Undisturbed(req[s].campaign)
      BY <2>1, <1>1 DEF HoldsRow, RowsTyped
    <2> QED
      BY <2>1, <2>2, <2>3, <1>1, KnownStays
  <1> QED
    BY <1>2 DEF IInv, Held, Knowing

-----------------------------------------------------------------------------
(* Taking the row, and the reads under it.                                 *)

LEMMA BeginInv ==
  ASSUME IInv, NEW r \in Requests, NEW c \in Campaigns, NEW u \in Users, Begin(r, c, u)
  PROVE  IInv'
  <1> DEFINE x == At("locked", "", c, u, Standing(c, u), Null)
  <1>1. req \in [Requests -> Local] /\ lock \in Locks /\ c \in DOMAIN campaign
    BY DEF IInv, Begin
  <1>2. /\ Standing(c, u) \in SUBSET {"gm", "player"}
        /\ "player" \in Standing(c, u) => IsPlayer(c, u)
    BY DEF Standing
  <1>3. /\ x \in Local /\ x.step = "locked" /\ x.op = "" /\ x.campaign = c
        /\ x.user = u /\ x.as = Standing(c, u)
    <2> PICK roles \in SUBSET {"gm", "player"} : roles = Standing(c, u)
      BY <1>2
    <2> QED
      BY BoundAssumption DEF At, Ops, Local
  <1> HIDE DEF x
  <1>4. /\ req' = [req EXCEPT ![r] = x] /\ req'[r] = x
        /\ lock' = [lock EXCEPT ![c] = r] /\ lock[c] = NoRequest
        /\ UNCHANGED <<users, characters, campaign, part, session, review, issued>>
    BY <1>1 DEF Begin, x
  <1>5. lock' \in Locks /\ \A d \in Campaigns : lock[d] \in Requests \ {r} => lock'[d] = lock[d]
    BY <1>1, <1>4, NullAssumption DEF Locks
  <1>6. HoldsRow(r)'
    BY <1>1, <1>3, <1>4 DEF HoldsRow, Working, Founders, Locks
  <1>7. Known(r)'
    BY <1>2, <1>3, <1>4 DEF Known, KnowsCaller, KnowsAdd, KnowsStatus, KnowsNumber,
       KnowsAttendance, KnowsScope, IsPlayer, PartsOf
  <1> QED
    BY <1>3, <1>4, <1>5, <1>6, <1>7, Reads

\* A check that passed under the lock.
LEMMA Checks ==
  ASSUME IInv, NEW r \in Requests, NEW x \in Local,
         req' = [req EXCEPT ![r] = x],
         UNCHANGED <<users, characters, campaign, part, session, review, issued, lock>>,
         req[r].step = "locked", x.step = "checked", x.op \notin Founders,
         x.campaign = req[r].campaign, x.user = req[r].user, x.as = req[r].as,
         KnowsAdd(r)', KnowsStatus(r)', KnowsNumber(r)', KnowsAttendance(r)', KnowsScope(r)'
  PROVE  IInv'
  <1>1. /\ req \in [Requests -> Local] /\ lock \in Locks /\ HoldsRow(r) /\ KnowsCaller(r)
    BY DEF IInv, Held, Knowing, Known
  <1>2. req'[r] = x
    BY <1>1
  <1>3. HoldsRow(r)'
    BY <1>1, <1>2 DEF HoldsRow, Working, Founders
  <1>4. Known(r)'
    BY <1>1, <1>2 DEF Known, KnowsCaller, IsPlayer, PartsOf, HasDeleted
  <1> QED
    BY <1>1, <1>3, <1>4, Reads

LEMMA OpNames ==
  /\ {"add", "status", "auto", "number", "attendance", "review"} \subseteq Ops \ Founders
  /\ Founders \subseteq Ops
  BY DEF Ops, Founders

LEMMA CheckedType ==
  ASSUME IInv, NEW r \in Requests, NEW op \in Ops,
         NEW on \in Characters \cup PartIds \cup Campaigns \cup SessionIds \cup {Null}
  PROVE  LET x == Checked(r, op, on)
         IN  /\ x \in Local /\ x.step = "checked" /\ x.op = op /\ x.on = on
             /\ x.campaign = req[r].campaign /\ x.user = req[r].user /\ x.as = req[r].as
  <1>1. req[r] \in Local
    BY DEF IInv
  <1> QED
    BY ZenonT(40), <1>1 DEF Checked, Local

LEMMA CheckAddInv ==
  ASSUME IInv, NEW r \in Requests, NEW h \in Characters, CheckAdd(r, h)
  PROVE  IInv'
  <1> DEFINE x == Checked(r, "add", h)
  <1>1. /\ x \in Local /\ x.step = "checked" /\ x.op = "add" /\ x.on = h
        /\ x.campaign = req[r].campaign /\ x.user = req[r].user /\ x.as = req[r].as
    BY OpNames, CheckedType
  <1>2. /\ req' = [req EXCEPT ![r] = x] /\ req[r].step = "locked"
        /\ UNCHANGED <<users, characters, campaign, part, session, review, issued, lock>>
        /\ ~campaign[req[r].campaign].closed /\ ~campaign[req[r].campaign].archived
    BY DEF CheckAdd, GmHolds
  <1> HIDE DEF x
  <1>3. req'[r] = x
    BY <1>2 DEF IInv
  <1>4. KnowsAdd(r)'
    BY <1>1, <1>2, <1>3 DEF KnowsAdd
  <1>5. KnowsStatus(r)' /\ KnowsNumber(r)' /\ KnowsAttendance(r)' /\ KnowsScope(r)'
    BY <1>1, <1>3 DEF KnowsStatus, KnowsNumber, KnowsAttendance, KnowsScope
  <1> QED
    BY <1>1, <1>2, <1>4, <1>5, Checks DEF Founders

LEMMA CheckStatusInv ==
  ASSUME IInv, NEW r \in Requests, NEW p \in PartIds, NEW target \in Ended,
         CheckStatus(r, p, target)
  PROVE  IInv'
  <1> DEFINE y == Checked(r, "status", p)
             x == [y EXCEPT !.status = target, !.ended = part[p].ended]
  <1>1. /\ y \in Local /\ y.step = "checked" /\ y.op = "status" /\ y.on = p
        /\ y.campaign = req[r].campaign /\ y.user = req[r].user /\ y.as = req[r].as
    BY OpNames, CheckedType
  <1>2. /\ req' = [req EXCEPT ![r] = x] /\ req[r].step = "locked"
        /\ UNCHANGED <<users, characters, campaign, part, session, review, issued, lock>>
        /\ p \in PartsOf(req[r].campaign) /\ StatusChangeAllowed(part[p].status, target)
    BY DEF CheckStatus, GmHolds
  <1>3. /\ p \in DOMAIN part /\ p \in issued /\ part[p].campaign = req[r].campaign
        /\ part[p].ended \in Ended \cup {""}
    BY <1>2 DEF PartsOf, IInv, RowsSound, RowsTyped, Participation
  <1> HIDE DEF y
  <1>4. /\ x \in Local /\ x.step = "checked" /\ x.op = "status" /\ x.on = p
        /\ x.campaign = req[r].campaign /\ x.user = req[r].user /\ x.as = req[r].as
        /\ x.status = target /\ x.ended = part[p].ended
    BY <1>1, <1>3 DEF Local, Statuses
  <1> HIDE DEF x
  <1>5. req'[r] = x
    BY <1>2 DEF IInv
  <1>6. KnowsStatus(r)'
    <2>1. /\ req'[r].on = p /\ req'[r].campaign = req[r].campaign /\ req'[r].status = target
          /\ req'[r].ended = part[p].ended /\ issued' = issued /\ part' = part
      BY <1>2, <1>4, <1>5
    <2>2. StatusChangeAllowed(part'[req'[r].on].status, req'[r].status)
      BY <1>2, <2>1
    <2> QED
      BY <1>3, <2>1, <2>2 DEF KnowsStatus
  <1>7. KnowsAdd(r)' /\ KnowsNumber(r)' /\ KnowsAttendance(r)' /\ KnowsScope(r)'
    BY <1>4, <1>5 DEF KnowsAdd, KnowsNumber, KnowsAttendance, KnowsScope
  <1> QED
    BY <1>2, <1>4, <1>6, <1>7, Checks, OpNames

LEMMA CheckAttendanceInv ==
  ASSUME IInv, NEW r \in Requests, NEW s \in SessionIds, NEW ps \in SUBSET PartIds,
         CheckAttendance(r, s, ps)
  PROVE  IInv'
  <1> DEFINE y == Checked(r, "attendance", s)
             x == [y EXCEPT !.set = ps]
  <1>1. /\ y \in Local /\ y.step = "checked" /\ y.op = "attendance" /\ y.on = s
        /\ y.campaign = req[r].campaign /\ y.user = req[r].user /\ y.as = req[r].as
    BY OpNames, CheckedType
  <1>2. /\ req' = [req EXCEPT ![r] = x] /\ req[r].step = "locked"
        /\ UNCHANGED <<users, characters, campaign, part, session, review, issued, lock>>
        /\ s \in SessionsOf(req[r].campaign) /\ ps \subseteq PartsOf(req[r].campaign)
    BY DEF CheckAttendance, GmHolds
  <1>3. /\ s \in issued /\ session[s].campaign = req[r].campaign /\ ps \subseteq issued
        /\ \A p \in ps : part[p].campaign = req[r].campaign
    BY <1>2 DEF PartsOf, SessionsOf, IInv, RowsSound, RowsTyped
  <1> HIDE DEF y
  <1>4. /\ x \in Local /\ x.step = "checked" /\ x.op = "attendance" /\ x.on = s
        /\ x.campaign = req[r].campaign /\ x.user = req[r].user /\ x.as = req[r].as
        /\ x.set = ps
    BY <1>1 DEF Local
  <1> HIDE DEF x
  <1>5. req'[r] = x
    BY <1>2 DEF IInv
  <1>6. KnowsAttendance(r)'
    BY <1>2, <1>3, <1>4, <1>5 DEF KnowsAttendance
  <1>7. KnowsAdd(r)' /\ KnowsNumber(r)' /\ KnowsStatus(r)' /\ KnowsScope(r)'
    BY <1>4, <1>5 DEF KnowsAdd, KnowsNumber, KnowsStatus, KnowsScope
  <1> QED
    BY <1>2, <1>4, <1>6, <1>7, Checks, OpNames

LEMMA CheckReviewInv ==
  ASSUME IInv, NEW r \in Requests, NEW scope \in Campaigns \cup SessionIds, CheckReview(r, scope)
  PROVE  IInv'
  <1> DEFINE x == Checked(r, "review", scope)
  <1>1. /\ x \in Local /\ x.step = "checked" /\ x.op = "review" /\ x.on = scope
        /\ x.campaign = req[r].campaign /\ x.user = req[r].user /\ x.as = req[r].as
    BY OpNames, CheckedType
  <1>2. /\ req' = [req EXCEPT ![r] = x] /\ req[r].step = "locked"
        /\ UNCHANGED <<users, characters, campaign, part, session, review, issued, lock>>
        /\ "player" \in req[r].as
        /\ \/ scope = req[r].campaign
           \/ scope \in SessionsOf(req[r].campaign) /\ session[scope].published
    BY DEF CheckReview
  <1>3. HoldsRow(r) /\ RowsTyped
    BY DEF IInv, Held, RowsSound
  <1>4. req[r].campaign \in Campaigns
    BY <1>2, <1>3 DEF HoldsRow, Working, Founders, RowsTyped
  <1>5. /\ scope = req[r].campaign \/ scope \in issued \cap SessionIds
        /\ scope \in DOMAIN session => session[scope].campaign = req[r].campaign /\ session[scope].published
    BY <1>2, <1>3, <1>4, ScopeAssumption DEF RowsTyped, SessionsOf
  <1> HIDE DEF x
  <1>6. req'[r] = x
    BY <1>2 DEF IInv
  <1>7. KnowsScope(r)'
    BY <1>1, <1>2, <1>5, <1>6 DEF KnowsScope
  <1>8. KnowsAdd(r)' /\ KnowsNumber(r)' /\ KnowsStatus(r)' /\ KnowsAttendance(r)'
    BY <1>1, <1>6 DEF KnowsAdd, KnowsNumber, KnowsStatus, KnowsAttendance
  <1> QED
    BY <1>1, <1>2, <1>7, <1>8, Checks, OpNames

LEMMA ReadReviewInv ==
  ASSUME IInv, NEW r \in Requests, NEW v \in ReviewIds, NEW hidden \in BOOLEAN,
         ReadReview(r, v, hidden)
  PROVE  IInv'
  <1> DEFINE op == IF hidden THEN "hide" ELSE "unhide"
             x == At("checked", op, Null, NoUser, {}, v)
  <1>1. op \in Founders /\ op \in Ops
    BY DEF Founders, Ops
  <1>2. /\ req' = [req EXCEPT ![r] = x] /\ req[r].step = "idle"
        /\ UNCHANGED <<users, characters, campaign, part, session, review, issued, lock>>
    BY DEF ReadReview
  <1> HIDE DEF op
  <1>3. /\ x \in Local /\ x.step = "checked" /\ x.op = op /\ x.as = {}
    BY <1>1, BoundAssumption DEF At, Local
  <1> HIDE DEF x
  <1>4. req'[r] = x /\ lock \in Locks
    BY <1>2 DEF IInv
  <1>5. HoldsRow(r)'
    BY <1>1, <1>3, <1>4 DEF HoldsRow, Working
  <1>6. Known(r)'
    BY <1>1, <1>3, <1>4 DEF Known, KnowsCaller, KnowsAdd, KnowsStatus, KnowsNumber,
       KnowsAttendance, KnowsScope, Founders
  <1> QED
    BY <1>2, <1>3, <1>4, <1>5, <1>6, Reads

-----------------------------------------------------------------------------
(* Session numbers.                                                        *)

\* A set of numbers has a least one: among the intervals from 0 to its
\* members one is minimal for inclusion.
LEMMA Least ==
  ASSUME NEW S \in SUBSET Nat, S # {}
  PROVE  \E n \in S : \A m \in S : n <= m
  <1> PICK b \in S : TRUE
    OBVIOUS
  <1> DEFINE Below == {0..n : n \in {m \in S : m <= b}}
  <1>1. IsWellFoundedOn(StrictSubsetOrdering(0..b), SUBSET (0..b))
    <2>1. IsFiniteSet(0..b)
      BY FS_Interval
    <2> QED
      BY <2>1, FS_StrictSubsetOrderingWellFounded, FS_FiniteSubsetsOfFinite
  <1>2. Below \subseteq SUBSET (0..b) /\ Below # {}
    OBVIOUS
  <1>3. \A m \in S : m <= b => 0..m \in Below
    OBVIOUS
  <1>4. \A X \in Below : \E n \in S : n <= b /\ X = 0..n
    OBVIOUS
  <1> HIDE DEF Below
  <1>5. PICK X \in Below : \A Y \in Below : <<Y, X>> \notin StrictSubsetOrdering(0..b)
    BY <1>1, <1>2, WFMin
  <1>6. PICK n \in S : n <= b /\ X = 0..n
    BY <1>4
  <1>7. ASSUME NEW m \in S, m < n PROVE FALSE
    <2>1. 0..m \in Below /\ 0..m \subseteq X /\ 0..m # X
      BY <1>3, <1>6, <1>7
    <2> QED
      BY <2>1, <1>2, <1>5 DEF StrictSubsetOrdering
  <1> QED
    BY <1>7

\* next_number finds a number above every session's: the bound of the
\* instance leaves room for one.
LEMMA NextNumberFree ==
  ASSUME RowsTyped, NEW c \in Campaigns
  PROVE  NumberFree(c, NextNumber(c))
  <1> DEFINE Above == {n \in 1..MaxNumber + 1 : \A s \in SessionsOf(c) : session[s].number < n}
             Next1(n) == n = 1 \/ \E s \in SessionsOf(c) : session[s].number = n - 1
  <1>1. \A s \in SessionsOf(c) : session[s].number \in 1..MaxNumber
    BY DEF RowsTyped, SessionsOf, SessionRow
  <1>2. Above \in SUBSET Nat /\ MaxNumber + 1 \in Above
    BY <1>1, BoundAssumption
  <1>3. PICK n \in Above : \A m \in Above : n <= m
    <2> HIDE DEF Above
    <2> QED
      BY <1>2, Least
  <1>4. Next1(n)
    <2> SUFFICES ASSUME n # 1, \A s \in SessionsOf(c) : session[s].number # n - 1
                 PROVE  FALSE
      OBVIOUS
    <2>1. n - 1 \in Above
      BY <1>1, BoundAssumption
    <2> QED
      BY <2>1, <1>3, BoundAssumption
  <1>5. OnePast(c, n)
    BY <1>4 DEF OnePast
  <1>6. NextNumber(c) \in 1..MaxNumber + 1 /\ OnePast(c, NextNumber(c))
    BY <1>5 DEF NextNumber
  <1> QED
    BY <1>1, <1>6 DEF NumberFree, OnePast

LEMMA CheckNumberInv ==
  ASSUME IInv, NEW r \in Requests, NEW auto \in BOOLEAN, NEW n \in 1..MaxNumber,
         CheckNumber(r, auto, n)
  PROVE  IInv'
  <1> DEFINE op == IF auto THEN "auto" ELSE "number"
             y == Checked(r, op, Null)
             x == [y EXCEPT !.number = n]
  <1>1. op \in {"auto", "number"} /\ (op = "auto" => auto)
    OBVIOUS
  <1>2. /\ req' = [req EXCEPT ![r] = x] /\ req[r].step = "locked"
        /\ UNCHANGED <<users, characters, campaign, part, session, review, issued, lock>>
        /\ auto => n = NextNumber(req[r].campaign)
    BY DEF CheckNumber, GmHolds
  <1> HIDE DEF op
  <1>3. /\ y \in Local /\ y.step = "checked" /\ y.op = op
        /\ y.campaign = req[r].campaign /\ y.user = req[r].user /\ y.as = req[r].as
    BY <1>1, OpNames, CheckedType
  <1>4. RowsTyped /\ HoldsRow(r)
    BY DEF IInv, RowsSound, Held
  <1>5. op = "auto" => NumberFree(req[r].campaign, n)
    BY <1>1, <1>2, <1>4, NextNumberFree DEF HoldsRow, Working, Founders, RowsTyped
  <1> HIDE DEF y
  <1>6. /\ x \in Local /\ x.step = "checked" /\ x.op = op /\ x.number = n
        /\ x.campaign = req[r].campaign /\ x.user = req[r].user /\ x.as = req[r].as
    <2>1. n \in 0..MaxNumber
      BY BoundAssumption
    <2> QED
      BY <1>3, <2>1 DEF Local
  <1> HIDE DEF x
  <1>7. req'[r] = x
    BY <1>2 DEF IInv
  <1>8. KnowsNumber(r)'
    BY <1>1, <1>2, <1>5, <1>6, <1>7 DEF KnowsNumber, NumberFree, SessionsOf
  <1>9. KnowsAdd(r)' /\ KnowsAttendance(r)' /\ KnowsStatus(r)' /\ KnowsScope(r)'
    BY <1>1, <1>6, <1>7 DEF KnowsAdd, KnowsAttendance, KnowsStatus, KnowsScope
  <1> QED
    BY <1>1, <1>2, <1>6, <1>8, <1>9, Checks, OpNames

-----------------------------------------------------------------------------
(* The campaign's own steps.                                               *)

\* A request at work holds the row of an existing campaign, and no other
\* request does.
LEMMA Holder ==
  ASSUME IInv, NEW r \in Requests, Working(r)
  PROVE  /\ req[r].campaign \in DOMAIN campaign /\ req[r].campaign \in Campaigns
         /\ \A d \in Campaigns : lock[d] # r => d # req[r].campaign
         /\ Known(r) /\ req[r] \in Local
  BY DEF IInv, RowsSound, RowsTyped, Held, HoldsRow, Knowing

\* Releasing the characters of a campaign changes rows of this campaign only.
LEMMA ReleasedRows ==
  ASSUME IInv, NEW c
  PROVE  /\ DOMAIN Released(c) = DOMAIN part
         /\ Released(c) \in [DOMAIN part -> Participation]
         /\ \A p \in DOMAIN part :
                /\ Released(c)[p].campaign = part[p].campaign
                /\ Released(c)[p].character = part[p].character
                /\ Released(c)[p].user = part[p].user
                /\ IF part[p].campaign = c /\ Seated(p)
                   THEN Released(c)[p].status = "RETIRED" /\ Released(c)[p].ended = "RETIRED"
                   ELSE Released(c)[p] = part[p]
  <1>1. /\ DOMAIN Released(c) = DOMAIN part
        /\ \A p \in DOMAIN part : Released(c)[p] =
                IF part[p].campaign = c /\ Seated(p)
                THEN [part[p] EXCEPT !.status = "RETIRED", !.ended = "RETIRED"] ELSE part[p]
    BY DEF Released, Seated
  <1>2. \A p \in DOMAIN part : part[p] \in Participation
    BY DEF IInv, RowsSound, RowsTyped
  <1>3. \A p \in DOMAIN part : Released(c)[p] \in Participation
    BY ZenonT(40), <1>1, <1>2 DEF Participation, Statuses, Ended
  <1>4. Released(c) \in [DOMAIN part -> Participation]
    BY <1>3 DEF Released
  <1> QED
    BY <1>1, <1>2, <1>4 DEF Participation

LEMMA CampaignRows ==
  ASSUME IInv, NEW c \in DOMAIN campaign,
         campaign' \in [DOMAIN campaign -> CampaignRow],
         \A d \in DOMAIN campaign : d # c => campaign'[d] = campaign[d],
         UNCHANGED <<users, characters, session, review, issued>>,
         \/ part' = Released(c)
         \/ /\ part' = part
            /\ campaign'[c].closed => campaign[c].closed
            /\ campaign'[c].archived => campaign[c].archived
  PROVE  RowsSound' /\ \A d \in Campaigns : d # c => Undisturbed(d)
  <1>1. RowsTyped /\ RowsLinked /\ RowsAgree /\ ClosedHoldsNobody /\ AttendanceOfOwnTable
    BY DEF IInv, RowsSound
  <1>2. DOMAIN campaign' = DOMAIN campaign /\ DOMAIN part' = DOMAIN part
    BY ReleasedRows
  <1>3. \A p \in DOMAIN part : /\ part'[p].campaign = part[p].campaign
                               /\ part'[p].character = part[p].character
                               /\ part'[p].user = part[p].user
                               /\ part[p].campaign # c => part'[p] = part[p]
                               /\ Seated(p)' => Seated(p) /\ part'[p] = part[p]
    BY ReleasedRows DEF Seated
  <1>4. RowsTyped'
    BY <1>1, <1>2, ReleasedRows DEF RowsTyped
  <1>5. RowsLinked'
    BY <1>1, <1>2, <1>3 DEF RowsLinked
  <1>6. RowsAgree'
    <2>1. ASSUME NEW p \in DOMAIN part PROVE part'[p].ended = "" <=> part'[p].status = "ACTIVE"
      <3>1. part[p].ended = "" <=> part[p].status = "ACTIVE"
        BY <1>1 DEF RowsAgree, Seated
      <3>2. part'[p] = part[p] \/ (part'[p].status = "RETIRED" /\ part'[p].ended = "RETIRED")
        <4>1. CASE part' = Released(c)
          BY <4>1, ReleasedRows
        <4> QED
          BY <4>1
      <3> QED
        BY <3>1, <3>2
    <2>2. ASSUME NEW p \in DOMAIN part PROVE part'[p].user = OwnerOf[part'[p].character]
      BY <1>1, <1>3 DEF RowsAgree
    <2>3. ASSUME NEW p \in DOMAIN part, NEW q \in DOMAIN part, Seated(p)', Seated(q)',
                 part'[p].character = part'[q].character
          PROVE  p = q
      BY <1>1, <1>3, <2>3 DEF RowsAgree
    <2> QED
      BY <1>2, <2>1, <2>2, <2>3 DEF RowsAgree, Seated
  <1>7. ClosedHoldsNobody'
    BY <1>1, <1>2, <1>3, ReleasedRows DEF ClosedHoldsNobody, Seated, RowsLinked
  <1>8. AttendanceOfOwnTable'
    BY <1>1, <1>2, <1>3 DEF AttendanceOfOwnTable, PartsOf, RowsLinked
  <1>9. \A d \in Campaigns : d # c => Undisturbed(d)
    BY <1>1, <1>2, <1>3 DEF Undisturbed, PartsOf, RowsTyped
  <1> QED
    BY <1>4, <1>5, <1>6, <1>7, <1>8, <1>9 DEF RowsSound

LEMMA CampaignRequestInv ==
  ASSUME IInv, NEW r \in Requests, CampaignRequests(r)
  PROVE  IInv'
  <1> DEFINE c == req[r].campaign
             Changes ==
               /\ UNCHANGED <<users, characters, session, review, issued>> /\ Release(r)
               /\ campaign' \in [DOMAIN campaign -> CampaignRow]
               /\ \A d \in DOMAIN campaign : d # c => campaign'[d] = campaign[d]
               /\ \/ part' = Released(c)
                  \/ /\ part' = part
                     /\ campaign'[c].closed => campaign[c].closed
                     /\ campaign'[c].archived => campaign[c].archived
  <1>1. req[r].step = "locked" /\ HoldsRow(r)
    BY DEF CampaignRequests, SetCampaignStatus, Archive, Restore, GmHolds, IInv, Held
  <1>2. Working(r)
    BY <1>1 DEF HoldsRow, Working, Founders
  <1>3. c \in DOMAIN campaign /\ campaign[c] \in CampaignRow /\ RowsTyped
    BY <1>2, Holder DEF IInv, RowsSound, RowsTyped
  <1>4. Changes
    <2>1. ASSUME NEW closed \in BOOLEAN, SetCampaignStatus(r, closed) PROVE Changes
      BY <1>3, <2>1 DEF SetCampaignStatus, CampaignRow, RowsTyped
    <2>2. CASE Archive(r)
      BY <1>3, <2>2 DEF Archive, CampaignRow, RowsTyped
    <2>3. CASE Restore(r)
      BY <1>3, <2>3 DEF Restore, CampaignRow, RowsTyped
    <2> QED
      BY <2>1, <2>2, <2>3 DEF CampaignRequests
  <1>5. RowsSound' /\ \A d \in Campaigns : d # c => Undisturbed(d)
    <2> HIDE DEF c
    <2> QED
      BY <1>3, <1>4, CampaignRows
  <1> QED
    BY <1>2, <1>3, <1>4, <1>5, Holder, Finishes

-----------------------------------------------------------------------------
(* The roster's writes.                                                    *)

LEMMA PutRow ==
  ASSUME NEW table, NEW id, NEW row, NEW Rows, row \in Rows, table \in [DOMAIN table -> Rows]
  PROVE  /\ DOMAIN Put(table, id, row) = DOMAIN table \cup {id}
         /\ Put(table, id, row) \in [DOMAIN Put(table, id, row) -> Rows]
         /\ Put(table, id, row)[id] = row
         /\ \A i \in DOMAIN table : i # id => Put(table, id, row)[i] = table[i]
  BY DEF Put

LEMMA WithoutRows ==
  ASSUME NEW table, NEW ids, NEW Rows, table \in [DOMAIN table -> Rows]
  PROVE  /\ DOMAIN Without(table, ids) = DOMAIN table \ ids
         /\ Without(table, ids) \in [DOMAIN Without(table, ids) -> Rows]
         /\ \A i \in DOMAIN table \ ids : Without(table, ids)[i] = table[i]
  BY DEF Without

LEMMA AddInv ==
  ASSUME IInv, NEW r \in Requests, Add(r)
  PROVE  IInv'
  <1> DEFINE c == req[r].campaign
             h == req[r].on
             row == [campaign |-> c, character |-> h, user |-> OwnerOf[h],
                     status |-> "ACTIVE", ended |-> ""]
  <1>1. /\ Working(r) /\ req[r].op = "add" /\ h \in characters /\ Holding(h) = {} /\ Release(r)
        /\ UNCHANGED <<users, characters, campaign, session, review>>
    BY DEF Add, Working, Founders
  <1>2. /\ c \in DOMAIN campaign /\ c \in Campaigns /\ h \in Characters
        /\ ~campaign[c].closed /\ ~campaign[c].archived
    BY <1>1, Holder DEF Known, KnowsAdd
  <1>3. PICK p \in PartIds \ issued : part' = Put(part, p, row) /\ issued' = issued \cup {p}
    BY DEF Add, Unused
  <1>4. RowsTyped /\ RowsLinked /\ RowsAgree /\ ClosedHoldsNobody /\ AttendanceOfOwnTable
    BY DEF IInv, RowsSound
  <1>5. /\ row \in Participation /\ row.campaign = c /\ row.character = h
        /\ row.user = OwnerOf[h] /\ row.status = "ACTIVE" /\ row.ended = ""
    BY <1>2, OwnerAssumption DEF Participation, Statuses
  <1> HIDE DEF row, h
  <1>6. /\ DOMAIN part' = DOMAIN part \cup {p} /\ part' \in [DOMAIN part' -> Participation]
        /\ part'[p] = row /\ \A i \in DOMAIN part : part'[i] = part[i]
        /\ p \notin DOMAIN part
    <2>1. part \in [DOMAIN part -> Participation] /\ p \notin DOMAIN part
      BY <1>3, <1>4 DEF RowsTyped
    <2> QED
      BY <1>3, <1>5, <2>1 DEF Put
  <1>7. RowsTyped'
    BY <1>1, <1>3, <1>4, <1>6 DEF RowsTyped
  <1>8. RowsLinked'
    BY <1>1, <1>2, <1>4, <1>5, <1>6 DEF RowsLinked
  <1>9. RowsAgree'
    <2>1. \A q \in DOMAIN part : ~(Seated(q) /\ part[q].character = h)
      BY <1>1 DEF Holding, Seated, h
    <2> QED
      <3>1. ASSUME NEW q \in DOMAIN part' PROVE part'[q].user = OwnerOf[part'[q].character]
        BY <1>4, <1>5, <1>6 DEF RowsAgree
      <3>2. ASSUME NEW q \in DOMAIN part' PROVE part'[q].ended = "" <=> part'[q].status = "ACTIVE"
        BY <1>4, <1>5, <1>6 DEF RowsAgree, Seated
      <3>3. ASSUME NEW q \in DOMAIN part', NEW i \in DOMAIN part',
                   part'[q].status = "ACTIVE", part'[i].status = "ACTIVE",
                   part'[q].character = part'[i].character
            PROVE  q = i
        BY <1>4, <1>5, <1>6, <2>1, <3>3 DEF RowsAgree, Seated
      <3> QED
        BY <3>1, <3>2, <3>3 DEF RowsAgree, Seated
  <1>10. ClosedHoldsNobody'
    BY <1>1, <1>2, <1>4, <1>5, <1>6 DEF ClosedHoldsNobody
  <1>11. AttendanceOfOwnTable'
    BY <1>1, <1>4, <1>6 DEF AttendanceOfOwnTable, PartsOf
  <1>12. ASSUME NEW d \in Campaigns, d # c PROVE Undisturbed(d)
    BY <1>1, <1>3, <1>4, <1>6, <1>12 DEF Undisturbed, PartsOf, RowsTyped
  <1> QED
    BY <1>1, <1>7, <1>8, <1>9, <1>10, <1>11, <1>12, Holder, Finishes DEF RowsSound

\* The write of a status is still allowed: the row kept what the check saw.
LEMMA SetStatusRow ==
  ASSUME IInv, NEW r \in Requests, SetStatus(r)
  PROVE  LET p == req[r].on
         IN  /\ Working(r) /\ p \in DOMAIN part /\ part[p].campaign = req[r].campaign
             /\ StatusChangeAllowed(part[p].status, req[r].status) /\ req[r].status \in Ended
             /\ DOMAIN part' = DOMAIN part /\ part' \in [DOMAIN part -> Participation]
             /\ \A q \in DOMAIN part : q # p => part'[q] = part[q]
             /\ part'[p].campaign = part[p].campaign
             /\ part'[p].character = part[p].character /\ part'[p].user = part[p].user
             /\ part'[p].status = req[r].status
             /\ part'[p].ended = IF part[p].ended = "" THEN req[r].status ELSE part[p].ended
  <1> DEFINE p == req[r].on
  <1>1. /\ Working(r) /\ req[r].op = "status" /\ p \in DOMAIN part
        /\ part' = [part EXCEPT ![p].status = req[r].status,
                                ![p].ended = IF req[r].ended = "" THEN req[r].status ELSE @]
    BY DEF SetStatus, Working, Founders
  <1>2. /\ part[p].campaign = req[r].campaign /\ part[p].ended = req[r].ended
        /\ StatusChangeAllowed(part[p].status, req[r].status) /\ req[r].status \in Ended
    BY <1>1, Holder DEF Known, KnowsStatus
  <1>3. part \in [DOMAIN part -> Participation] /\ part[p] \in Participation
    BY <1>1 DEF IInv, RowsSound, RowsTyped
  <1> HIDE DEF p
  <1>4. /\ DOMAIN part' = DOMAIN part
        /\ \A q \in DOMAIN part : q # p => part'[q] = part[q]
        /\ part'[p] = [part[p] EXCEPT !.status = req[r].status,
                                      !.ended = IF req[r].ended = "" THEN req[r].status ELSE @]
    BY <1>1, <1>3
  <1>5. part'[p] \in Participation
    BY <1>2, <1>3, <1>4 DEF Participation, Statuses
  <1>6. part' \in [DOMAIN part -> Participation]
    BY <1>1, <1>3, <1>4, <1>5
  <1>7. /\ part'[p].campaign = part[p].campaign
        /\ part'[p].character = part[p].character /\ part'[p].user = part[p].user
        /\ part'[p].status = req[r].status
        /\ part'[p].ended = IF part[p].ended = "" THEN req[r].status ELSE part[p].ended
    BY <1>2, <1>3, <1>4 DEF Participation
  <1> QED
    BY <1>1, <1>2, <1>4, <1>6, <1>7 DEF p

LEMMA SetStatusInv ==
  ASSUME IInv, NEW r \in Requests, SetStatus(r)
  PROVE  IInv'
  <1> DEFINE c == req[r].campaign
             p == req[r].on
  <1>1. /\ Working(r) /\ Release(r) /\ p \in DOMAIN part /\ part[p].campaign = c
        /\ UNCHANGED <<users, characters, campaign, session, review, issued>>
        /\ DOMAIN part' = DOMAIN part /\ part' \in [DOMAIN part -> Participation]
    BY SetStatusRow DEF SetStatus
  <1>2. /\ \A q \in DOMAIN part : q # p => part'[q] = part[q]
        /\ part'[p].campaign = part[p].campaign
        /\ part'[p].character = part[p].character /\ part'[p].user = part[p].user
        /\ part'[p].status # "ACTIVE" /\ part'[p].ended # ""
    BY SetStatusRow DEF Ended
  <1> HIDE DEF p, c
  <1>3. RowsTyped /\ RowsLinked /\ RowsAgree /\ ClosedHoldsNobody /\ AttendanceOfOwnTable
    BY DEF IInv, RowsSound
  <1>4. RowsTyped'
    BY <1>1, <1>3 DEF RowsTyped
  <1>5. RowsLinked'
    BY <1>1, <1>2, <1>3 DEF RowsLinked
  <1>6. RowsAgree'
    BY ZenonT(40), <1>1, <1>2, <1>3 DEF RowsAgree, Seated
  <1>7. ClosedHoldsNobody'
    BY <1>1, <1>2, <1>3 DEF ClosedHoldsNobody
  <1>8. AttendanceOfOwnTable'
    <2>1. \A q \in DOMAIN part : part'[q].campaign = part[q].campaign
      BY <1>1, <1>2
    <2> QED
      BY <1>1, <2>1, <1>3 DEF AttendanceOfOwnTable, PartsOf
  <1>9. ASSUME NEW d \in Campaigns, d # c PROVE Undisturbed(d)
    BY <1>1, <1>2, <1>3, <1>9 DEF Undisturbed, PartsOf, RowsTyped
  <1> QED
    BY <1>1, <1>4, <1>5, <1>6, <1>7, <1>8, <1>9, Holder, Finishes DEF RowsSound, c

-----------------------------------------------------------------------------
(* The writes of sessions.                                                 *)

\* A change of sessions of one campaign, with reviews that may go with them.
LEMMA SessionRows ==
  ASSUME IInv, NEW c, UNCHANGED <<users, characters, campaign, part>>,
         issued \subseteq issued', issued' \subseteq PartIds \cup SessionIds \cup ReviewIds,
         session' \in [DOMAIN session' -> SessionRow],
         DOMAIN session' \subseteq SessionIds \cap issued',
         \A s \in DOMAIN session' \cap DOMAIN session :
            /\ session'[s].campaign = session[s].campaign
            /\ session[s].campaign # c => session'[s] = session[s],
         \A s \in DOMAIN session' \ DOMAIN session :
            s \notin issued /\ c \in DOMAIN campaign /\ session'[s].campaign = c,
         \A s \in DOMAIN session' : session'[s].attended \subseteq PartsOf(session'[s].campaign),
         review' \in [DOMAIN review' -> Review], DOMAIN review' \subseteq DOMAIN review,
         \A v \in DOMAIN review' : /\ review'[v] = review[v]
                                   /\ review[v].scope \in DOMAIN session =>
                                        review[v].scope \in DOMAIN session'
  PROVE  RowsSound' /\ \A d \in Campaigns : d # c => Undisturbed(d)
  <1>1. RowsTyped /\ RowsLinked /\ RowsAgree /\ ClosedHoldsNobody /\ AttendanceOfOwnTable
    BY DEF IInv, RowsSound
  <1>2. RowsTyped'
    BY <1>1 DEF RowsTyped
  <1>3. RowsLinked'
    <2>1. \A s \in DOMAIN session' : session'[s].campaign \in DOMAIN campaign
      BY <1>1 DEF RowsLinked
    <2>2. \A s \in DOMAIN session' : session'[s].attended \subseteq DOMAIN part
      BY DEF PartsOf
    <2> QED
      BY <1>1, <2>1, <2>2 DEF RowsLinked
  <1>4. RowsAgree' /\ ClosedHoldsNobody'
    BY <1>1 DEF RowsAgree, Seated, ClosedHoldsNobody
  <1>5. AttendanceOfOwnTable'
    BY DEF AttendanceOfOwnTable, PartsOf
  <1>6. \A d \in Campaigns : d # c => Undisturbed(d)
    BY <1>1 DEF Undisturbed, PartsOf, RowsTyped
  <1> QED
    BY <1>2, <1>3, <1>4, <1>5, <1>6 DEF RowsSound

LEMMA CreateSessionInv ==
  ASSUME IInv, NEW r \in Requests, CreateSession(r)
  PROVE  IInv'
  <1> DEFINE c == req[r].campaign
             row == [campaign |-> c, number |-> req[r].number, published |-> FALSE, attended |-> {}]
  <1>1. /\ Working(r) /\ req[r].op \in {"auto", "number"} /\ Release(r)
        /\ UNCHANGED <<users, characters, campaign, part, review>>
    BY DEF CreateSession, Working, Founders
  <1>2. c \in DOMAIN campaign /\ c \in Campaigns /\ req[r].number \in 1..MaxNumber
    BY <1>1, Holder DEF Known, KnowsNumber
  <1>3. PICK s \in SessionIds \ issued : session' = Put(session, s, row) /\ issued' = issued \cup {s}
    BY DEF CreateSession, Unused
  <1>4. row \in SessionRow /\ row.campaign = c /\ row.attended = {}
    BY <1>2 DEF SessionRow
  <1>5. RowsTyped /\ AttendanceOfOwnTable
    BY DEF IInv, RowsSound
  <1> HIDE DEF row, c
  <1>6. /\ DOMAIN session' = DOMAIN session \cup {s} /\ session' \in [DOMAIN session' -> SessionRow]
        /\ session'[s] = row /\ \A i \in DOMAIN session : session'[i] = session[i]
        /\ s \notin DOMAIN session
    BY <1>3, <1>4, <1>5 DEF Put, RowsTyped
  <1>7. \A i \in DOMAIN session' : session'[i].attended \subseteq PartsOf(session'[i].campaign)
    BY <1>4, <1>5, <1>6 DEF AttendanceOfOwnTable
  <1>8. RowsSound' /\ \A d \in Campaigns : d # c => Undisturbed(d)
    BY <1>1, <1>2, <1>3, <1>4, <1>5, <1>6, <1>7, SessionRows DEF RowsTyped
  <1> QED
    BY <1>1, <1>8, Holder, Finishes DEF c

\* A change of one row of the request's campaign.
LEMMA SessionRowInv ==
  ASSUME IInv, NEW r \in Requests, Working(r), Release(r),
         UNCHANGED <<users, characters, campaign, part, review, issued>>,
         NEW s \in SessionsOf(req[r].campaign), NEW row \in SessionRow,
         row.campaign = req[r].campaign, row.attended \subseteq PartsOf(req[r].campaign),
         session' = [session EXCEPT ![s] = row]
  PROVE  IInv'
  <1> DEFINE c == req[r].campaign
  <1>1. RowsTyped /\ AttendanceOfOwnTable /\ s \in DOMAIN session /\ session[s].campaign = c
    BY DEF IInv, RowsSound, SessionsOf
  <1> HIDE DEF c
  <1>2. /\ DOMAIN session' = DOMAIN session /\ session' \in [DOMAIN session' -> SessionRow]
        /\ session'[s] = row /\ \A i \in DOMAIN session : i # s => session'[i] = session[i]
    BY <1>1 DEF RowsTyped
  <1>3. \A i \in DOMAIN session' : session'[i].attended \subseteq PartsOf(session'[i].campaign)
    BY <1>1, <1>2 DEF AttendanceOfOwnTable, c
  <1>4. RowsSound' /\ \A d \in Campaigns : d # c => Undisturbed(d)
    <2>1. \A i \in DOMAIN session' \cap DOMAIN session :
            /\ session'[i].campaign = session[i].campaign
            /\ session[i].campaign # c => session'[i] = session[i]
      BY <1>1, <1>2 DEF c
    <2> QED
      BY <1>1, <1>2, <1>3, <2>1, SessionRows DEF RowsTyped, RowsLinked
  <1> QED
    BY <1>4, Holder, Finishes DEF c

LEMMA RenumberInv ==
  ASSUME IInv, NEW r \in Requests, NEW s \in SessionIds, NEW n \in 1..MaxNumber,
         Renumber(r, s, n)
  PROVE  IInv'
  <1> DEFINE row == [session[s] EXCEPT !.number = n]
  <1>1. /\ req[r].step = "locked" /\ Release(r) /\ s \in SessionsOf(req[r].campaign)
        /\ UNCHANGED <<users, characters, campaign, part, review, issued>>
        /\ session' = [session EXCEPT ![s] = row]
    BY DEF Renumber, GmHolds
  <1>2. HoldsRow(r) /\ RowsTyped /\ AttendanceOfOwnTable
    BY DEF IInv, Held, RowsSound
  <1>3. Working(r)
    BY <1>1, <1>2 DEF Working, HoldsRow, Founders
  <1>4. /\ row \in SessionRow /\ row.campaign = req[r].campaign
        /\ row.attended \subseteq PartsOf(req[r].campaign)
    BY <1>1, <1>2 DEF SessionsOf, RowsTyped, SessionRow, AttendanceOfOwnTable
  <1> HIDE DEF row
  <1> QED
    BY <1>1, <1>3, <1>4, SessionRowInv

LEMMA SetPublishedInv ==
  ASSUME IInv, NEW r \in Requests, NEW s \in SessionIds, NEW published \in BOOLEAN,
         SetPublished(r, s, published)
  PROVE  IInv'
  <1> DEFINE row == [session[s] EXCEPT !.published = published]
  <1>1. /\ req[r].step = "locked" /\ Release(r) /\ s \in SessionsOf(req[r].campaign)
        /\ UNCHANGED <<users, characters, campaign, part, review, issued>>
        /\ session' = [session EXCEPT ![s] = row]
    BY DEF SetPublished, GmHolds
  <1>2. HoldsRow(r) /\ RowsTyped /\ AttendanceOfOwnTable
    BY DEF IInv, Held, RowsSound
  <1>3. Working(r)
    BY <1>1, <1>2 DEF Working, HoldsRow, Founders
  <1>4. /\ row \in SessionRow /\ row.campaign = req[r].campaign
        /\ row.attended \subseteq PartsOf(req[r].campaign)
    BY <1>1, <1>2 DEF SessionsOf, RowsTyped, SessionRow, AttendanceOfOwnTable
  <1> HIDE DEF row
  <1> QED
    BY <1>1, <1>3, <1>4, SessionRowInv

LEMMA SetAttendanceInv ==
  ASSUME IInv, NEW r \in Requests, SetAttendance(r)
  PROVE  IInv'
  <1> DEFINE s == req[r].on
             row == [session[s] EXCEPT !.attended = req[r].set]
  <1>1. /\ Working(r) /\ req[r].op = "attendance" /\ Release(r)
        /\ s \in DOMAIN session /\ req[r].set \subseteq DOMAIN part
        /\ UNCHANGED <<users, characters, campaign, part, review, issued>>
        /\ session' = [session EXCEPT ![s] = row]
    BY DEF SetAttendance, Working, Founders
  <1>2. /\ session[s].campaign = req[r].campaign /\ req[r] \in Local
        /\ \A p \in req[r].set \cap DOMAIN part : part[p].campaign = req[r].campaign
    BY <1>1, Holder DEF Known, KnowsAttendance
  <1>3. s \in SessionsOf(req[r].campaign) /\ session[s] \in SessionRow
    BY <1>1, <1>2 DEF SessionsOf, IInv, RowsSound, RowsTyped
  <1>4. /\ row \in SessionRow /\ row.campaign = req[r].campaign
        /\ row.attended \subseteq PartsOf(req[r].campaign)
    <2>1. req[r].set \in SUBSET PartIds
      BY <1>2 DEF Local
    <2> QED
      BY <1>1, <1>2, <1>3, <2>1 DEF SessionRow, PartsOf
  <1> HIDE DEF row, s
  <1> QED
    BY <1>1, <1>3, <1>4, SessionRowInv

LEMMA DeleteSessionInv ==
  ASSUME IInv, NEW r \in Requests, NEW s \in SessionIds, DeleteSession(r, s)
  PROVE  IInv'
  <1> DEFINE c == req[r].campaign
  <1>1. /\ req[r].step = "locked" /\ Release(r) /\ s \in SessionsOf(c)
        /\ UNCHANGED <<users, characters, campaign, part, issued>>
        /\ session' = Without(session, {s})
        /\ review' = Without(review, {v \in DOMAIN review : review[v].scope = s})
    BY DEF DeleteSession, GmHolds
  <1>2. HoldsRow(r) /\ RowsTyped /\ AttendanceOfOwnTable
    BY DEF IInv, Held, RowsSound
  <1>3. Working(r)
    BY <1>1, <1>2 DEF Working, HoldsRow, Founders
  <1> HIDE DEF c
  <1>4. /\ DOMAIN session' = DOMAIN session \ {s} /\ session' \in [DOMAIN session' -> SessionRow]
        /\ \A i \in DOMAIN session' : session'[i] = session[i]
    BY <1>1, <1>2 DEF Without, RowsTyped
  <1>5. /\ review' \in [DOMAIN review' -> Review] /\ DOMAIN review' \subseteq DOMAIN review
        /\ \A v \in DOMAIN review' : review'[v] = review[v] /\ review[v].scope # s
    BY <1>1, <1>2 DEF Without, RowsTyped
  <1>6. RowsSound' /\ \A d \in Campaigns : d # c => Undisturbed(d)
    BY <1>1, <1>2, <1>4, <1>5, SessionRows DEF RowsTyped, AttendanceOfOwnTable
  <1> QED
    BY <1>1, <1>3, <1>6, Holder, Finishes DEF c

-----------------------------------------------------------------------------
(* The writes of reviews.                                                  *)

\* Reviews refer to the other tables, nothing refers to them.
LEMMA ReviewRows ==
  ASSUME IInv, UNCHANGED <<users, characters, campaign, part, session>>,
         issued \subseteq issued', issued' \subseteq issued \cup ReviewIds,
         review' \in [DOMAIN review' -> Review], DOMAIN review' \subseteq ReviewIds \cap issued',
         \A v \in DOMAIN review' : /\ review'[v].scope \in DOMAIN campaign \cup DOMAIN session
                                   /\ review'[v].author \in users
  PROVE  RowsSound' /\ \A d \in Campaigns : Undisturbed(d)
  <1>1. RowsTyped /\ RowsLinked /\ RowsAgree /\ ClosedHoldsNobody /\ AttendanceOfOwnTable
    BY DEF IInv, RowsSound
  <1>2. RowsTyped' /\ RowsLinked'
    BY <1>1 DEF RowsTyped, RowsLinked
  <1>3. RowsAgree' /\ ClosedHoldsNobody' /\ AttendanceOfOwnTable'
    BY <1>1 DEF RowsAgree, Seated, ClosedHoldsNobody, AttendanceOfOwnTable, PartsOf
  <1>4. \A d \in Campaigns : Undisturbed(d)
    BY <1>1 DEF Undisturbed, PartsOf, RowsTyped
  <1> QED
    BY <1>2, <1>3, <1>4 DEF RowsSound

\* What one upsert of a review does: a new row, or a new body in the author's.
LEMMA PutReviewRow ==
  ASSUME IInv, NEW r \in Requests, PutReview(r)
  PROVE  LET scope == req[r].on
             u == req[r].user
         IN  /\ Working(r) /\ req[r].op = "review" /\ Release(r)
             /\ u \in users /\ scope \in DOMAIN campaign \cup DOMAIN session
             /\ UNCHANGED <<users, characters, campaign, part, session>>
             /\ issued \subseteq issued' /\ issued' \subseteq issued \cup ReviewIds
             /\ review' \in [DOMAIN review' -> Review]
             /\ DOMAIN review \subseteq DOMAIN review' /\ DOMAIN review' \subseteq ReviewIds \cap issued'
             /\ \A v \in DOMAIN review' :
                    \/ v \in DOMAIN review /\ review'[v] = review[v]
                    \/ /\ v \notin DOMAIN review \/ ~review[v].hidden
                       /\ review'[v].scope = scope /\ review'[v].author = u
  <1> DEFINE scope == req[r].on
             u == req[r].user
             row == [scope |-> scope, author |-> u, hidden |-> FALSE, body |-> "first"]
  <1>1. /\ Working(r) /\ req[r].op = "review" /\ Release(r)
        /\ u \in users /\ scope \in DOMAIN campaign \cup DOMAIN session
        /\ UNCHANGED <<users, characters, campaign, part, session>>
    BY DEF PutReview, Working, Founders
  <1>2. RowsTyped /\ RowsLinked
    BY DEF IInv, RowsSound
  <1>3. u \in Users /\ scope \in Campaigns \cup SessionIds
    BY <1>1, <1>2 DEF RowsTyped, RowsLinked
  <1>4. CASE ReviewsBy(scope, u) = {}
    <2>1. PICK v \in ReviewIds \ issued : review' = Put(review, v, row) /\ issued' = issued \cup {v}
      BY <1>4 DEF PutReview, Unused
    <2>2. row \in Review /\ row.scope = scope /\ row.author = u
      BY <1>3 DEF Review
    <2> HIDE DEF row
    <2>3. /\ DOMAIN review' = DOMAIN review \cup {v} /\ v \notin DOMAIN review
          /\ review' \in [DOMAIN review' -> Review]
          /\ review'[v] = row /\ \A i \in DOMAIN review : review'[i] = review[i]
      BY <1>2, <2>1, <2>2 DEF Put, RowsTyped
    <2> QED
      BY <1>1, <1>2, <2>1, <2>2, <2>3 DEF RowsTyped
  <1>5. CASE ReviewsBy(scope, u) # {}
    <2>1. PICK v \in ReviewsBy(scope, u) :
            ~review[v].hidden /\ review' = [review EXCEPT ![v].body = "replaced"] /\ issued' = issued
      BY <1>5 DEF PutReview
    <2>2. v \in DOMAIN review /\ review[v] \in Review /\ review[v].scope = scope /\ review[v].author = u
      BY <1>2 DEF ReviewsBy, RowsTyped
    <2>3. /\ DOMAIN review' = DOMAIN review
          /\ \A i \in DOMAIN review : i # v => review'[i] = review[i]
          /\ review'[v] = [review[v] EXCEPT !.body = "replaced"]
      BY <1>2, <2>1, <2>2 DEF RowsTyped
    <2>4. review'[v] \in Review /\ review'[v].scope = scope /\ review'[v].author = u
      BY <2>2, <2>3 DEF Review
    <2>5. review' \in [DOMAIN review' -> Review]
      BY <1>2, <2>1, <2>2, <2>3, <2>4 DEF RowsTyped
    <2> QED
      BY <1>1, <1>2, <2>1, <2>2, <2>3, <2>4, <2>5 DEF RowsTyped
  <1> QED
    BY <1>4, <1>5

LEMMA PutReviewInv ==
  ASSUME IInv, NEW r \in Requests, PutReview(r)
  PROVE  IInv'
  <1>1. RowsLinked
    BY DEF IInv, RowsSound
  <1>2. RowsSound' /\ \A d \in Campaigns : Undisturbed(d)
    <2>1. \A v \in DOMAIN review' : /\ review'[v].scope \in DOMAIN campaign \cup DOMAIN session
                                   /\ review'[v].author \in users
      BY <1>1, PutReviewRow DEF RowsLinked
    <2> QED
      BY <2>1, PutReviewRow, ReviewRows
  <1> QED
    BY <1>2, PutReviewRow, Finishes

LEMMA DeleteReviewInv ==
  ASSUME IInv, NEW r \in Requests, NEW v \in ReviewIds, DeleteReview(r, v)
  PROVE  IInv'
  <1>1. /\ Release(r) /\ review' = Without(review, {v})
        /\ UNCHANGED <<users, characters, campaign, part, session, issued>>
    BY DEF DeleteReview
  <1>2. RowsTyped /\ RowsLinked
    BY DEF IInv, RowsSound
  <1>3. RowsSound' /\ \A d \in Campaigns : Undisturbed(d)
    <2>1. /\ DOMAIN review' \subseteq DOMAIN review /\ review' \in [DOMAIN review' -> Review]
          /\ \A i \in DOMAIN review' : review'[i] = review[i]
      BY <1>1, <1>2 DEF Without, RowsTyped
    <2> QED
      BY <1>1, <1>2, <2>1, ReviewRows DEF RowsTyped, RowsLinked
  <1> QED
    BY <1>1, <1>3, Finishes

LEMMA SetHiddenInv ==
  ASSUME IInv, NEW r \in Requests, SetHidden(r)
  PROVE  IInv'
  <1> DEFINE v == req[r].on
  <1>1. /\ Release(r) /\ v \in DOMAIN review
        /\ review' = [review EXCEPT ![v].hidden = (req[r].op = "hide")]
        /\ UNCHANGED <<users, characters, campaign, part, session, issued>>
    BY DEF SetHidden
  <1>2. RowsTyped /\ RowsLinked
    BY DEF IInv, RowsSound
  <1> HIDE DEF v
  <1>3. RowsSound' /\ \A d \in Campaigns : Undisturbed(d)
    <2>1. review[v] \in Review
      BY <1>1, <1>2 DEF RowsTyped
    <2>2. /\ DOMAIN review' = DOMAIN review
          /\ \A i \in DOMAIN review : i # v => review'[i] = review[i]
          /\ review'[v] = [review[v] EXCEPT !.hidden = (req[r].op = "hide")]
      BY <1>1, <1>2 DEF RowsTyped
    <2>3. /\ review'[v] \in Review /\ review'[v].scope = review[v].scope
          /\ review'[v].author = review[v].author
      BY <2>1, <2>2 DEF Review
    <2>4. review' \in [DOMAIN review' -> Review]
      BY <1>1, <1>2, <2>2, <2>3 DEF RowsTyped
    <2> QED
      BY <1>1, <1>2, <2>2, <2>3, <2>4, ReviewRows DEF RowsTyped, RowsLinked
  <1> QED
    BY <1>1, <1>3, Finishes

LEMMA AbortInv ==
  ASSUME IInv, NEW r \in Requests, Abort(r)
  PROVE  IInv'
  BY TablesKept, Finishes DEF Abort

-----------------------------------------------------------------------------
(* Steps outside the lock.                                                 *)

LEMMA CreateCampaignInv ==
  ASSUME IInv, NEW c \in Campaigns, NEW u \in Users, CreateCampaign(c, u)
  PROVE  IInv'
  <1> DEFINE row == [owner |-> u, closed |-> FALSE, archived |-> FALSE]
  <1>1. /\ c \notin DOMAIN campaign /\ campaign' = Put(campaign, c, row)
        /\ UNCHANGED <<users, characters, part, session, review, issued, lock, req>>
    BY DEF CreateCampaign
  <1>2. RowsTyped /\ RowsLinked /\ RowsAgree /\ ClosedHoldsNobody /\ AttendanceOfOwnTable
    BY DEF IInv, RowsSound
  <1>3. row \in CampaignRow
    BY DEF CampaignRow
  <1> HIDE DEF row
  <1>4. /\ DOMAIN campaign' = DOMAIN campaign \cup {c}
        /\ campaign' \in [DOMAIN campaign' -> CampaignRow]
        /\ \A d \in DOMAIN campaign : campaign'[d] = campaign[d]
    BY <1>1, <1>2, <1>3 DEF Put, RowsTyped
  <1>5. RowsTyped' /\ RowsLinked'
    BY <1>1, <1>2, <1>4 DEF RowsTyped, RowsLinked
  <1>6. RowsAgree' /\ ClosedHoldsNobody' /\ AttendanceOfOwnTable'
    BY <1>1, <1>2, <1>4 DEF RowsAgree, Seated, ClosedHoldsNobody, AttendanceOfOwnTable, PartsOf,
       RowsLinked
  <1>7. \A d \in Campaigns : Undisturbed(d)
    BY <1>1, <1>2, <1>4 DEF Undisturbed, PartsOf, RowsTyped
  <1> QED
    BY <1>1, <1>4, <1>5, <1>6, <1>7, Outside DEF RowsSound

\* Characters go with their participations and attendance, reviews with their
\* author; no campaign changes but for its owner.
LEMMA CharactersGo ==
  ASSUME IInv, NEW hs, DropCharacters(hs), users' \subseteq users,
         \A h \in Characters : OwnerOf[h] \in users \ users' => h \in hs,
         DOMAIN campaign' = DOMAIN campaign, campaign' \in [DOMAIN campaign -> CampaignRow],
         \A c \in DOMAIN campaign : /\ campaign'[c].closed = campaign[c].closed
                                    /\ campaign'[c].archived = campaign[c].archived,
         review' \in [DOMAIN review' -> Review], DOMAIN review' \subseteq DOMAIN review,
         \A v \in DOMAIN review' : review'[v] = review[v] /\ review[v].author \in users',
         UNCHANGED <<issued, lock, req>>
  PROVE  IInv'
  <1>1. RowsTyped /\ RowsLinked /\ RowsAgree /\ ClosedHoldsNobody /\ AttendanceOfOwnTable
    BY DEF IInv, RowsSound
  <1> DEFINE gone == {p \in DOMAIN part : part[p].character \in hs}
  <1>2. /\ characters' = characters \ hs /\ part' = Without(part, gone)
        /\ session' = [s \in DOMAIN session |-> [session[s] EXCEPT !.attended = @ \ gone]]
    BY DEF DropCharacters
  <1>3. \A p \in DOMAIN part : p \in gone <=> part[p].character \in hs
    OBVIOUS
  <1> HIDE DEF gone
  <1>4. /\ DOMAIN part' = DOMAIN part \ gone /\ part' \in [DOMAIN part' -> Participation]
        /\ \A p \in DOMAIN part' : part'[p] = part[p]
    BY <1>1, <1>2 DEF Without, RowsTyped
  <1>5. DOMAIN session' = DOMAIN session
    BY <1>2
  <1>6. ASSUME NEW s \in DOMAIN session
        PROVE  /\ session'[s] \in SessionRow
               /\ session'[s].campaign = session[s].campaign
               /\ session'[s].number = session[s].number
               /\ session'[s].published = session[s].published
               /\ session'[s].attended = session[s].attended \ gone
    <2>1. session[s] \in SessionRow /\ session'[s] = [session[s] EXCEPT !.attended = @ \ gone]
      BY <1>1, <1>2 DEF RowsTyped
    <2> QED
      BY <2>1 DEF SessionRow
  <1>7. RowsTyped'
    <2>1. session' \in [DOMAIN session' -> SessionRow]
      BY <1>2, <1>5, <1>6
    <2> QED
      BY <1>1, <1>4, <1>5, <2>1 DEF RowsTyped
  <1>8. RowsLinked'
    <2>1. /\ users' \subseteq Users
          /\ characters' \subseteq {h \in Characters : OwnerOf[h] \in users'}
      BY <1>1, <1>2 DEF RowsLinked
    <2>2. \A p \in DOMAIN part' : /\ part'[p].campaign \in DOMAIN campaign'
                                  /\ part'[p].character \in characters'
      BY <1>1, <1>2, <1>3, <1>4 DEF RowsLinked
    <2>3. \A s \in DOMAIN session' : /\ session'[s].campaign \in DOMAIN campaign'
                                     /\ session'[s].attended \subseteq DOMAIN part'
      BY <1>1, <1>4, <1>5, <1>6 DEF RowsLinked
    <2>4. \A v \in DOMAIN review' : /\ review'[v].scope \in DOMAIN campaign' \cup DOMAIN session'
                                    /\ review'[v].author \in users'
      BY <1>1, <1>5 DEF RowsLinked
    <2> QED
      BY <2>1, <2>2, <2>3, <2>4 DEF RowsLinked
  <1>9. RowsAgree'
    <2>1. \A p \in DOMAIN part' : part'[p].user = OwnerOf[part'[p].character]
      BY <1>1, <1>4 DEF RowsAgree
    <2>2. \A p \in DOMAIN part' : part'[p].ended = "" <=> part'[p].status = "ACTIVE"
      BY ZenonT(40), <1>1, <1>4 DEF RowsAgree, Seated
    <2>3. \A p, q \in DOMAIN part' :
            /\ part'[p].status = "ACTIVE" /\ part'[q].status = "ACTIVE"
            /\ part'[p].character = part'[q].character
            => p = q
      BY <1>1, <1>4 DEF RowsAgree, Seated
    <2> QED
      BY <2>1, <2>2, <2>3 DEF RowsAgree, Seated
  <1>10. ClosedHoldsNobody'
    BY <1>1, <1>4 DEF ClosedHoldsNobody, RowsLinked
  <1>11. AttendanceOfOwnTable'
    BY <1>1, <1>4, <1>5, <1>6 DEF AttendanceOfOwnTable, PartsOf
  <1>12. ASSUME NEW c \in Campaigns PROVE Undisturbed(c)
    <2>1. \A p \in PartsOf(c) : p \in DOMAIN part' \/ part[p].character \notin characters'
      BY <1>2, <1>3, <1>4 DEF PartsOf
    <2> QED
      BY <1>1, <1>2, <1>4, <1>5, <1>6, <2>1 DEF Undisturbed
  <1> QED
    BY <1>7, <1>8, <1>9, <1>10, <1>11, <1>12, Outside DEF RowsSound

LEMMA DeleteCharacterInv ==
  ASSUME IInv, NEW h \in Characters, DeleteCharacter(h)
  PROVE  IInv'
  <1>1. RowsTyped /\ RowsLinked
    BY DEF IInv, RowsSound
  <1>2. DropCharacters({h}) /\ UNCHANGED <<users, campaign, review, issued, lock, req>>
    BY DEF DeleteCharacter
  <1> QED
    BY <1>1, <1>2, CharactersGo DEF RowsTyped, RowsLinked

LEMMA DeleteUserInv ==
  ASSUME IInv, NEW u \in Users, DeleteUser(u)
  PROVE  IInv'
  <1> DEFINE hs == {h \in Characters : OwnerOf[h] = u}
  <1>1. RowsTyped /\ RowsLinked
    BY DEF IInv, RowsSound
  <1>2. /\ users' = users \ {u} /\ DropCharacters(hs) /\ UNCHANGED <<issued, lock, req>>
        /\ campaign' = [c \in DOMAIN campaign |->
             IF campaign[c].owner = u THEN [campaign[c] EXCEPT !.owner = NoUser] ELSE campaign[c]]
        /\ review' = Without(review, {v \in DOMAIN review : review[v].author = u})
    BY DEF DeleteUser
  <1>3. \A h \in Characters : OwnerOf[h] \in users \ users' => h \in hs
    BY <1>2
  <1> HIDE DEF hs
  <1>4. ASSUME NEW c \in DOMAIN campaign
        PROVE  /\ campaign'[c] \in CampaignRow /\ campaign'[c].closed = campaign[c].closed
               /\ campaign'[c].archived = campaign[c].archived
    <2>1. campaign[c] \in CampaignRow
      BY <1>1 DEF RowsTyped
    <2>2. \/ campaign'[c] = campaign[c]
          \/ campaign'[c] = [campaign[c] EXCEPT !.owner = NoUser]
      BY <1>2
    <2> QED
      BY <2>1, <2>2 DEF CampaignRow
  <1>5. DOMAIN campaign' = DOMAIN campaign /\ campaign' \in [DOMAIN campaign -> CampaignRow]
    BY <1>2, <1>4
  <1>6. /\ review' \in [DOMAIN review' -> Review] /\ DOMAIN review' \subseteq DOMAIN review
        /\ \A v \in DOMAIN review' : review'[v] = review[v] /\ review[v].author \in users'
    BY <1>1, <1>2 DEF Without, RowsTyped, RowsLinked
  <1> QED
    BY <1>2, <1>3, <1>4, <1>5, <1>6, CharactersGo

-----------------------------------------------------------------------------
(* Every step.                                                             *)

LEMMA NextInv == IInv /\ [Next]_vars => IInv'
  <1> SUFFICES ASSUME IInv, [Next]_vars PROVE IInv'
    OBVIOUS
  <1>1. CASE UNCHANGED vars
    BY <1>1, TablesKept, Outside DEF vars
  <1>2. ASSUME NEW r \in Requests, NEW c \in Campaigns, NEW u \in Users, Begin(r, c, u)
        PROVE  IInv'
    BY <1>2, BeginInv
  <1>3. ASSUME NEW r \in Requests, RosterRequests(r) PROVE IInv'
    BY <1>3, CheckAddInv, CheckStatusInv, AddInv, SetStatusInv DEF RosterRequests
  <1>4. ASSUME NEW r \in Requests, SessionRequests(r) PROVE IInv'
    BY <1>4, CheckNumberInv, RenumberInv, SetPublishedInv, CheckAttendanceInv, DeleteSessionInv,
       CreateSessionInv, SetAttendanceInv DEF SessionRequests
  <1>5. ASSUME NEW r \in Requests, ReviewRequests(r) PROVE IInv'
    BY <1>5, CheckReviewInv, DeleteReviewInv, ReadReviewInv, PutReviewInv, SetHiddenInv
    DEF ReviewRequests
  <1>6. ASSUME NEW r \in Requests, CampaignRequests(r) \/ Abort(r) PROVE IInv'
    BY <1>6, CampaignRequestInv, AbortInv
  <1>7. CASE \/ \E c \in Campaigns, u \in Users : CreateCampaign(c, u)
             \/ \E h \in Characters : DeleteCharacter(h)
             \/ \E u \in Users : DeleteUser(u)
    BY <1>7, CreateCampaignInv, DeleteCharacterInv, DeleteUserInv
  <1> QED
    BY <1>1, <1>2, <1>3, <1>4, <1>5, <1>6, <1>7 DEF Next

LEMMA Invariance == Spec => []IInv
  BY InitInv, NextInv, PTL DEF Spec

\* The tables, the locks and what every request carries have their types, and
\* a row refers to rows that exist.
THEOREM TypeCorrect == Spec => []TypeOK
  BY InvType, Invariance, PTL

\* A character plays at one open table, a closed or archived campaign holds
\* nobody, and a session was attended by players of its own campaign, whoever
\* adds, closes, removes, records or deletes meanwhile.
THEOREM SeatsAlwaysAgree == Spec => []SeatsAgree
  <1>1. IInv => SeatsAgree
    <2> SUFFICES ASSUME IInv PROVE OneTable
      BY DEF SeatsAgree, IInv, RowsSound
    <2> SUFFICES ASSUME NEW h \in characters PROVE Cardinality(Holding(h)) <= 1
      BY DEF OneTable
    <2>1. \A p, q \in Holding(h) : p = q
      BY DEF Holding, Seated, IInv, RowsSound, RowsAgree
    <2>2. CASE Holding(h) = {}
      BY <2>2, FS_EmptySet
    <2>3. CASE Holding(h) # {}
      <3>1. PICK p : Holding(h) = {p}
        BY <2>1, <2>3
      <3> QED
        BY <3>1, FS_Singleton
    <2> QED
      BY <2>2, <2>3
  <1> QED
    BY <1>1, Invariance, PTL

\* The number an automatic creation computed under the lock is still free when
\* its row is inserted.
THEOREM AutoNumberStaysFree == Spec => []AutoNumberFree
  <1>1. IInv => AutoNumberFree
    BY DEF IInv, Knowing, Known, KnowsNumber, AutoNumberFree
  <1> QED
    BY <1>1, Invariance, PTL

-----------------------------------------------------------------------------
(* The history of the roster.                                              *)

\* What a step may do to a participation (the step of HistoryKept).
KeepsHistory ==
    \A p \in DOMAIN part :
        IF p \in DOMAIN part'
        THEN /\ part'[p].status # part[p].status => Rank(part'[p].status) > Rank(part[p].status)
             /\ part[p].ended # "" => part'[p].ended = part[p].ended
             /\ (part'[p].ended = "") = (part'[p].status = "ACTIVE")
        ELSE part[p].character \notin characters'

LEMMA RankGrows ==
  ASSUME NEW current \in Statuses, NEW target \in Statuses, StatusChangeAllowed(current, target)
  PROVE  Rank(target) > Rank(current)
  BY DEF StatusChangeAllowed, Statuses, Ended, Rank

\* A participation that ends gets its time of ending, one that has ended keeps it.
LEMMA EndedOnce ==
  ASSUME IInv, IInv', NEW p \in DOMAIN part, p \in DOMAIN part',
         \/ part'[p] = part[p]
         \/ Seated(p) /\ part'[p].status = "RETIRED"
         \/ /\ StatusChangeAllowed(part[p].status, part'[p].status)
            /\ part[p].ended # "" => part'[p].ended = part[p].ended
  PROVE  /\ part'[p].status # part[p].status => Rank(part'[p].status) > Rank(part[p].status)
         /\ part[p].ended # "" => part'[p].ended = part[p].ended
         /\ (part'[p].ended = "") = (part'[p].status = "ACTIVE")
  <1>1. /\ part[p].ended = "" <=> part[p].status = "ACTIVE"
        /\ part[p].status \in Statuses
    BY DEF IInv, RowsSound, RowsTyped, RowsAgree, Seated, Participation
  <1>2. /\ part'[p].ended = "" <=> part'[p].status = "ACTIVE"
        /\ part'[p].status \in Statuses
    BY DEF IInv, RowsSound, RowsTyped, RowsAgree, Seated, Participation
  <1>3. part'[p].status # part[p].status => Rank(part'[p].status) > Rank(part[p].status)
    <2>1. \/ part'[p].status = part[p].status
          \/ StatusChangeAllowed(part[p].status, part'[p].status)
      BY DEF StatusChangeAllowed, Seated
    <2> QED
      BY <1>1, <1>2, <2>1, RankGrows
  <1>4. part[p].ended # "" => part'[p].ended = part[p].ended
    BY <1>1 DEF Seated
  <1>5. (part'[p].ended = "") = (part'[p].status = "ACTIVE")
    BY <1>2
  <1> QED
    BY <1>3, <1>4, <1>5

LEMMA HistoryStep == IInv /\ IInv' /\ Next => KeepsHistory
  <1> SUFFICES ASSUME IInv, IInv', Next PROVE KeepsHistory
    OBVIOUS
  <1>1. RowsTyped
    BY DEF IInv, RowsSound
  <1>2. CASE part' = part
    BY <1>2, EndedOnce DEF KeepsHistory
  <1>3. ASSUME NEW c, part' = Released(c) PROVE KeepsHistory
    <2>1. DOMAIN part' = DOMAIN part
      BY <1>3, ReleasedRows
    <2>2. \A p \in DOMAIN part : \/ part'[p] = part[p]
                                 \/ Seated(p) /\ part'[p].status = "RETIRED"
      BY <1>3, ReleasedRows
    <2> QED
      BY <2>1, <2>2, EndedOnce DEF KeepsHistory
  <1>4. ASSUME NEW r \in Requests, Add(r) PROVE KeepsHistory
    <2>1. \A p \in DOMAIN part : p \in DOMAIN part' /\ part'[p] = part[p]
      BY <1>1, <1>4 DEF Add, Put, Unused, RowsTyped
    <2> QED
      BY <2>1, EndedOnce DEF KeepsHistory
  <1>5. ASSUME NEW r \in Requests, SetStatus(r) PROVE KeepsHistory
    <2>1. DOMAIN part' = DOMAIN part
      BY <1>5, SetStatusRow
    <2>2. \A p \in DOMAIN part :
            \/ part'[p] = part[p]
            \/ /\ StatusChangeAllowed(part[p].status, part'[p].status)
               /\ part[p].ended # "" => part'[p].ended = part[p].ended
      BY <1>5, SetStatusRow
    <2> QED
      BY <2>1, <2>2, EndedOnce DEF KeepsHistory
  <1>6. ASSUME NEW hs, DropCharacters(hs) PROVE KeepsHistory
    <2>1. \A p \in DOMAIN part : \/ p \in DOMAIN part' /\ part'[p] = part[p]
                                 \/ p \notin DOMAIN part' /\ part[p].character \notin characters'
      BY <1>6 DEF DropCharacters, Without
    <2> QED
      BY <2>1, EndedOnce DEF KeepsHistory
  <1>7. \/ part' = part
        \/ \E c : part' = Released(c)
        \/ \E r \in Requests : Add(r) \/ SetStatus(r)
        \/ \E hs : DropCharacters(hs)
    <2>1. ASSUME NEW r \in Requests, CampaignRequests(r)
          PROVE  part' = part \/ \E c : part' = Released(c)
      BY <2>1 DEF CampaignRequests, SetCampaignStatus, Archive, Restore
    <2>2. ASSUME NEW r \in Requests, RosterRequests(r)
          PROVE  part' = part \/ Add(r) \/ SetStatus(r)
      BY <2>2 DEF RosterRequests, CheckAdd, CheckStatus
    <2>3. ASSUME NEW r \in Requests, SessionRequests(r) PROVE part' = part
      BY <2>3 DEF SessionRequests, CheckNumber, Renumber, SetPublished, CheckAttendance,
         DeleteSession, CreateSession, SetAttendance
    <2>4. ASSUME NEW r \in Requests, ReviewRequests(r) PROVE part' = part
      BY <2>4 DEF ReviewRequests, CheckReview, DeleteReview, ReadReview, PutReview, SetHidden
    <2>5. ASSUME NEW r \in Requests,
                 Abort(r) \/ \E c \in Campaigns, u \in Users : Begin(r, c, u)
          PROVE  part' = part
      BY <2>5 DEF Abort, Begin
    <2>6. ASSUME NEW c \in Campaigns, NEW u \in Users, CreateCampaign(c, u) PROVE part' = part
      BY <2>6 DEF CreateCampaign
    <2>7. ASSUME \/ \E h \in Characters : DeleteCharacter(h)
                 \/ \E u \in Users : DeleteUser(u)
          PROVE  \E hs : DropCharacters(hs)
      BY <2>7 DEF DeleteCharacter, DeleteUser
    <2> QED
      BY <2>1, <2>2, <2>3, <2>4, <2>5, <2>6, <2>7 DEF Next
  <1> QED
    BY <1>2, <1>3, <1>4, <1>5, <1>6, <1>7

\* A participation ends once, in the status and at the time it ended, can only
\* be removed afterwards, and goes with its character only.
THEOREM HistoryAlwaysKept == Spec => HistoryKept
  <1>1. IInv /\ IInv' /\ [Next]_vars => [KeepsHistory]_vars
    BY HistoryStep
  <1> QED
    BY <1>1, Invariance, PTL DEF Spec, HistoryKept, KeepsHistory

-----------------------------------------------------------------------------
(* What is written of reviews.                                             *)

\* Nobody but the upsert writes the body of a review.
LEMMA OnlyPutWrites ==
  ASSUME IInv, Next
  PROVE  \/ \E r \in Requests : PutReview(r)
         \/ \A v \in DOMAIN review' : v \in DOMAIN review /\ review'[v].body = review[v].body
  <1> DEFINE Kept == \A v \in DOMAIN review' : v \in DOMAIN review /\ review'[v].body = review[v].body
  <1>1. review \in [DOMAIN review -> Review]
    BY DEF IInv, RowsSound, RowsTyped
  <1>2. review' = review => Kept
    OBVIOUS
  <1>3. ASSUME NEW ids, review' = Without(review, ids) PROVE Kept
    BY <1>3 DEF Without
  <1>4. ASSUME NEW r \in Requests, SetHidden(r) PROVE Kept
    <2> DEFINE v == req[r].on
               hidden == req[r].op = "hide"
    <2>1. v \in DOMAIN review /\ review' = [review EXCEPT ![v].hidden = hidden]
      BY <1>4 DEF SetHidden
    <2> HIDE DEF v, hidden
    <2>2. review[v] \in Review /\ review'[v] = [review[v] EXCEPT !.hidden = hidden]
      BY <1>1, <2>1
    <2> QED
      BY <1>1, <2>1, <2>2 DEF Review
  <1> HIDE DEF Kept
  <1>5. ASSUME NEW r \in Requests, CampaignRequests(r) \/ RosterRequests(r) \/ Abort(r)
        PROVE  review' = review
    BY <1>5 DEF CampaignRequests, SetCampaignStatus, Archive, Restore, RosterRequests, CheckAdd,
       CheckStatus, Add, SetStatus, Abort
  <1>6. ASSUME NEW r \in Requests, SessionRequests(r) PROVE Kept
    <2>1. ASSUME NEW s \in SessionIds, DeleteSession(r, s) PROVE Kept
      BY <2>1, <1>3 DEF DeleteSession
    <2> QED
      BY <1>2, <1>6, <2>1 DEF SessionRequests, CheckNumber, Renumber, SetPublished,
         CheckAttendance, CreateSession, SetAttendance
  <1>7. ASSUME NEW r \in Requests, ReviewRequests(r) PROVE PutReview(r) \/ Kept
    <2>1. ASSUME NEW v \in ReviewIds, DeleteReview(r, v) PROVE Kept
      BY <2>1, <1>3 DEF DeleteReview
    <2> QED
      BY <1>2, <1>4, <1>7, <2>1 DEF ReviewRequests, CheckReview, ReadReview
  <1>8. ASSUME \/ \E r \in Requests, c \in Campaigns, u \in Users : Begin(r, c, u)
               \/ \E c \in Campaigns, u \in Users : CreateCampaign(c, u)
               \/ \E h \in Characters : DeleteCharacter(h)
        PROVE  review' = review
    BY <1>8 DEF Begin, CreateCampaign, DeleteCharacter
  <1>9. ASSUME NEW u \in Users, DeleteUser(u) PROVE Kept
    BY <1>9, <1>3 DEF DeleteUser
  <1> QED
    BY <1>2, <1>5, <1>6, <1>7, <1>8, <1>9 DEF Next, Kept

\* The step of HiddenIsKept.
KeepsHidden ==
    \A v \in DOMAIN review \cap DOMAIN review' :
        review[v].hidden => review'[v].body = review[v].body

LEMMA HiddenStep == IInv /\ Next => KeepsHidden
  <1> SUFFICES ASSUME IInv, Next PROVE KeepsHidden
    OBVIOUS
  <1>1. ASSUME NEW r \in Requests, PutReview(r) PROVE KeepsHidden
    BY <1>1, PutReviewRow DEF KeepsHidden
  <1>2. CASE \A v \in DOMAIN review' : v \in DOMAIN review /\ review'[v].body = review[v].body
    BY <1>2 DEF KeepsHidden
  <1> QED
    BY <1>1, <1>2, OnlyPutWrites

\* A review the founder hid is not rewritten by its author, whichever of
\* moderation and edit reads and writes first.
THEOREM HiddenAlwaysKept == Spec => HiddenIsKept
  <1>1. IInv /\ [Next]_vars => [KeepsHidden]_review
    BY HiddenStep DEF vars
  <1> QED
    BY <1>1, Invariance, PTL DEF Spec, HiddenIsKept, KeepsHidden

\* The step of ReviewedWhileOpen.
WritesWhileOpen ==
    \A v \in DOMAIN review' :
        v \notin DOMAIN review \/ review'[v].body # review[v].body =>
            LET s == review'[v].scope
                c == IF s \in DOMAIN session THEN session[s].campaign ELSE s
                u == review'[v].author
            IN  /\ s \in DOMAIN session => session[s].published
                /\ IsPlayer(c, u) \/ HasDeleted(u)

LEMMA WriteStep == IInv /\ Next => WritesWhileOpen
  <1> SUFFICES ASSUME IInv, Next PROVE WritesWhileOpen
    OBVIOUS
  <1>1. ASSUME NEW r \in Requests, PutReview(r),
               NEW v \in DOMAIN review', v \notin DOMAIN review \/ review'[v].body # review[v].body
        PROVE  LET s == review'[v].scope
                   c == IF s \in DOMAIN session THEN session[s].campaign ELSE s
                   u == review'[v].author
               IN  /\ s \in DOMAIN session => session[s].published
                   /\ IsPlayer(c, u) \/ HasDeleted(u)
    <2> DEFINE s == req[r].on
               u == req[r].user
               c == IF s \in DOMAIN session THEN session[s].campaign ELSE s
    <2>1. review'[v].scope = s /\ review'[v].author = u
      BY <1>1, PutReviewRow
    <2>2. /\ Working(r) /\ req[r].op = "review" /\ s \in DOMAIN campaign \cup DOMAIN session
      BY <1>1, PutReviewRow
    <2>3. /\ req[r].campaign \in Campaigns /\ "player" \in req[r].as
          /\ IsPlayer(req[r].campaign, u) \/ HasDeleted(u)
          /\ s = req[r].campaign \/ s \in SessionIds
          /\ s \in DOMAIN session => session[s].campaign = req[r].campaign /\ session[s].published
      BY <2>2, Holder DEF Known, KnowsCaller, KnowsScope
    <2>4. DOMAIN campaign \subseteq Campaigns
      BY DEF IInv, RowsSound, RowsTyped
    <2>5. c = req[r].campaign
      BY <2>2, <2>3, <2>4, ScopeAssumption
    <2> HIDE DEF s, u, c
    <2>6. IsPlayer(c, u) \/ HasDeleted(u)
      BY <2>3, <2>5
    <2>7. s \in DOMAIN session => session[s].published
      BY <2>3
    <2> QED
      BY <2>1, <2>6, <2>7 DEF c
  <1>2. CASE \A v \in DOMAIN review' : v \in DOMAIN review /\ review'[v].body = review[v].body
    BY <1>2 DEF WritesWhileOpen
  <1> QED
    BY <1>1, <1>2, OnlyPutWrites DEF WritesWhileOpen

\* A review of a session is written while its chronicle is published, and any
\* review by a player of the campaign, or by one whose character was deleted
\* between the check and the write.
THEOREM AlwaysReviewedWhileOpen == Spec => ReviewedWhileOpen
  <1>1. IInv /\ [Next]_vars => [WritesWhileOpen]_review
    BY WriteStep DEF vars
  <1> QED
    BY <1>1, Invariance, PTL DEF Spec, ReviewedWhileOpen, WritesWhileOpen

\* Both rules of reviews together: moderation (set_hidden) and the edits of authors
\* (upsert_campaign_review, upsert_session_review) never undo each other.
THEOREM ReviewsAlwaysKept == Spec => ReviewsKept
  BY HiddenAlwaysKept, AlwaysReviewedWhileOpen DEF ReviewsKept

-----------------------------------------------------------------------------
(* The rosters are a book: CampaignSeats, under the mapping Seats.         *)

Entry(p) == [table |-> part[p].campaign, who |-> part[p].character,
             status |-> part[p].status, ended |-> part[p].ended]
Book == [p \in DOMAIN part |-> Entry(p)]
OpenOnes == {c \in DOMAIN campaign : ~campaign[c].closed /\ ~campaign[c].archived}

LEMMA BookRows ==
  /\ DOMAIN Book = DOMAIN part
  /\ \A p \in DOMAIN part :
        /\ Book[p] = Entry(p)
        /\ Book[p].table = part[p].campaign /\ Book[p].who = part[p].character
        /\ Book[p].status = part[p].status /\ Book[p].ended = part[p].ended
  BY DEF Book, Entry

\* A participation that ended, as the book writes it.
LEMMA EntryEnds ==
  ASSUME NEW p \in DOMAIN part, NEW how, part'[p].campaign = part[p].campaign,
         part'[p].character = part[p].character,
         part'[p].status = how, part'[p].ended = how
  PROVE  Entry(p)' = [Book[p] EXCEPT !.status = how, !.ended = how]
  <1>1. Entry(p)' = [table |-> part[p].campaign, who |-> part[p].character,
                     status |-> how, ended |-> how]
    BY DEF Entry
  <1>2. Book[p] = [table |-> part[p].campaign, who |-> part[p].character,
                   status |-> part[p].status, ended |-> part[p].ended]
    BY BookRows DEF Entry
  <1>3. [Book[p] EXCEPT !.status = how, !.ended = how]
            = [table |-> part[p].campaign, who |-> part[p].character, status |-> how, ended |-> how]
    <2> PICK x, y, z, w : /\ x = part[p].campaign /\ y = part[p].character
                          /\ z = part[p].status /\ w = part[p].ended
      OBVIOUS
    <2> DEFINE record == [table |-> x, who |-> y, status |-> z, ended |-> w]
               half == [table |-> x, who |-> y, status |-> how, ended |-> w]
    <2>1. [record EXCEPT !.status = how] = half
      OBVIOUS
    <2>2. [half EXCEPT !.ended = how] = [table |-> x, who |-> y, status |-> how, ended |-> how]
      OBVIOUS
    <2>3. Book[p] = record
      BY <1>2
    <2> HIDE DEF record, half
    <2>4. [record EXCEPT !.status = how, !.ended = how]
            = [[record EXCEPT !.status = how] EXCEPT !.ended = how]
      OBVIOUS
    <2>5. [record EXCEPT !.status = how, !.ended = how]
            = [table |-> x, who |-> y, status |-> how, ended |-> how]
      BY <2>1, <2>2, <2>4
    <2> QED
      BY <2>3, <2>5
  <1> QED
    BY <1>1, <1>3

\* A participation that was struck out.
LEMMA EntryStruck ==
  ASSUME NEW p \in DOMAIN part, part'[p].campaign = part[p].campaign,
         part'[p].character = part[p].character,
         part'[p].status = "REMOVED", part'[p].ended = part[p].ended
  PROVE  Entry(p)' = [Book[p] EXCEPT !.status = "REMOVED"]
  <1>1. Entry(p)' = [table |-> part[p].campaign, who |-> part[p].character,
                     status |-> "REMOVED", ended |-> part[p].ended]
    BY DEF Entry
  <1>2. Book[p] = [table |-> part[p].campaign, who |-> part[p].character,
                   status |-> part[p].status, ended |-> part[p].ended]
    BY BookRows DEF Entry
  <1> QED
    BY <1>1, <1>2

\* Releasing the characters of a campaign shuts it.
LEMMA ReleaseShuts ==
  ASSUME IInv, NEW c \in Campaigns, part' = Released(c), characters' = characters,
         OpenOnes' = OpenOnes \ {c}
  PROVE  Seats!Turn
  <1>1. DOMAIN part' = DOMAIN part
    BY ReleasedRows
  <1>2. ASSUME NEW p \in DOMAIN part
        PROVE  Entry(p)' = IF Book[p].table = c /\ Book[p].status = "ACTIVE"
                           THEN [Book[p] EXCEPT !.status = "RETIRED", !.ended = "RETIRED"]
                           ELSE Book[p]
    <2>1. /\ part'[p].campaign = part[p].campaign /\ part'[p].character = part[p].character
          /\ IF part[p].campaign = c /\ Seated(p)
             THEN part'[p].status = "RETIRED" /\ part'[p].ended = "RETIRED"
             ELSE part'[p] = part[p]
      BY ReleasedRows
    <2>2. CASE part[p].campaign = c /\ Seated(p)
      <3>1. Entry(p)' = [Book[p] EXCEPT !.status = "RETIRED", !.ended = "RETIRED"]
        BY <2>1, <2>2, EntryEnds
      <3>2. Book[p].table = c /\ Book[p].status = "ACTIVE"
        BY <2>2, BookRows DEF Seated
      <3> QED
        BY <3>1, <3>2
    <2>3. CASE ~(part[p].campaign = c /\ Seated(p))
      <3>1. Entry(p)' = Entry(p)
        BY <2>1, <2>3 DEF Entry
      <3>2. Book[p] = Entry(p) /\ ~(Book[p].table = c /\ Book[p].status = "ACTIVE")
        BY <2>3, BookRows DEF Seated
      <3> QED
        BY <3>1, <3>2
    <2> QED
      BY <2>2, <2>3
  <1>3. Book' = [p \in DOMAIN Book |->
                    IF Book[p].table = c /\ Book[p].status = "ACTIVE"
                    THEN [Book[p] EXCEPT !.status = "RETIRED", !.ended = "RETIRED"] ELSE Book[p]]
    <2>1. Book' = [p \in DOMAIN part |-> Entry(p)']
      BY <1>1 DEF Book
    <2> QED
      BY <1>2, <2>1, BookRows
  <1>4. Seats!Shut(c)
    BY <1>3 DEF Seats!Shut, Seats!Seated, Seats!Ending, Book, Entry, OpenOnes
  <1> QED
    BY <1>4 DEF Seats!Turn

\* A campaign that becomes open, or stays what it is.
LEMMA Opens ==
  ASSUME IInv, NEW c \in Campaigns, UNCHANGED <<characters, part>>,
         OpenOnes' \in {OpenOnes, OpenOnes \cup {c}}
  PROVE  [Seats!Turn]_(Seats!roster)
  <1>1. Book' = Book
    BY DEF Book, Entry
  <1>2. CASE OpenOnes' = OpenOnes
    BY <1>1, <1>2 DEF Seats!roster, Book, Entry, OpenOnes
  <1>3. CASE OpenOnes' = OpenOnes \cup {c}
    <2>1. Seats!Open(c)
      BY <1>1, <1>3 DEF Seats!Open, Book, Entry, OpenOnes
    <2> QED
      BY <2>1 DEF Seats!Turn
  <1> QED
    BY <1>2, <1>3

\* A campaign's own requests open it or shut it.
LEMMA CampaignTurns ==
  ASSUME IInv, NEW r \in Requests, CampaignRequests(r)
  PROVE  [Seats!Turn]_(Seats!roster)
  <1> DEFINE c == req[r].campaign
  <1>1. req[r].step = "locked" /\ HoldsRow(r) /\ characters' = characters
    BY DEF CampaignRequests, SetCampaignStatus, Archive, Restore, GmHolds, IInv, Held
  <1>2. Working(r)
    BY <1>1 DEF HoldsRow, Working, Founders
  <1>3. /\ c \in DOMAIN campaign /\ c \in Campaigns /\ campaign[c] \in CampaignRow
        /\ campaign \in [DOMAIN campaign -> CampaignRow]
    BY <1>2, Holder DEF IInv, RowsSound, RowsTyped
  <1>4. CASE SetCampaignStatus(r, TRUE)
    <2>1. part' = Released(c) /\ campaign' = [campaign EXCEPT ![c].closed = TRUE]
      BY <1>4 DEF SetCampaignStatus
    <2> HIDE DEF c
    <2>2. /\ DOMAIN campaign' = DOMAIN campaign /\ campaign'[c].closed
          /\ \A d \in DOMAIN campaign : d # c => campaign'[d] = campaign[d]
      BY <1>3, <2>1 DEF CampaignRow
    <2>3. OpenOnes' = OpenOnes \ {c}
      BY <2>2 DEF OpenOnes
    <2> QED
      BY <1>1, <1>3, <2>1, <2>3, ReleaseShuts
  <1>5. CASE SetCampaignStatus(r, FALSE)
    <2>1. part' = part /\ campaign' = [campaign EXCEPT ![c].closed = FALSE]
      BY <1>5 DEF SetCampaignStatus
    <2> HIDE DEF c
    <2>2. /\ DOMAIN campaign' = DOMAIN campaign /\ ~campaign'[c].closed
          /\ campaign'[c].archived = campaign[c].archived
          /\ \A d \in DOMAIN campaign : d # c => campaign'[d] = campaign[d]
      BY <1>3, <2>1 DEF CampaignRow
    <2>3. OpenOnes' \in {OpenOnes, OpenOnes \cup {c}}
      BY <1>3, <2>2 DEF OpenOnes
    <2> QED
      BY <1>1, <1>3, <2>1, <2>3, Opens
  <1>6. CASE Archive(r)
    <2>1. part' = Released(c) /\ campaign' = [campaign EXCEPT ![c].archived = TRUE]
      BY <1>6 DEF Archive
    <2> HIDE DEF c
    <2>2. /\ DOMAIN campaign' = DOMAIN campaign /\ campaign'[c].archived
          /\ \A d \in DOMAIN campaign : d # c => campaign'[d] = campaign[d]
      BY <1>3, <2>1 DEF CampaignRow
    <2>3. OpenOnes' = OpenOnes \ {c}
      BY <2>2 DEF OpenOnes
    <2> QED
      BY <1>1, <1>3, <2>1, <2>3, ReleaseShuts
  <1>7. CASE Restore(r)
    <2>1. part' = part /\ campaign' = [campaign EXCEPT ![c].archived = FALSE]
      BY <1>7 DEF Restore
    <2> HIDE DEF c
    <2>2. /\ DOMAIN campaign' = DOMAIN campaign /\ ~campaign'[c].archived
          /\ campaign'[c].closed = campaign[c].closed
          /\ \A d \in DOMAIN campaign : d # c => campaign'[d] = campaign[d]
      BY <1>3, <2>1 DEF CampaignRow
    <2>3. OpenOnes' \in {OpenOnes, OpenOnes \cup {c}}
      BY <1>3, <2>2 DEF OpenOnes
    <2> QED
      BY <1>1, <1>3, <2>1, <2>3, Opens
  <1> QED
    BY <1>4, <1>5, <1>6, <1>7 DEF CampaignRequests

\* A row that is inserted is a character that sits down.
LEMMA AddSits ==
  ASSUME IInv, NEW r \in Requests, Add(r)
  PROVE  Seats!Turn
  <1> PICK c, h : c = req[r].campaign /\ h = req[r].on
    OBVIOUS
  <1> DEFINE row == [campaign |-> c, character |-> h, user |-> OwnerOf[h],
                    status |-> "ACTIVE", ended |-> ""]
  <1>1. /\ Working(r) /\ req[r].op = "add" /\ h \in characters /\ Holding(h) = {}
        /\ UNCHANGED <<characters, campaign>>
    BY DEF Add, Working, Founders
  <1>2. c \in Campaigns /\ h \in Characters /\ c \in OpenOnes
    BY <1>1, Holder DEF Known, KnowsAdd, OpenOnes
  <1>3. PICK p \in PartIds \ issued : part' = Put(part, p, row)
    BY DEF Add, Unused
  <1>4. /\ row.campaign = c /\ row.character = h /\ row.status = "ACTIVE" /\ row.ended = ""
        /\ p \notin DOMAIN part
    BY DEF IInv, RowsSound, RowsTyped
  <1>5. \A q \in DOMAIN Book : Book[q].status = "ACTIVE" => Book[q].who # h
    BY <1>1, BookRows DEF Holding
  <1> HIDE DEF row
  <1>6. /\ DOMAIN part' = DOMAIN part \cup {p} /\ part'[p] = row
        /\ \A q \in DOMAIN part : part'[q] = part[q]
    BY <1>3, <1>4 DEF Put
  <1>7. Entry(p)' = [table |-> c, who |-> h, status |-> "ACTIVE", ended |-> ""]
    BY <1>4, <1>6 DEF Entry
  <1>8. \A q \in DOMAIN part : Entry(q)' = Book[q]
    BY <1>6, BookRows DEF Entry
  <1>9. Book' = [q \in DOMAIN Book \cup {p} |->
                    IF q = p THEN [table |-> c, who |-> h, status |-> "ACTIVE", ended |-> ""]
                    ELSE Book[q]]
    <2>1. Book' = [q \in DOMAIN part \cup {p} |-> Entry(q)']
      BY <1>6 DEF Book
    <2> QED
      BY <1>4, <1>7, <1>8, <2>1, BookRows
  <1>10. p \notin DOMAIN Book /\ OpenOnes' = OpenOnes
    BY <1>1, <1>4, BookRows DEF OpenOnes
  <1>11. Seats!SitDown(p, h, c)
    BY <1>1, <1>2, <1>5, <1>9, <1>10
    DEF Seats!SitDown, Seats!Seated, Book, Entry, OpenOnes
  <1>12. p \in PartIds
    OBVIOUS
  <1> QED
    BY Zenon, <1>2, <1>11, <1>12 DEF Seats!Turn

\* A status that is written ends a participation or strikes an ended one out.
LEMMA StatusEnds ==
  ASSUME IInv, NEW r \in Requests, SetStatus(r)
  PROVE  Seats!Turn
  <1> PICK p, how : p = req[r].on /\ how = req[r].status
    OBVIOUS
  <1>1. /\ p \in DOMAIN part /\ how \in Ended /\ StatusChangeAllowed(part[p].status, how)
        /\ DOMAIN part' = DOMAIN part
        /\ \A q \in DOMAIN part : q # p => part'[q] = part[q]
        /\ part'[p].campaign = part[p].campaign
        /\ part'[p].character = part[p].character /\ part'[p].status = how
        /\ part'[p].ended = IF part[p].ended = "" THEN how ELSE part[p].ended
    BY SetStatusRow
  <1>2. UNCHANGED <<characters, campaign>> /\ p \in PartIds
    BY <1>1 DEF SetStatus, IInv, RowsSound, RowsTyped
  <1>3. part[p].ended = "" <=> Seated(p)
    BY <1>1 DEF IInv, RowsSound, RowsAgree
  <1>4. OpenOnes' = OpenOnes /\ p \in DOMAIN Book /\ Book[p].status = part[p].status
    BY <1>1, <1>2, BookRows DEF OpenOnes
  <1>5. ASSUME NEW e, Entry(p)' = e PROVE Book' = [Book EXCEPT ![p] = e]
    <2>1. \A q \in DOMAIN part : q # p => Entry(q)' = Book[q]
      BY <1>1, BookRows DEF Entry
    <2>2. Book' = [q \in DOMAIN part |-> Entry(q)']
      BY <1>1 DEF Book
    <2> QED
      BY <1>5, <2>1, <2>2, BookRows
  <1>6. CASE Seated(p)
    <2>1. Entry(p)' = [Book[p] EXCEPT !.status = how, !.ended = how]
      BY <1>1, <1>3, <1>6, EntryEnds
    <2>2. Book' = [Book EXCEPT ![p] = [Book[p] EXCEPT !.status = how, !.ended = how]]
      BY <1>5, <2>1
    <2>3. Seats!GetUp(p, how)
      BY <1>2, <1>4, <1>6, <2>2
      DEF Seats!GetUp, Seats!Seated, Seats!Ending, Book, Entry, OpenOnes, Seated
    <2> QED
      BY <1>1, <1>2, <2>3 DEF Seats!Turn
  <1>7. CASE ~Seated(p)
    <2>1. how = "REMOVED" /\ part'[p].ended = part[p].ended
      BY <1>1, <1>3, <1>7 DEF StatusChangeAllowed, Seated
    <2>2. Entry(p)' = [Book[p] EXCEPT !.status = "REMOVED"]
      BY <1>1, <2>1, EntryStruck
    <2>3. Book' = [Book EXCEPT ![p] = [Book[p] EXCEPT !.status = "REMOVED"]]
      BY <1>5, <2>2
    <2>4. Book' = [Book EXCEPT ![p].status = "REMOVED"]
      BY <2>3
    <2>5. Seats!StrikeOut(p)
      BY <1>2, <1>4, <1>7, <2>4
      DEF Seats!StrikeOut, Seats!Seated, Book, Entry, OpenOnes, Seated
    <2> QED
      BY <1>2, <2>5 DEF Seats!Turn
  <1> QED
    BY <1>6, <1>7

\* Characters that go take their records with them.
LEMMA GoneDepart ==
  ASSUME IInv, NEW hs \in SUBSET Characters, DropCharacters(hs), OpenOnes' = OpenOnes
  PROVE  Seats!Turn
  <1>1. characters' = characters \ hs /\ part' = Without(part, {p \in DOMAIN part : part[p].character \in hs})
    BY DEF DropCharacters
  <1>2. /\ DOMAIN part' = {p \in DOMAIN part : part[p].character \notin hs}
        /\ \A p \in DOMAIN part' : part'[p] = part[p]
    BY <1>1 DEF Without
  <1>3. {q \in DOMAIN Book : Book[q].who \notin hs} = DOMAIN part'
    BY <1>2, BookRows
  <1>4. \A p \in DOMAIN part' : Entry(p)' = Book[p]
    BY <1>2, BookRows DEF Entry
  <1>5. Book' = [p \in {q \in DOMAIN Book : Book[q].who \notin hs} |-> Book[p]]
    BY <1>3, <1>4 DEF Book
  <1>6. Seats!Depart(hs)
    BY <1>1, <1>5 DEF Seats!Depart, Book, Entry, OpenOnes
  <1> QED
    BY <1>6 DEF Seats!Turn

\* Every other step leaves characters, open campaigns and participations alone.
LEMMA StepMaps ==
  ASSUME IInv, [Next]_vars
  PROVE  [Seats!Turn]_(Seats!roster)
  <1>1. CASE UNCHANGED <<characters, campaign, part>>
    BY <1>1 DEF Seats!roster
  <1>2. ASSUME NEW r \in Requests, CampaignRequests(r) PROVE [Seats!Turn]_(Seats!roster)
    BY <1>2, CampaignTurns
  <1>3. ASSUME NEW r \in Requests, RosterRequests(r) PROVE [Seats!Turn]_(Seats!roster)
    <2>1. Add(r) \/ SetStatus(r) \/ UNCHANGED <<characters, campaign, part>>
      BY <1>3 DEF RosterRequests, CheckAdd, CheckStatus
    <2> QED
      BY <1>1, <2>1, AddSits, StatusEnds
  <1>4. ASSUME NEW r \in Requests, SessionRequests(r) PROVE [Seats!Turn]_(Seats!roster)
    BY <1>1, <1>4 DEF SessionRequests, CheckNumber, Renumber, SetPublished, CheckAttendance,
       DeleteSession, CreateSession, SetAttendance
  <1>5. ASSUME NEW r \in Requests, ReviewRequests(r) PROVE [Seats!Turn]_(Seats!roster)
    BY <1>1, <1>5 DEF ReviewRequests, CheckReview, DeleteReview, ReadReview, PutReview, SetHidden
  <1>6. ASSUME NEW r \in Requests, Abort(r) \/ \E c \in Campaigns, u \in Users : Begin(r, c, u)
        PROVE  [Seats!Turn]_(Seats!roster)
    BY <1>1, <1>6 DEF Abort, Begin
  <1>7. ASSUME NEW c \in Campaigns, NEW u \in Users, CreateCampaign(c, u)
        PROVE  [Seats!Turn]_(Seats!roster)
    <2>1. /\ DOMAIN campaign' = DOMAIN campaign \cup {c} /\ c \notin DOMAIN campaign
          /\ campaign'[c] = [owner |-> u, closed |-> FALSE, archived |-> FALSE]
          /\ \A d \in DOMAIN campaign : campaign'[d] = campaign[d]
          /\ UNCHANGED <<characters, part>>
      BY <1>7 DEF CreateCampaign, Put
    <2>2. OpenOnes' = OpenOnes \cup {c}
      BY <2>1 DEF OpenOnes
    <2> QED
      BY <2>1, <2>2, Opens
  <1>8. ASSUME NEW h \in Characters, DeleteCharacter(h) PROVE [Seats!Turn]_(Seats!roster)
    <2>1. DropCharacters({h}) /\ OpenOnes' = OpenOnes
      BY <1>8 DEF DeleteCharacter, OpenOnes
    <2> QED
      BY <2>1, GoneDepart
  <1>9. ASSUME NEW u \in Users, DeleteUser(u) PROVE [Seats!Turn]_(Seats!roster)
    <2> DEFINE hs == {h \in Characters : OwnerOf[h] = u}
    <2>1. /\ DropCharacters(hs) /\ hs \in SUBSET Characters
          /\ campaign' = [c \in DOMAIN campaign |->
               IF campaign[c].owner = u THEN [campaign[c] EXCEPT !.owner = NoUser] ELSE campaign[c]]
      BY <1>9 DEF DeleteUser
    <2> HIDE DEF hs
    <2>2. ASSUME NEW c \in DOMAIN campaign
          PROVE  /\ campaign'[c].closed = campaign[c].closed
                 /\ campaign'[c].archived = campaign[c].archived
      <3>1. campaign[c] \in CampaignRow
        BY DEF IInv, RowsSound, RowsTyped
      <3>2. \/ campaign'[c] = campaign[c]
            \/ campaign'[c] = [campaign[c] EXCEPT !.owner = NoUser]
        BY <2>1
      <3> QED
        BY <3>1, <3>2 DEF CampaignRow
    <2>3. OpenOnes' = OpenOnes
      BY <2>1, <2>2 DEF OpenOnes
    <2> QED
      BY <2>1, <2>3, GoneDepart
  <1>10. CASE UNCHANGED vars
    BY <1>1, <1>10 DEF vars
  <1> QED
    BY <1>2, <1>3, <1>4, <1>5, <1>6, <1>7, <1>8, <1>9, <1>10 DEF Next

\* Campaigns implements CampaignSeats: whatever two game masters, a deletion and a
\* closing do at once (add, set_status, update, archive, release_characters), each
\* write is one legal step of the book of participations.
THEOREM RosterKept == Spec => RosterPromise
  <1>1. Init => Seats!Begin
    <2>1. Init => characters = Characters /\ DOMAIN campaign = {} /\ DOMAIN part = {}
      BY DEF Init, NoRows
    <2> QED
      BY <2>1 DEF Seats!Begin
  <1>2. IInv /\ [Next]_vars => [Seats!Turn]_(Seats!roster)
    BY StepMaps
  <1> QED
    BY <1>1, <1>2, Invariance, PTL DEF Spec, RosterPromise, Seats!Promise
=============================================================================
