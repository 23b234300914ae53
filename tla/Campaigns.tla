------------------------------ MODULE Campaigns ------------------------------
(***************************************************************************)
(* Game campaigns: features/campaigns (roster, status and archive,         *)
(* sessions with attendance and a chronicle, reviews) and the rows it      *)
(* keeps in models/campaigns.                                              *)
(*                                                                         *)
(* Every write of a campaign locks the campaign's row (SELECT ... FOR      *)
(* UPDATE), resolves the caller's standing, reads what its rule needs and  *)
(* writes; the lock goes with the commit.  Outside that lock are the       *)
(* deletion of a character or an account, whose cascades reach every       *)
(* campaign, and the founder's moderation of reviews.  A write that fails  *)
(* a rule or a constraint is rolled back (Abort).  The tables are          *)
(* functions over the ids of their rows; an id is never given twice.       *)
(***************************************************************************)
EXTENDS Integers, FiniteSets

CONSTANTS
    Campaigns, Characters, Users,
    OwnerOf,              \* per character: the user who owns it
    Gms,                  \* the users with the GM role
    Founder,              \* the user with the FOUND_FATHER role
    PartIds, SessionIds, ReviewIds,   \* ids of rows
    MaxRows,              \* bound of the instance: rows ever made
    MaxNumber,            \* bound of the instance: session numbers
    Requests,
    NoUser, NoRequest, Null

Ended == {"DEAD", "RETIRED", "REMOVED"}
Statuses == {"ACTIVE"} \cup Ended

ASSUME OwnerAssumption == 
    OwnerOf \in [Characters -> Users] /\ Gms \subseteq Users /\ Founder \in Gms
ASSUME NullAssumption ==
    /\ NoUser \notin Users /\ NoRequest \notin Requests
    /\ Null \notin Campaigns \cup Characters \cup PartIds \cup SessionIds \cup ReviewIds
ASSUME ScopeAssumption == Campaigns \cap SessionIds = {}
ASSUME BoundAssumption == MaxNumber \in Nat /\ MaxRows \in Nat

VARIABLES
    users, characters,   \* the accounts and the characters that exist
    campaign,            \* per created campaign: owner, whether closed, whether archived
    part,                \* campaign_characters: the participations
    session,             \* campaign_sessions with their attendance
    review,              \* campaign_reviews and session_reviews
    issued,              \* the row ids given so far
    lock,                \* per campaign: the transaction that holds its row
    req                  \* per request: where it is and what it holds

vars == <<users, characters, campaign, part, session, review, issued, lock, req>>

CampaignRow == [owner : Users \cup {NoUser}, closed : BOOLEAN, archived : BOOLEAN]

\* ended: the status that set ended_at, "" while it is null.
Participation == [campaign : Campaigns, character : Characters, user : Users,
                  status : Statuses, ended : Ended \cup {""}]

SessionRow == [campaign : Campaigns, number : 1..MaxNumber, published : BOOLEAN,
               attended : SUBSET PartIds]

\* scope: the campaign or the session reviewed.
Review == [scope : Campaigns \cup SessionIds, author : Users, hidden : BOOLEAN,
           body : {"first", "replaced"}]

Ops == {"", "add", "status", "auto", "number", "attendance", "review", "hide", "unhide"}

\* as: the standing resolved with the lock.  on, status, number, set: what the
\* request read or was given between its check and its write.
At(step, op, c, u, roles, on) ==
    [step |-> step, op |-> op, campaign |-> c, user |-> u, as |-> roles,
     on |-> on, status |-> "", ended |-> "", number |-> 0, set |-> {}]

Idle == At("idle", "", Null, NoUser, {}, Null)

NoRows == [i \in {} |-> Null]

Tables ==
    /\ \E C \in SUBSET Campaigns : campaign \in [C -> CampaignRow]
    /\ \E P \in SUBSET (PartIds \cap issued) : part \in [P -> Participation]
    /\ \E S \in SUBSET (SessionIds \cap issued) : session \in [S -> SessionRow]
    /\ \E V \in SUBSET (ReviewIds \cap issued) : review \in [V -> Review]

TypeOK ==
    /\ users \subseteq Users
    /\ characters \subseteq {h \in Characters : OwnerOf[h] \in users}
    /\ Tables
    /\ \A p \in DOMAIN part : /\ part[p].campaign \in DOMAIN campaign
                              /\ part[p].character \in characters
    /\ \A s \in DOMAIN session : /\ session[s].campaign \in DOMAIN campaign
                                 /\ session[s].attended \subseteq DOMAIN part
    /\ \A v \in DOMAIN review : /\ review[v].scope \in DOMAIN campaign \cup DOMAIN session
                                /\ review[v].author \in users
    /\ issued \subseteq PartIds \cup SessionIds \cup ReviewIds
    /\ lock \in [Campaigns -> Requests \cup {NoRequest}]
    /\ req \in [Requests -> [step : {"idle", "locked", "checked"}, op : Ops,
            campaign : Campaigns \cup {Null}, user : Users \cup {NoUser},
            as : SUBSET {"gm", "player"},
            on : Characters \cup PartIds \cup Campaigns \cup SessionIds \cup ReviewIds \cup {Null},
            status : Statuses \cup {""}, ended : Ended \cup {""}, number : 0..MaxNumber,
            set : SUBSET PartIds]]

Init ==
    /\ users = Users /\ characters = Characters
    /\ campaign = NoRows /\ part = NoRows /\ session = NoRows /\ review = NoRows
    /\ issued = {}
    /\ lock = [c \in Campaigns |-> NoRequest]
    /\ req = [r \in Requests |-> Idle]

-----------------------------------------------------------------------------
(* Rows.                                                                   *)

\* INSERT or full replacement of a row, and the deletion of rows.
Put(table, id, row) == [i \in DOMAIN table \cup {id} |-> IF i = id THEN row ELSE table[i]]
Without(table, ids) == [i \in DOMAIN table \ ids |-> table[i]]

\* The ids the next row may get.
Unused(ids) == IF Cardinality(issued) < MaxRows THEN ids \ issued ELSE {}

PartsOf(c) == {p \in DOMAIN part : part[p].campaign = c}
SessionsOf(c) == {s \in DOMAIN session : session[s].campaign = c}
Holding(h) == {p \in DOMAIN part : part[p].character = h /\ part[p].status = "ACTIVE"}

\* player_condition: a participation of the user that is not REMOVED.
IsPlayer(c, u) == \E p \in PartsOf(c) : part[p].user = u /\ part[p].status # "REMOVED"

\* CampaignContext.is_gm: the owner or the founder.
IsGm(c, u) == u = campaign[c].owner \/ u = Founder

\* access_row: what the caller is to the campaign, possibly both.
Standing(c, u) == {role \in {"gm", "player"} :
                    IF role = "gm" THEN IsGm(c, u) ELSE IsPlayer(c, u)}

\* status_change_allowed, for a change.
StatusChangeAllowed(current, target) ==
    /\ current # target
    /\ target # "ACTIVE"
    /\ current = "ACTIVE" \/ target = "REMOVED"

\* Mutant of NextNumber: the number of sessions, plus one.
NextByCount(c) == Cardinality(SessionsOf(c)) + 1

\* next_number: one past the highest, 1 for the first session.
OnePast(c, n) ==
    /\ \A s \in SessionsOf(c) : session[s].number < n
    /\ n = 1 \/ \E s \in SessionsOf(c) : session[s].number = n - 1

NextNumber(c) == CHOOSE n \in 1..MaxNumber + 1 : OnePast(c, n)

\* uq_campaign_sessions_number.
NumberFree(c, n) == \A s \in SessionsOf(c) : session[s].number # n

-----------------------------------------------------------------------------
(* Transactions.                                                           *)

\* Mutant of Begin: the row is read without FOR UPDATE.
BeginUnlocked(r, c, u) ==
    /\ req[r].step = "idle"
    /\ c \in DOMAIN campaign /\ u \in users
    /\ Standing(c, u) # {}
    /\ req' = [req EXCEPT ![r] = At("locked", "", c, u, Standing(c, u), Null)]
    /\ UNCHANGED <<users, characters, campaign, part, session, review, issued, lock>>

\* _context with lock=True: lock_campaign, then access_row; 404 for a caller
\* who is neither the GM, the founder nor a player.
Begin(r, c, u) ==
    /\ req[r].step = "idle"
    /\ c \in DOMAIN campaign /\ u \in users
    /\ lock[c] = NoRequest
    /\ Standing(c, u) # {}
    /\ lock' = [lock EXCEPT ![c] = r]
    /\ req' = [req EXCEPT ![r] = At("locked", "", c, u, Standing(c, u), Null)]
    /\ UNCHANGED <<users, characters, campaign, part, session, review, issued>>

\* A check passed: the request goes on to its write with what it read.
Checked(r, op, on) ==
    [req[r] EXCEPT !.step = "checked", !.op = op, !.on = on]

\* The end of a transaction: its request is idle, its lock is free.
Release(r) ==
    /\ req' = [req EXCEPT ![r] = Idle]
    /\ lock' = [c \in Campaigns |-> IF lock[c] = r THEN NoRequest ELSE lock[c]]

\* A rule, a constraint or the connection fails: rollback.
Abort(r) ==
    /\ req[r].step # "idle"
    /\ Release(r)
    /\ UNCHANGED <<users, characters, campaign, part, session, review, issued>>

\* A write by the campaign's GM or the founder, which needs nothing but the lock.
GmHolds(r) == req[r].step = "locked" /\ "gm" \in req[r].as

-----------------------------------------------------------------------------
(* The campaign.                                                           *)

\* CampaignCrudService.create, for a user with the GM role.
CreateCampaign(c, u) ==
    /\ c \notin DOMAIN campaign /\ u \in users \cap Gms
    /\ campaign' = Put(campaign, c, [owner |-> u, closed |-> FALSE, archived |-> FALSE])
    /\ UNCHANGED <<users, characters, part, session, review, issued, lock, req>>

\* release_characters: every ACTIVE participation of the campaign is retired.
Released(c) ==
    [p \in DOMAIN part |->
        IF part[p].campaign = c /\ part[p].status = "ACTIVE"
        THEN [part[p] EXCEPT !.status = "RETIRED", !.ended = "RETIRED"] ELSE part[p]]

\* CampaignCrudService.update of the status: closing (finished, abandoned)
\* releases the characters; any status may follow any other.
SetCampaignStatus(r, closed) ==
    /\ GmHolds(r)
    /\ campaign' = [campaign EXCEPT ![req[r].campaign].closed = closed]
    /\ part' = IF closed THEN Released(req[r].campaign) ELSE part
    /\ Release(r)
    /\ UNCHANGED <<users, characters, session, review, issued>>

\* archive: once; the characters are released.
Archive(r) ==
    /\ GmHolds(r)
    /\ ~campaign[req[r].campaign].archived
    /\ campaign' = [campaign EXCEPT ![req[r].campaign].archived = TRUE]
    /\ part' = Released(req[r].campaign)
    /\ Release(r)
    /\ UNCHANGED <<users, characters, session, review, issued>>

\* restore: what was released stays released.
Restore(r) ==
    /\ GmHolds(r)
    /\ campaign' = [campaign EXCEPT ![req[r].campaign].archived = FALSE]
    /\ Release(r)
    /\ UNCHANGED <<users, characters, part, session, review, issued>>

-----------------------------------------------------------------------------
(* The roster.                                                             *)

\* add: the campaign is open, the character exists and is active nowhere; ...
CheckAdd(r, h) ==
    /\ GmHolds(r)
    /\ ~campaign[req[r].campaign].closed /\ ~campaign[req[r].campaign].archived
    /\ h \in characters
    /\ Holding(h) = {}
    /\ req' = [req EXCEPT ![r] = Checked(r, "add", h)]
    /\ UNCHANGED <<users, characters, campaign, part, session, review, issued, lock>>

\* Mutant of Add: uq_campaign_characters_one_active is missing.
AddUnchecked(r) ==
    /\ req[r].step = "checked" /\ req[r].op = "add"
    /\ req[r].on \in characters
    /\ \E p \in Unused(PartIds) :
        /\ part' = Put(part, p, [campaign |-> req[r].campaign, character |-> req[r].on,
                user |-> OwnerOf[req[r].on], status |-> "ACTIVE", ended |-> ""])
        /\ issued' = issued \cup {p}
    /\ Release(r)
    /\ UNCHANGED <<users, characters, campaign, session, review>>

\* ... then the row is inserted: the foreign key wants the character, the
\* partial unique index that nothing ACTIVE holds it.
Add(r) ==
    /\ req[r].step = "checked" /\ req[r].op = "add"
    /\ req[r].on \in characters
    /\ Holding(req[r].on) = {}
    /\ \E p \in Unused(PartIds) :
        /\ part' = Put(part, p, [campaign |-> req[r].campaign, character |-> req[r].on,
                user |-> OwnerOf[req[r].on], status |-> "ACTIVE", ended |-> ""])
        /\ issued' = issued \cup {p}
    /\ Release(r)
    /\ UNCHANGED <<users, characters, campaign, session, review>>

\* set_status: the participation of this campaign is read and the rule asked; ...
CheckStatus(r, p, target) ==
    /\ GmHolds(r)
    /\ p \in PartsOf(req[r].campaign)
    /\ StatusChangeAllowed(part[p].status, target)
    /\ req' = [req EXCEPT ![r] = [Checked(r, "status", p) EXCEPT !.status = target,
                                                                 !.ended = part[p].ended]]
    /\ UNCHANGED <<users, characters, campaign, part, session, review, issued, lock>>

\* ... then written, ended_at only by the change that ended it.  A row that is
\* gone fails the flush.
SetStatus(r) ==
    /\ req[r].step = "checked" /\ req[r].op = "status"
    /\ req[r].on \in DOMAIN part
    /\ part' = [part EXCEPT ![req[r].on].status = req[r].status,
                            ![req[r].on].ended = IF req[r].ended = "" THEN req[r].status ELSE @]
    /\ Release(r)
    /\ UNCHANGED <<users, characters, campaign, session, review, issued>>

-----------------------------------------------------------------------------
(* Sessions.                                                               *)

\* create: the number is the request's, or (auto) one past the highest; ...
CheckNumber(r, auto, n) ==
    /\ GmHolds(r)
    /\ auto => n = NextNumber(req[r].campaign)
    /\ req' = [req EXCEPT ![r] = [Checked(r, IF auto THEN "auto" ELSE "number", Null)
                                    EXCEPT !.number = n]]
    /\ UNCHANGED <<users, characters, campaign, part, session, review, issued, lock>>

\* ... then the row is inserted, unless the unique constraint refuses it.
CreateSession(r) ==
    /\ req[r].step = "checked" /\ req[r].op \in {"auto", "number"}
    /\ NumberFree(req[r].campaign, req[r].number)
    /\ \E s \in Unused(SessionIds) :
        /\ session' = Put(session, s, [campaign |-> req[r].campaign, number |-> req[r].number,
                                       published |-> FALSE, attended |-> {}])
        /\ issued' = issued \cup {s}
    /\ Release(r)
    /\ UNCHANGED <<users, characters, campaign, part, review>>

\* update of the number.
Renumber(r, s, n) ==
    /\ GmHolds(r)
    /\ s \in SessionsOf(req[r].campaign)
    /\ NumberFree(req[r].campaign, n)
    /\ session' = [session EXCEPT ![s].number = n]
    /\ Release(r)
    /\ UNCHANGED <<users, characters, campaign, part, review, issued>>

\* set_published.
SetPublished(r, s, published) ==
    /\ GmHolds(r)
    /\ s \in SessionsOf(req[r].campaign)
    /\ session' = [session EXCEPT ![s].published = published]
    /\ Release(r)
    /\ UNCHANGED <<users, characters, campaign, part, review, issued>>

\* set_attendance: the participations, ended ones included, and the session
\* are of this campaign; ...
CheckAttendance(r, s, ps) ==
    /\ GmHolds(r)
    /\ s \in SessionsOf(req[r].campaign)
    /\ ps \subseteq PartsOf(req[r].campaign)
    /\ req' = [req EXCEPT ![r] = [Checked(r, "attendance", s) EXCEPT !.set = ps]]
    /\ UNCHANGED <<users, characters, campaign, part, session, review, issued, lock>>

\* ... then the rows are replaced (replace_association), if both ends are there.
SetAttendance(r) ==
    /\ req[r].step = "checked" /\ req[r].op = "attendance"
    /\ req[r].on \in DOMAIN session /\ req[r].set \subseteq DOMAIN part
    /\ session' = [session EXCEPT ![req[r].on].attended = req[r].set]
    /\ Release(r)
    /\ UNCHANGED <<users, characters, campaign, part, review, issued>>

\* delete: its attendance and reviews go with it.
DeleteSession(r, s) ==
    /\ GmHolds(r)
    /\ s \in SessionsOf(req[r].campaign)
    /\ session' = Without(session, {s})
    /\ review' = Without(review, {v \in DOMAIN review : review[v].scope = s})
    /\ Release(r)
    /\ UNCHANGED <<users, characters, campaign, part, issued>>

-----------------------------------------------------------------------------
(* Reviews.                                                                *)

ReviewsBy(scope, u) == {v \in DOMAIN review : review[v].scope = scope /\ review[v].author = u}

\* put_campaign_review, put_session_review: the caller is a player and not the
\* campaign's GM; a session is of this campaign and published; ...
CheckReview(r, scope) ==
    /\ req[r].step = "locked"
    /\ "player" \in req[r].as /\ req[r].user # campaign[req[r].campaign].owner
    /\ \/ scope = req[r].campaign
       \/ scope \in SessionsOf(req[r].campaign) /\ session[scope].published
    /\ req' = [req EXCEPT ![r] = Checked(r, "review", scope)]
    /\ UNCHANGED <<users, characters, campaign, part, session, review, issued, lock>>

\* Mutant of PutReview: the WHERE of the upsert is missing.
PutAnyReview(r) ==
    /\ req[r].step = "checked" /\ req[r].op = "review"
    /\ req[r].user \in users
    /\ req[r].on \in DOMAIN campaign \cup DOMAIN session
    /\ IF ReviewsBy(req[r].on, req[r].user) = {}
       THEN \E v \in Unused(ReviewIds) :
                /\ review' = Put(review, v, [scope |-> req[r].on, author |-> req[r].user,
                                             hidden |-> FALSE, body |-> "first"])
                /\ issued' = issued \cup {v}
       ELSE \E v \in ReviewsBy(req[r].on, req[r].user) :
                /\ review' = [review EXCEPT ![v].body = "replaced"]
                /\ UNCHANGED issued
    /\ Release(r)
    /\ UNCHANGED <<users, characters, campaign, part, session>>

\* ... then one INSERT ... ON CONFLICT DO UPDATE ... WHERE hidden_at IS NULL.
PutReview(r) ==
    /\ req[r].step = "checked" /\ req[r].op = "review"
    /\ req[r].user \in users
    /\ req[r].on \in DOMAIN campaign \cup DOMAIN session
    /\ IF ReviewsBy(req[r].on, req[r].user) = {}
       THEN \E v \in Unused(ReviewIds) :
                /\ review' = Put(review, v, [scope |-> req[r].on, author |-> req[r].user,
                                             hidden |-> FALSE, body |-> "first"])
                /\ issued' = issued \cup {v}
       ELSE \E v \in ReviewsBy(req[r].on, req[r].user) :
                /\ ~review[v].hidden
                /\ review' = [review EXCEPT ![v].body = "replaced"]
                /\ UNCHANGED issued
    /\ Release(r)
    /\ UNCHANGED <<users, characters, campaign, part, session>>

\* delete_campaign_review, delete_session_review: the caller's own, hidden or not.
DeleteReview(r, v) ==
    /\ req[r].step = "locked"
    /\ \E scope \in {req[r].campaign} \cup SessionsOf(req[r].campaign) :
            v \in ReviewsBy(scope, req[r].user)
    /\ review' = Without(review, {v})
    /\ Release(r)
    /\ UNCHANGED <<users, characters, campaign, part, session, issued>>

\* _set_hidden, by the founder, without the campaign's lock: the review is
\* read, ...
ReadReview(r, v, hidden) ==
    /\ req[r].step = "idle"
    /\ v \in DOMAIN review
    /\ req' = [req EXCEPT ![r] =
                    At("checked", IF hidden THEN "hide" ELSE "unhide", Null, NoUser, {}, v)]
    /\ UNCHANGED <<users, characters, campaign, part, session, review, issued, lock>>

\* ... then its hidden_at is written, if the row is still there.
SetHidden(r) ==
    /\ req[r].step = "checked" /\ req[r].op \in {"hide", "unhide"}
    /\ req[r].on \in DOMAIN review
    /\ review' = [review EXCEPT ![req[r].on].hidden = (req[r].op = "hide")]
    /\ Release(r)
    /\ UNCHANGED <<users, characters, campaign, part, session, issued>>

-----------------------------------------------------------------------------
(* Deletions outside the campaign's lock, with their cascades.             *)

\* What is left of participations and attendance without some characters.
DropCharacters(hs) ==
    LET gone == {p \in DOMAIN part : part[p].character \in hs}
    IN  /\ characters' = characters \ hs
        /\ part' = Without(part, gone)
        /\ session' = [s \in DOMAIN session |->
                        [session[s] EXCEPT !.attended = @ \ gone]]

\* CharacterService.delete, by the owner or the founder.
DeleteCharacter(h) ==
    /\ h \in characters
    /\ DropCharacters({h})
    /\ UNCHANGED <<users, campaign, review, issued, lock, req>>

\* UserService.delete_user, by the founder: campaigns stay without an owner,
\* characters, participations and reviews go.
DeleteUser(u) ==
    /\ u \in users \ {Founder}
    /\ users' = users \ {u}
    /\ campaign' = [c \in DOMAIN campaign |->
            IF campaign[c].owner = u THEN [campaign[c] EXCEPT !.owner = NoUser] ELSE campaign[c]]
    /\ DropCharacters({h \in Characters : OwnerOf[h] = u})
    /\ review' = Without(review, {v \in DOMAIN review : review[v].author = u})
    /\ UNCHANGED <<issued, lock, req>>

\* The requests, with all their inputs.
CampaignRequests(r) ==
    \/ \E closed \in BOOLEAN : SetCampaignStatus(r, closed)
    \/ Archive(r) \/ Restore(r)

RosterRequests(r) ==
    \/ \E h \in Characters : CheckAdd(r, h)
    \/ \E p \in PartIds, target \in Ended : CheckStatus(r, p, target)
    \/ Add(r) \/ SetStatus(r)

SessionRequests(r) ==
    \/ \E auto \in BOOLEAN, n \in 1..MaxNumber : CheckNumber(r, auto, n)
    \/ \E s \in SessionIds :
        \/ \E n \in 1..MaxNumber : Renumber(r, s, n)
        \/ \E published \in BOOLEAN : SetPublished(r, s, published)
        \/ \E ps \in SUBSET PartIds : CheckAttendance(r, s, ps)
        \/ DeleteSession(r, s)
    \/ CreateSession(r) \/ SetAttendance(r)

ReviewRequests(r) ==
    \/ \E scope \in Campaigns \cup SessionIds : CheckReview(r, scope)
    \/ \E v \in ReviewIds :
        DeleteReview(r, v) \/ \E hidden \in BOOLEAN : ReadReview(r, v, hidden)
    \/ PutReview(r) \/ SetHidden(r)

Next ==
    \/ \E r \in Requests :
        \/ \E c \in Campaigns, u \in Users : Begin(r, c, u)
        \/ CampaignRequests(r) \/ RosterRequests(r)
        \/ SessionRequests(r) \/ ReviewRequests(r)
        \/ Abort(r)
    \/ \E c \in Campaigns, u \in Users : CreateCampaign(c, u)
    \/ \E h \in Characters : DeleteCharacter(h)
    \/ \E u \in Users : DeleteUser(u)

Spec == Init /\ [][Next]_vars

-----------------------------------------------------------------------------
(* Properties.                                                             *)

\* A character plays at one table at a time, although two GMs who add it hold
\* different locks (add, uq_campaign_characters_one_active).
OneTable == \A h \in characters : Cardinality(Holding(h)) <= 1

\* A campaign that is over or archived holds no character: closing releases
\* them, and no addition slips in behind it (add, update, archive, restore).
ClosedHoldsNobody ==
    \A p \in DOMAIN part :
        part[p].status = "ACTIVE" =>
            ~campaign[part[p].campaign].closed /\ ~campaign[part[p].campaign].archived

Rank(status) == CASE status = "ACTIVE" -> 0 [] status = "REMOVED" -> 2 [] OTHER -> 1

\* The history of a roster stays intact: a participation ends once, in the
\* status and at the time it ended, and can only be removed afterwards; it goes
\* with its character only (set_status, release_characters).
HistoryKept ==
    [][\A p \in DOMAIN part :
        IF p \in DOMAIN part'
        THEN /\ part'[p].status # part[p].status => Rank(part'[p].status) > Rank(part[p].status)
             /\ part[p].ended # "" => part'[p].ended = part[p].ended
             /\ (part'[p].ended = "") = (part'[p].status = "ACTIVE")
        ELSE part[p].character \notin characters']_vars

\* An automatic session number is still free when its row is inserted (create:
\* "the lock also keeps two auto-numbered creates from taking one number").
AutoNumberFree ==
    \A r \in Requests :
        req[r].step = "checked" /\ req[r].op = "auto" => NumberFree(req[r].campaign, req[r].number)

\* Who attended a session took part in its campaign (set_attendance).
AttendanceOfOwnTable ==
    \A s \in DOMAIN session : session[s].attended \subseteq PartsOf(session[s].campaign)

\* Who sits where: one open table per character, nobody at a closed one, and
\* attendance of the table's own players, though adding, closing, leaving and
\* recording attendance hold the locks of different campaigns.
SeatsAgree == OneTable /\ ClosedHoldsNobody /\ AttendanceOfOwnTable

\* A review the founder hid is not rewritten by its author, whatever the order
\* of moderation and edit (upsert_campaign_review, upsert_session_review).
HiddenIsKept ==
    [][\A v \in DOMAIN review \cap DOMAIN review' :
        review[v].hidden => review'[v].body = review[v].body]_review

\* A character of the user was deleted.
HasDeleted(u) == \E h \in Characters \ characters : OwnerOf[h] = u

\* A session review is written while the chronicle is published, by a player
\* of the campaign or one whose characters were deleted meanwhile: neither an
\* unpublication nor a removal comes between check and write (base.py).
ReviewedWhileOpen ==
    [][\A v \in DOMAIN review' :
        v \notin DOMAIN review \/ review'[v].body # review[v].body =>
            LET s == review'[v].scope
                c == IF s \in DOMAIN session THEN session[s].campaign ELSE s
                u == review'[v].author
            IN  /\ s \in DOMAIN session => session[s].published
                /\ IsPlayer(c, u) \/ HasDeleted(u)]_review

\* Reviews keep their rules, whichever of author, founder and game master reads
\* and writes first: what is hidden stays, what is written was open to its author.
ReviewsKept == HiddenIsKept /\ ReviewedWhileOpen

-----------------------------------------------------------------------------
(* What the rosters promise.                                               *)

Seats == INSTANCE CampaignSeats WITH
    around <- characters,
    open <- {c \in DOMAIN campaign : ~campaign[c].closed /\ ~campaign[c].archived},
    book <- [p \in DOMAIN part |-> [table |-> part[p].campaign, who |-> part[p].character,
                                    status |-> part[p].status, ended |-> part[p].ended]]

\* Campaigns implements CampaignSeats: what requests check under the locks of different
\* campaigns, and write a step later, are steps of one book (add, set_status, release_characters).
RosterPromise == Seats!Promise
=============================================================================
