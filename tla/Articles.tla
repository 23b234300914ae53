------------------------------ MODULE Articles ------------------------------
(***************************************************************************)
(* Articles under concurrent requests: the review workflow, direct edits   *)
(* and restored revisions (each a new version), proposals (accept, rebase, *)
(* replace, reject, withdraw) and deletion.                                *)
(*                                                                         *)
(* Postgres runs at READ COMMITTED: a statement reads what is committed,   *)
(* an UPDATE or SELECT FOR UPDATE waits for the row and then sees its      *)
(* newest version.  The variables are the committed rows.  A transaction's *)
(* writes are applied by its COMMIT; until then the rows it wrote are      *)
(* locked.  A transaction of one statement is one step.  Content is a      *)
(* title and a body of one line, standing for the six REVISED_FIELDS.      *)
(***************************************************************************)
EXTENDS Integers, FiniteSets

CONSTANTS
    Ids,          \* articles that may ever be created
    Proposals,    \* proposals that may ever be made
    Requests,     \* requests served at once
    Texts,        \* values of a field
    Drafts,       \* contents of a new article
    Edits,        \* what a PATCH, or a proposal, may send
    NoArticle, NoProposal, NoRequest,
    MaxVersion    \* bound of the instance: no request starts a version past it

Fields == {"title", "body"}
Contents == [Fields -> Texts]
Patches == UNION {[fs -> Texts] : fs \in SUBSET Fields}

Statuses == {"draft", "in_review", "published", "archived"}
Actions == {"submit", "publish", "reject", "archive", "restore"}

Article == [status : Statuses, version : Nat, published : BOOLEAN, slug : Texts,
            content : Contents]
\* The proposal a revision comes from is history: the code keeps its editor.
Revision == [version : Nat, content : Contents, from : Proposals \cup {NoProposal}]
Proposal == [article : Ids, base : Nat, content : Contents, accepted : Nat,
             status : {"pending", "accepted", "rejected", "withdrawn"}]

ASSUME InputAssumption ==
    /\ Ids # {} /\ Drafts \subseteq Contents
    /\ Edits \subseteq Patches \ {<<>>}
    /\ MaxVersion \in Nat
ASSUME NullAssumption ==
    /\ NoArticle \notin Article
    /\ NoProposal \notin Proposal \cup Proposals
    /\ NoRequest \notin Requests

VARIABLES
    article,       \* rows of articles, or NoArticle
    revisions,     \* rows of article_revisions, by article
    proposal,      \* rows of article_proposals, or NoProposal
    used,          \* ids given out
    articleLock, proposalLock,   \* the request whose transaction holds the row
    pc,            \* per request: what it does next
    on, about,     \* the article, and the proposal, it is about
    seen,          \* what it has read of the article
    patch,         \* the fields it is going to write, or has read to review
    onto           \* the version it means to write on

rows == <<article, revisions, proposal, used>>
locks == <<articleLock, proposalLock>>
locals == <<on, about, seen, patch, onto>>
vars == <<rows, locks, pc, locals>>

Points == {"idle", "edit", "write", "review", "read", "close", "lock", "merge", "check",
           "store", "propose", "cascade"}

-----------------------------------------------------------------------------
(* Helpers                                                                 *)

Exists(a) == article[a] # NoArticle
Pending(p) == proposal[p] # NoProposal /\ proposal[p].status = "pending"
Revised(a, v) == (CHOOSE e \in revisions[a] : e.version = v).content
ProposalsOf(a) == {p \in Proposals : proposal[p] # NoProposal /\ proposal[p].article = a}

\* An UPDATE of the fields that were sent.
Patched(c, fields) == [f \in Fields |-> IF f \in DOMAIN fields THEN fields[f] ELSE c[f]]

\* merge_value for each field, and merge_text for a body of one line.
CanMerge(base, current, proposed) ==
    \A f \in Fields : proposed[f] = base[f] \/ current[f] \in {base[f], proposed[f]}
Merged(base, current, proposed) ==
    [f \in Fields |-> IF proposed[f] = base[f] THEN current[f] ELSE proposed[f]]

Goto(r, point) == pc' = [pc EXCEPT ![r] = point]

\* Mutant of Release: the rows stay locked.
KeepLocks(r) == UNCHANGED locks
\* A transaction ends, by COMMIT or ROLLBACK.
Release(r) ==
    /\ articleLock' = [a \in Ids |-> IF articleLock[a] = r THEN NoRequest ELSE articleLock[a]]
    /\ proposalLock' = [p \in Proposals |->
                          IF proposalLock[p] = r THEN NoRequest ELSE proposalLock[p]]
\* Nothing it has read outlives a request.
Forget(r) ==
    /\ on' = [on EXCEPT ![r] = CHOOSE a \in Ids : TRUE]
    /\ about' = [about EXCEPT ![r] = NoProposal]
    /\ seen' = [seen EXCEPT ![r] = [version |-> 0, published |-> FALSE]]
    /\ patch' = [patch EXCEPT ![r] = <<>>]
    /\ onto' = [onto EXCEPT ![r] = 0]
End(r) == Goto(r, "idle") /\ Release(r) /\ Forget(r)
\* Refused (404, 409), or rolled back: no row changes.
Fails(r) == End(r) /\ UNCHANGED rows

HoldArticle(r) == articleLock' = [articleLock EXCEPT ![on[r]] = r]
ArticleFree(r) == articleLock[on[r]] = NoRequest
ProposalFree(r) == proposalLock[about[r]] = NoRequest

\* get_write_state, one SELECT.
ReadState(r, a) ==
    seen' = [seen EXCEPT ![r] = [version |-> article[a].version,
                                 published |-> article[a].published]]

-----------------------------------------------------------------------------
(* Creation and the review workflow                                        *)

Create(a, c) ==
    /\ a \notin used
    /\ used' = used \cup {a}
    /\ article' = [article EXCEPT ![a] = [status |-> "draft", version |-> 1, content |-> c,
                                          published |-> FALSE, slug |-> c["title"]]]
    /\ revisions' = [revisions EXCEPT ![a] = {[version |-> 1, content |-> c,
                                               from |-> NoProposal]}]
    /\ UNCHANGED <<proposal, locks, pc, locals>>

\* Mutant of AllowedFrom: the status is not asked for.
AllowedFromAnywhere(action) == Statuses
\* ARTICLE_TRANSITIONS
AllowedFrom(action) ==
    CASE action = "submit" -> {"draft"}
      [] action = "archive" -> {"draft", "in_review", "published"}
      [] action = "restore" -> {"archived"}
      [] OTHER -> {"in_review"}
Target(action) ==
    CASE action = "submit" -> "in_review"
      [] action = "publish" -> "published"
      [] action = "archive" -> "archived"
      [] OTHER -> "draft"

\* transition_status: the check and the write are one UPDATE.
Transition(a, action) ==
    /\ article[a].status \in AllowedFrom(action)
    /\ article' = [article EXCEPT
                     ![a].status = Target(action),
                     ![a].published = @ \/ Target(action) = "published"]
    /\ UNCHANGED <<revisions, proposal, used>>

\* submit, reject, archive, restore: no version is asked for.
Move(a, action) ==
    /\ Exists(a) /\ articleLock[a] = NoRequest
    /\ action # "publish"
    /\ Transition(a, action)
    /\ UNCHANGED <<locks, pc, locals>>

\* The founder reads the article, or one of its revisions, to publish it.
StartReview(r, a) ==
    /\ pc[r] = "idle" /\ Exists(a)
    /\ \E e \in revisions[a] :
        /\ onto' = [onto EXCEPT ![r] = e.version]
        /\ patch' = [patch EXCEPT ![r] = e.content]
    /\ on' = [on EXCEPT ![r] = a]
    /\ Goto(r, "review")
    /\ UNCHANGED <<rows, locks, about, seen>>

\* Mutant of StillAt: the version is not compared.
AnyVersion(r) == TRUE
\* publish goes through only if the article is still at the version reviewed.
StillAt(r) == article[on[r]].version = onto[r]

Publish(r) ==
    /\ pc[r] = "review" /\ ArticleFree(r)
    /\ IF Exists(on[r]) /\ article[on[r]].status \in AllowedFrom("publish") /\ StillAt(r)
       THEN Transition(on[r], "publish") /\ End(r)
       ELSE Fails(r)

-----------------------------------------------------------------------------
(* A new version: ArticleWriter.apply_changes                              *)

\* update_article; restore_revision sends every field of an old revision.  A
\* PATCH of no content field makes no version and is left out.
StartEdit(r, a, fields) ==
    /\ pc[r] = "idle" /\ Exists(a) /\ article[a].version < MaxVersion
    /\ fields \in Edits \cup {e.content : e \in revisions[a]}
    /\ on' = [on EXCEPT ![r] = a]
    /\ patch' = [patch EXCEPT ![r] = fields]
    /\ ReadState(r, a)
    /\ Goto(r, "edit")
    /\ UNCHANGED <<rows, locks, about, onto>>

\* The content UPDATE takes the row; a row that is gone fails the request.
UpdateFields(r) ==
    /\ pc[r] = "edit" /\ ArticleFree(r)
    /\ IF Exists(on[r])
       THEN HoldArticle(r) /\ Goto(r, "write") /\ UNCHANGED <<rows, proposalLock, locals>>
       ELSE Fails(r)

\* Mutant of NextVersion: one more than the version read before the lock.
NextVersionRead(r) == seen[r].version + 1
\* record_revision increments the row as it is under the lock.
NextVersion(r) == article[on[r]].version + 1

\* The content, a new slug for a new title, the version and its revision, and
\* the proposal it comes from, all at COMMIT.
CommitWrite(r) ==
    /\ pc[r] = "write"
    /\ LET a == on[r]
           c == Patched(article[a].content, patch[r])
           reslug == "title" \in DOMAIN patch[r] /\ ~seen[r].published
       IN /\ article' = [article EXCEPT
                           ![a].version = NextVersion(r),
                           ![a].content = c,
                           ![a].slug = IF reslug THEN c["title"] ELSE @]
          /\ revisions' = [revisions EXCEPT
                             ![a] = @ \cup {[version |-> NextVersion(r), content |-> c,
                                             from |-> about[r]]}]
    /\ proposal' = IF about[r] = NoProposal THEN proposal
                   ELSE [proposal EXCEPT ![about[r]].status = "accepted",
                                         ![about[r]].accepted = onto[r] + 1]
    /\ UNCHANGED used
    /\ End(r)

-----------------------------------------------------------------------------
(* Proposals                                                               *)

StartPropose(r, a, fields) ==
    /\ pc[r] = "idle" /\ Exists(a)
    /\ on' = [on EXCEPT ![r] = a]
    /\ onto' = [onto EXCEPT ![r] = article[a].version]
    /\ patch' = [patch EXCEPT ![r] = Patched(Revised(a, article[a].version), fields)]
    /\ Goto(r, "propose")
    /\ UNCHANGED <<rows, locks, about, seen>>

\* INSERT.  Its foreign key takes the article FOR KEY SHARE: it waits for a
\* delete or an accept.  (It passes an edit that keeps the slug; waiting for it
\* too changes no result, an edit has committed nothing before its end.)  It
\* fails if the article is gone (or this instance has no id left).
Propose(r) ==
    /\ pc[r] = "propose" /\ ArticleFree(r)
    /\ \/ /\ Exists(on[r])
          /\ \E p \in Proposals \ used :
              /\ used' = used \cup {p}
              /\ proposal' = [proposal EXCEPT
                                ![p] = [article |-> on[r], base |-> onto[r], accepted |-> 0,
                                        content |-> patch[r], status |-> "pending"]]
          /\ UNCHANGED <<article, revisions>>
          /\ End(r)
       \/ (~Exists(on[r]) \/ Proposals \subseteq used) /\ Fails(r)

\* accept reads the proposal ...
StartAccept(r, p) ==
    /\ pc[r] = "idle" /\ proposal[p] # NoProposal
    /\ article[proposal[p].article].version < MaxVersion
    /\ on' = [on EXCEPT ![r] = proposal[p].article]
    /\ about' = [about EXCEPT ![r] = p]
    /\ patch' = [patch EXCEPT ![r] = proposal[p].content]
    /\ onto' = [onto EXCEPT ![r] = proposal[p].base]
    /\ Goto(r, "read")
    /\ UNCHANGED <<rows, locks, seen>>

\* ... then the article, merging what it read if it was asked to rebase; ...
ReadForAccept(r) ==
    /\ pc[r] = "read"
    /\ LET a == on[r]
           v == article[a].version
           base == Revised(a, onto[r])
       IN \/ ~Exists(a) /\ Fails(r)
          \/ /\ Exists(a)
             /\ ReadState(r, a)
             /\ Goto(r, "close")
             /\ UNCHANGED <<patch, onto, rows, locks, on, about>>
          \/ /\ Exists(a) /\ v # onto[r]
             /\ CanMerge(base, Revised(a, v), patch[r])
             /\ ReadState(r, a)
             /\ patch' = [patch EXCEPT ![r] = Merged(base, Revised(a, v), patch[r])]
             /\ onto' = [onto EXCEPT ![r] = v]
             /\ Goto(r, "close")
             /\ UNCHANGED <<rows, locks, on, about>>

\* Mutant of StillPending: WHERE id = ... only.
StillThere(r) == proposal[about[r]] # NoProposal
\* close: UPDATE ... WHERE status = PENDING
StillPending(r) == Pending(about[r])

\* ... then closes the proposal, which holds it until the end, ...
CloseProposal(r) ==
    /\ pc[r] = "close" /\ ProposalFree(r)
    /\ IF StillPending(r)
       THEN /\ proposalLock' = [proposalLock EXCEPT ![about[r]] = r]
            /\ Goto(r, "lock")
            /\ UNCHANGED <<rows, articleLock, locals>>
       ELSE Fails(r)

\* ... and takes the article, if it is still at the version written on.
LockVersion(r) ==
    /\ pc[r] = "lock" /\ ArticleFree(r)
    /\ IF Exists(on[r]) /\ StillAt(r)
       THEN HoldArticle(r) /\ Goto(r, "write") /\ UNCHANGED <<rows, proposalLock, locals>>
       ELSE Fails(r)

\* _lock_changeable, the first statement of rebase and of replace.
LockChangeable(r, p, next) ==
    /\ pc[r] = "idle" /\ Pending(p) /\ proposalLock[p] = NoRequest
    /\ proposalLock' = [proposalLock EXCEPT ![p] = r]
    /\ on' = [on EXCEPT ![r] = proposal[p].article]
    /\ about' = [about EXCEPT ![r] = p]
    /\ Goto(r, next)
    /\ UNCHANGED <<rows, articleLock, seen>>

StartRebase(r, p) ==
    /\ LockChangeable(r, p, "merge")
    /\ patch' = [patch EXCEPT ![r] = proposal[p].content]
    /\ onto' = [onto EXCEPT ![r] = proposal[p].base]

\* base_version is what the client last saw of the article.
StartReplace(r, p, c) ==
    /\ LockChangeable(r, p, "check")
    /\ patch' = [patch EXCEPT ![r] = c]
    /\ \E v \in 1 .. article[proposal[p].article].version : onto' = [onto EXCEPT ![r] = v]

\* Merge onto the version it reads, without holding the article.
MergeOnto(r) ==
    /\ pc[r] = "merge"
    /\ LET v == article[on[r]].version
           base == Revised(on[r], onto[r])
           current == Revised(on[r], v)
       IN IF v # onto[r] /\ CanMerge(base, current, patch[r])
          THEN /\ patch' = [patch EXCEPT ![r] = Merged(base, current, patch[r])]
               /\ onto' = [onto EXCEPT ![r] = v]
               /\ Goto(r, "store")
               /\ UNCHANGED <<rows, locks, on, about, seen>>
          ELSE Fails(r)

CheckVersion(r) ==
    /\ pc[r] = "check"
    /\ IF StillAt(r) THEN Goto(r, "store") /\ UNCHANGED <<rows, locks, locals>>
                     ELSE Fails(r)

\* replace_content, then COMMIT.
StoreContent(r) ==
    /\ pc[r] = "store"
    /\ proposal' = [proposal EXCEPT ![about[r]].content = patch[r],
                                    ![about[r]].base = onto[r]]
    /\ UNCHANGED <<article, revisions, used>>
    /\ End(r)

\* reject and withdraw are one conditional UPDATE.
Decide(p, verdict) ==
    /\ Pending(p) /\ proposalLock[p] = NoRequest
    /\ proposal' = [proposal EXCEPT ![p].status = verdict]
    /\ UNCHANGED <<article, revisions, used, locks, pc, locals>>

-----------------------------------------------------------------------------
(* Deletion, and what may interrupt a request                              *)

\* DELETE takes the article's row, then by cascade each proposal's.
StartDelete(r, a) ==
    /\ pc[r] = "idle" /\ Exists(a) /\ articleLock[a] = NoRequest
    /\ articleLock' = [articleLock EXCEPT ![a] = r]
    /\ on' = [on EXCEPT ![r] = a]
    /\ Goto(r, "cascade")
    /\ UNCHANGED <<rows, proposalLock, about, seen, patch, onto>>

Cascade(r) ==
    /\ pc[r] = "cascade"
    /\ \E p \in ProposalsOf(on[r]) :
        /\ proposalLock[p] = NoRequest
        /\ proposalLock' = [proposalLock EXCEPT ![p] = r]
    /\ UNCHANGED <<rows, articleLock, pc, locals>>

CommitDelete(r) ==
    /\ pc[r] = "cascade"
    /\ \A p \in ProposalsOf(on[r]) : proposalLock[p] = r
    /\ article' = [article EXCEPT ![on[r]] = NoArticle]
    /\ revisions' = [revisions EXCEPT ![on[r]] = {}]
    /\ proposal' = [p \in Proposals |-> IF p \in ProposalsOf(on[r]) THEN NoProposal
                                        ELSE proposal[p]]
    /\ UNCHANGED used
    /\ End(r)

\* s holds a row that r is waiting for.
Blocks(s, r) ==
    \/ pc[r] \in {"edit", "lock", "review", "propose"} /\ articleLock[on[r]] = s
    \/ pc[r] = "close" /\ proposalLock[about[r]] = s
    \/ pc[r] = "cascade" /\ s # r /\ \E p \in ProposalsOf(on[r]) : proposalLock[p] = s

\* Postgres finds the cycle and aborts a transaction of it.  A request waits
\* for a row while holding another only between an accept and a delete, so
\* every cycle has two members.
DeadlockAbort(r) ==
    /\ \E s \in Requests : Blocks(s, r) /\ Blocks(r, s)
    /\ Fails(r)

\* The client goes away, the database refuses, or the worker dies.
Rollback(r) == pc[r] # "idle" /\ Fails(r)

\* 404: nothing happens.
NotFound(a) == ~Exists(a) /\ UNCHANGED vars

-----------------------------------------------------------------------------
Init ==
    /\ article = [a \in Ids |-> NoArticle]
    /\ revisions = [a \in Ids |-> {}]
    /\ proposal = [p \in Proposals |-> NoProposal]
    /\ used = {}
    /\ articleLock = [a \in Ids |-> NoRequest]
    /\ proposalLock = [p \in Proposals |-> NoRequest]
    /\ pc = [r \in Requests |-> "idle"]
    /\ on \in [Requests -> {CHOOSE a \in Ids : TRUE}]
    /\ about = [r \in Requests |-> NoProposal]
    /\ seen = [r \in Requests |-> [version |-> 0, published |-> FALSE]]
    /\ patch = [r \in Requests |-> <<>>]
    /\ onto = [r \in Requests |-> 0]

\* What a request in progress does next.
Proceed(r) ==
    \/ Publish(r) \/ UpdateFields(r) \/ CommitWrite(r) \/ Propose(r)
    \/ ReadForAccept(r) \/ CloseProposal(r) \/ LockVersion(r)
    \/ MergeOnto(r) \/ CheckVersion(r) \/ StoreContent(r)
    \/ Cascade(r) \/ CommitDelete(r)

Start(r) ==
    \/ \E a \in Ids : \/ StartReview(r, a) \/ StartDelete(r, a)
                      \/ \E fields \in Patches : StartEdit(r, a, fields)
                      \/ \E fields \in Edits : StartPropose(r, a, fields)
    \/ \E p \in Proposals : \/ StartAccept(r, p) \/ StartRebase(r, p)
                            \/ \E c \in Drafts : StartReplace(r, p, c)

Next ==
    \/ \E a \in Ids : \/ NotFound(a)
                      \/ \E c \in Drafts : Create(a, c)
                      \/ \E action \in Actions : Move(a, action)
    \/ \E p \in Proposals : \E verdict \in {"rejected", "withdrawn"} : Decide(p, verdict)
    \/ \E r \in Requests : Start(r) \/ Proceed(r) \/ DeadlockAbort(r) \/ Rollback(r)

Spec == Init /\ [][Next]_vars

\* Postgres serves the waiters of a row in turn, and looks for deadlocks.
FairSpec ==
    Spec /\ \A r \in Requests : SF_vars(Proceed(r)) /\ WF_vars(DeadlockAbort(r))

-----------------------------------------------------------------------------
(* Properties                                                              *)

TypeOK ==
    /\ article \in [Ids -> Article \cup {NoArticle}]
    /\ revisions \in [Ids -> SUBSET Revision]
    /\ proposal \in [Proposals -> Proposal \cup {NoProposal}]
    /\ used \subseteq Ids \cup Proposals
    /\ articleLock \in [Ids -> Requests \cup {NoRequest}]
    /\ proposalLock \in [Proposals -> Requests \cup {NoRequest}]
    /\ pc \in [Requests -> Points]
    /\ on \in [Requests -> Ids]
    /\ about \in [Requests -> Proposals \cup {NoProposal}]
    /\ seen \in [Requests -> [version : Nat, published : BOOLEAN]]
    /\ patch \in [Requests -> Patches]
    /\ onto \in [Requests -> Nat]

\* Every version of an article, from 1 to the current one, has exactly one
\* revision, the newest is what the article shows, and every proposal is based
\* on a version that is there to merge with.
HistoryComplete ==
    \A a \in Ids : Exists(a) =>
        /\ {e.version : e \in revisions[a]} = 1 .. article[a].version
        /\ \A e, f \in revisions[a] : e.version = f.version => e = f
        /\ \E e \in revisions[a] : e.version = article[a].version /\ e.content = article[a].content
        /\ \A p \in ProposalsOf(a) : proposal[p].base \in 1 .. article[a].version

\* A proposal is accepted exactly when one revision came from it, and that
\* revision is the version right after the one it was accepted onto: nothing
\* was written in between, and nobody else closed or accepted it.
AcceptedIsTheRevision ==
    \A p \in Proposals : proposal[p] # NoProposal =>
        LET made == {e \in revisions[proposal[p].article] : e.from = p}
        IN IF proposal[p].status = "accepted"
           THEN {e.version : e \in made} = {proposal[p].accepted}
           ELSE made = {}

\* What gets published is exactly what the founder read.
PublishedAsReviewed ==
    [][\A a \in Ids :
         /\ Exists(a) /\ Exists(a)'
         /\ article[a].status # "published" /\ article'[a].status = "published"
         => \E r \in Requests : /\ pc[r] = "review" /\ on[r] = a /\ pc'[r] = "idle"
                                /\ article'[a].content = patch[r]]_vars

-----------------------------------------------------------------------------
(* The inductive strengthening of the safety properties                    *)

\* A row belongs to one creation, and a proposal to an article that is there.
IdsOnce ==
    /\ \A a \in Ids : Exists(a) => a \in used
    /\ \A p \in Proposals : proposal[p] # NoProposal => p \in used /\ Exists(proposal[p].article)
    /\ \A a \in Ids : \A e \in revisions[a] : e.from # NoProposal => e.from \in used

\* A request that decides a proposal holds it.
Holds(r) ==
    \/ pc[r] \in {"lock", "merge", "check", "store"}
    \/ pc[r] = "write" /\ about[r] # NoProposal
HeldRows(r) ==
    /\ pc[r] \in {"write", "cascade"} => Exists(on[r]) /\ articleLock[on[r]] = r
    /\ Holds(r) => proposal[about[r]] # NoProposal /\ proposalLock[about[r]] = r

\* Which proposal a request is about, and that it stays the one of its article.
Subject(r) ==
    /\ pc[r] # "idle" => on[r] \in used
    /\ about[r] # NoProposal <=> Holds(r) \/ pc[r] \in {"read", "close"}
    /\ about[r] # NoProposal =>
         /\ about[r] \in used
         /\ proposal[about[r]] # NoProposal => proposal[about[r]].article = on[r]

\* What a request has read is a content or a version that its article has had.
ReadIsHistory(r) ==
    /\ pc[r] \in {"read", "merge", "check", "store", "propose"} => patch[r] \in Contents
    /\ pc[r] \in {"store", "propose"} /\ Exists(on[r]) =>
         onto[r] \in 1 .. article[on[r]].version
    /\ pc[r] = "review" /\ Exists(on[r]) =>
         \E e \in revisions[on[r]] : e.version = onto[r] /\ e.content = patch[r]

\* An accept writes a proposal that is open, right after the version it recorded.
AcceptIsDue(r) ==
    /\ pc[r] = "lock" => Pending(about[r])
    /\ pc[r] = "write" /\ about[r] # NoProposal =>
         Pending(about[r]) /\ onto[r] = article[on[r]].version

RequestInv(r) == HeldRows(r) /\ Subject(r) /\ ReadIsHistory(r) /\ AcceptIsDue(r)
IInv ==
    /\ TypeOK /\ HistoryComplete /\ AcceptedIsTheRevision /\ IdsOnce
    /\ \A r \in Requests : RequestInv(r)

-----------------------------------------------------------------------------
(* What the feature promises                                               *)

\* The abstract view: an append-only history, shown by its last content, and a
\* status of the review workflow.
HistoryOf(a) ==
    IF ~Exists(a) THEN <<>>
    ELSE [v \in 1 .. article[a].version |->
            IF v < article[a].version /\ \E e \in revisions[a] : e.version = v
            THEN Revised(a, v) ELSE article[a].content]
History == INSTANCE ArticleHistory WITH
    history <- [a \in Ids |-> HistoryOf(a)],
    status <- [a \in Ids |-> IF Exists(a) THEN article[a].status ELSE "absent"]

\* Articles implements ArticleHistory.
HistoryPromise == History!Promise

\* No request waits for ever: an accept and a delete of the same article take
\* the same two rows in opposite orders, and Postgres breaks the tie.
RequestsEnd == \A r \in Requests : pc[r] # "idle" ~> pc[r] = "idle"

\* article_proposal_model.py: the content snapshot a GM proposes "becomes a new
\* ArticleRevision" when it is accepted on its own base_version.
AcceptedAsProposed ==
    \A p \in Proposals :
        /\ proposal[p] # NoProposal
        /\ proposal[p].status = "accepted" /\ proposal[p].accepted = proposal[p].base + 1
        => Revised(proposal[p].article, proposal[p].accepted) = proposal[p].content
=============================================================================
