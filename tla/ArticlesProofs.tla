--------------------------- MODULE ArticlesProofs ---------------------------
(***************************************************************************)
(* Articles keeps its types, its history is complete, a proposal is        *)
(* accepted by exactly one revision, and what is published is what was     *)
(* reviewed: for every set of articles, proposals, requests and texts.     *)
(*                                                                         *)
(* The invariant IInv is shown action by action.  An action of one request *)
(* leaves the others Undisturbed, which keeps what IInv says of them; what *)
(* is left is the request itself and, where rows change, the rows.         *)
(***************************************************************************)
EXTENDS Articles, Sequences, TLAPS

(* Contents                                                                *)

\* A content is also an update of every field.
LEMMA WholeIsPatch == Contents \subseteq Patches
  BY DEF Contents, Patches

\* And one of none, which stands for nothing read yet.
LEMMA EmptyIsPatch == <<>> \in Patches
  <1>1. <<>> = [f \in {} |-> {}]
    OBVIOUS
  <1>2. <<>> \in [{} -> Texts]
    BY <1>1
  <1>3. {} \in SUBSET Fields
    OBVIOUS
  <1> QED
    BY <1>2, <1>3 DEF Patches

\* An UPDATE of some fields leaves a content.
LEMMA PatchedIsContent ==
  ASSUME NEW c \in Contents, NEW fields \in Patches
  PROVE  Patched(c, fields) \in Contents
  BY DEF Contents, Patches, Patched

\* So does a merge.
LEMMA MergedIsContent ==
  ASSUME NEW base, NEW c \in Contents, NEW d \in Contents
  PROVE  Merged(base, c, d) \in Contents
  BY DEF Contents, Merged

\* The newest revision of an article is a content.
LEMMA NewestIsContent ==
  ASSUME TypeOK, HistoryComplete, NEW a \in Ids, Exists(a)
  PROVE  /\ article[a] \in Article
         /\ Revised(a, article[a].version) = article[a].content
         /\ article[a].content \in Contents
         /\ article[a].version \in 1 .. article[a].version
  <1>1. article[a] \in Article /\ article[a].content \in Contents
    BY DEF TypeOK, Exists, Article
  <1>2. PICK e \in revisions[a] : e.version = article[a].version /\ e.content = article[a].content
    BY DEF HistoryComplete
  <1>3. Revised(a, article[a].version) = article[a].content
    <2> DEFINE newest == CHOOSE f \in revisions[a] : f.version = article[a].version
    <2>1. newest \in revisions[a] /\ newest.version = article[a].version
      BY <1>2
    <2> QED
      BY <1>2, <2>1 DEF Revised, HistoryComplete
  <1>4. article[a].version \in 1 .. article[a].version
    BY <1>2 DEF HistoryComplete
  <1> QED
    BY <1>1, <1>3, <1>4

-----------------------------------------------------------------------------
(* What other requests may rely on                                         *)

\* Its own progress, and what it has read, are its own.
Same(s) ==
    /\ pc'[s] = pc[s]
    /\ on'[s] = on[s] /\ about'[s] = about[s]
    /\ patch'[s] = patch[s] /\ onto'[s] = onto[s]
\* The rows it holds stay held and are not written by others.
HeldKept(s) ==
    /\ \A a \in Ids : articleLock[a] = s =>
         /\ articleLock'[a] = s
         /\ Exists(a) => Exists(a)' /\ article'[a].version = article[a].version
    /\ \A p \in Proposals : proposalLock[p] = s =>
         /\ proposalLock'[p] = s
         /\ proposal[p] # NoProposal => proposal'[p] = proposal[p]
\* A row that was given out is not made again; histories only grow.
RowsGrow ==
    /\ used \subseteq used'
    /\ \A a \in Ids : a \in used /\ Exists(a)' =>
         /\ Exists(a) /\ article[a].version <= article'[a].version
         /\ revisions[a] \subseteq revisions'[a]
    /\ \A p \in Proposals : p \in used /\ proposal'[p] # NoProposal =>
         proposal[p] # NoProposal /\ proposal'[p].article = proposal[p].article
Undisturbed(s) == Same(s) /\ HeldKept(s) /\ RowsGrow

LEMMA Others ==
  ASSUME TypeOK, TypeOK', NEW s \in Requests, RequestInv(s), Undisturbed(s)
  PROVE  RequestInv(s)'
  <1> USE DEF TypeOK, Undisturbed, Same, Exists, Holds, RequestInv
  <1>1. Holds(s)' <=> Holds(s)
    OBVIOUS
  <1>2. on[s] \in Ids /\ (about[s] # NoProposal => about[s] \in Proposals)
    OBVIOUS
  <1>3. HeldRows(s)'
    BY <1>2 DEF HeldRows, HeldKept, Subject
  <1>4. Subject(s)'
    BY <1>2 DEF Subject, RowsGrow
  <1>5. ReadIsHistory(s)'
    <2>1. pc[s] \in {"store", "propose"} /\ Exists(on[s])' => (onto[s] \in 1 .. article[on[s]].version)'
      BY <1>2 DEF ReadIsHistory, RowsGrow, Subject, Article
    <2>2. pc[s] = "review" /\ Exists(on[s])' =>
            \E e \in revisions'[on[s]] : e.version = onto[s] /\ e.content = patch[s]
      BY <1>2 DEF ReadIsHistory, RowsGrow, Subject
    <2> QED
      BY <2>1, <2>2 DEF ReadIsHistory
  <1>6. AcceptIsDue(s)'
    BY <1>2 DEF AcceptIsDue, Pending, HeldRows, HeldKept, Subject
  <1> QED
    BY <1>3, <1>4, <1>5, <1>6

\* A step that changes no row keeps what is said of the rows.
LEMMA SameRows ==
  ASSUME IInv, TypeOK', UNCHANGED rows
  PROVE  HistoryComplete' /\ AcceptedIsTheRevision' /\ IdsOnce'
  <1> USE DEF IInv, rows, Exists
  <1>1. HistoryComplete'
    BY DEF HistoryComplete, ProposalsOf, Revised
  <1>2. AcceptedIsTheRevision'
    BY DEF AcceptedIsTheRevision
  <1>3. IdsOnce'
    BY DEF IdsOnce
  <1> QED
    BY <1>1, <1>2, <1>3

\* Nor does it disturb another request, if it touches none of its rows' locks.
LEMMA OnlyOwn ==
  ASSUME IInv, TypeOK', UNCHANGED rows, NEW r \in Requests, RequestInv(r)',
         \A s \in Requests \ {r} :
             /\ Same(s)
             /\ \A a \in Ids : articleLock[a] = s => articleLock'[a] = s
             /\ \A p \in Proposals : proposalLock[p] = s => proposalLock'[p] = s
  PROVE  IInv'
  <1>1. \A s \in Requests \ {r} : Undisturbed(s)
    BY DEF IInv, TypeOK, Article, Undisturbed, HeldKept, RowsGrow, rows, Exists
  <1>2. \A s \in Requests \ {r} : RequestInv(s)'
    BY <1>1, Others DEF IInv
  <1> QED
    BY <1>2, SameRows DEF IInv

-----------------------------------------------------------------------------
(* The end of a request                                                    *)

\* A request that has ended holds nothing and claims nothing.
LEMMA EndedInv ==
  ASSUME TypeOK, NEW r \in Requests, End(r)
  PROVE  RequestInv(r)'
  BY DEF TypeOK, End, Goto, Release, Forget, RequestInv, HeldRows, Subject, ReadIsHistory,
         AcceptIsDue, Holds

\* Its end keeps the locals in type, and touches no other request.
LEMMA EndedLocals ==
  ASSUME TypeOK, NEW r \in Requests, End(r)
  PROVE  /\ articleLock' \in [Ids -> Requests \cup {NoRequest}]
         /\ proposalLock' \in [Proposals -> Requests \cup {NoRequest}]
         /\ pc' \in [Requests -> Points]
         /\ on' \in [Requests -> Ids]
         /\ about' \in [Requests -> Proposals \cup {NoProposal}]
         /\ seen' \in [Requests -> [version : Nat, published : BOOLEAN]]
         /\ patch' \in [Requests -> Patches]
         /\ onto' \in [Requests -> Nat]
         /\ \A s \in Requests \ {r} :
               /\ Same(s)
               /\ \A a \in Ids : articleLock[a] = s => articleLock'[a] = s
               /\ \A p \in Proposals : proposalLock[p] = s => proposalLock'[p] = s
  <1> USE DEF TypeOK, End, Goto, Release, Forget
  <1>1. on' \in [Requests -> Ids]
    <2>1. (CHOOSE a \in Ids : TRUE) \in Ids
      BY InputAssumption
    <2> QED
      BY <2>1
  <1>2. patch' \in [Requests -> Patches]
    <2>1. <<>> \in Patches
      BY EmptyIsPatch
    <2> QED
      BY <2>1
  <1>3. /\ pc' \in [Requests -> Points]
        /\ about' \in [Requests -> Proposals \cup {NoProposal}]
        /\ seen' \in [Requests -> [version : Nat, published : BOOLEAN]]
        /\ onto' \in [Requests -> Nat]
    BY DEF Points
  <1>4. /\ articleLock' \in [Ids -> Requests \cup {NoRequest}]
        /\ proposalLock' \in [Proposals -> Requests \cup {NoRequest}]
    OBVIOUS
  <1>5. \A s \in Requests \ {r} :
          /\ Same(s)
          /\ \A a \in Ids : articleLock[a] = s => articleLock'[a] = s
          /\ \A p \in Proposals : proposalLock[p] = s => proposalLock'[p] = s
    BY DEF Same
  <1> QED
    BY <1>1, <1>2, <1>3, <1>4, <1>5

\* A refusal or a rollback.
LEMMA FailsInv ==
  ASSUME IInv, NEW r \in Requests, Fails(r)
  PROVE  IInv'
  <1>1. TypeOK'
    BY EndedLocals DEF IInv, TypeOK, Fails, rows
  <1> QED
    BY <1>1, EndedLocals, EndedInv, OnlyOwn DEF IInv, Fails

-----------------------------------------------------------------------------
(* The start of a request                                                  *)

LEMMA IdleIsFree ==
  ASSUME IInv, NEW r \in Requests, pc[r] = "idle"
  PROVE  about[r] = NoProposal
  BY DEF IInv, RequestInv, Subject, Holds

\* Reads by a reviewer, an editor or a proposer, and the start of a delete.
LEMMA StartOnArticle ==
  ASSUME IInv, NEW r \in Requests, NEW a \in Ids,
         \/ StartReview(r, a)
         \/ StartDelete(r, a)
         \/ \E fields \in Patches : StartEdit(r, a, fields)
         \/ \E fields \in Edits : StartPropose(r, a, fields)
  PROVE  IInv'
  <1> USE DEF Goto, locks, rows
  <1>1. TypeOK /\ HistoryComplete /\ a \in used /\ pc[r] = "idle" /\ Exists(a)
    BY DEF IInv, IdsOnce, StartReview, StartDelete, StartEdit, StartPropose
  <1>2. /\ article[a] \in Article /\ article[a].version \in Nat
        /\ Revised(a, article[a].version) \in Contents
        /\ \A e \in revisions[a] : e \in Revision /\ e.content \in Patches /\ e.version \in Nat
    BY <1>1, NewestIsContent, WholeIsPatch DEF TypeOK, Article, Revision
  <1>3. about[r] = NoProposal
    BY <1>1, IdleIsFree
  <1>4. CASE StartReview(r, a)
    <2>1. TypeOK'
      BY <1>1, <1>2, <1>4 DEF StartReview, TypeOK, Points
    <2>2. RequestInv(r)'
      BY <1>1, <1>2, <1>3, <1>4
         DEF StartReview, TypeOK, RequestInv, HeldRows, Holds, Subject, ReadIsHistory, AcceptIsDue
    <2> QED
      BY <1>4, <2>1, <2>2, OnlyOwn DEF StartReview, IInv, TypeOK, Same
  <1>5. CASE StartDelete(r, a)
    <2>1. TypeOK'
      BY <1>1, <1>5 DEF StartDelete, TypeOK, Points
    <2>2. RequestInv(r)'
      BY <1>1, <1>3, <1>5
         DEF StartDelete, TypeOK, RequestInv, HeldRows, Holds, Subject, ReadIsHistory,
             AcceptIsDue, Exists
    <2> QED
      BY <1>1, <1>5, <2>1, <2>2, OnlyOwn, NullAssumption DEF StartDelete, TypeOK, Same
  <1>6. ASSUME NEW fields \in Patches, StartEdit(r, a, fields) PROVE IInv'
    <2>1. TypeOK'
      BY <1>1, <1>2, <1>6 DEF StartEdit, ReadState, TypeOK, Points, Article
    <2>2. RequestInv(r)'
      BY <1>1, <1>3, <1>6
         DEF StartEdit, TypeOK, RequestInv, HeldRows, Holds, Subject, ReadIsHistory, AcceptIsDue
    <2> QED
      BY <1>6, <2>1, <2>2, OnlyOwn, <1>1 DEF StartEdit, TypeOK, Same
  <1>7. ASSUME NEW fields \in Edits, StartPropose(r, a, fields) PROVE IInv'
    <2>1. Patched(Revised(a, article[a].version), fields) \in Contents
      BY <1>2, PatchedIsContent, InputAssumption
    <2>2. TypeOK'
      BY <1>1, <1>2, <1>7, <2>1, WholeIsPatch DEF StartPropose, TypeOK, Points
    <2>3. article[a].version \in 1 .. article[a].version
      BY <1>1, NewestIsContent
    <2>4. RequestInv(r)'
      BY <1>1, <1>3, <1>7, <2>1, <2>3
         DEF StartPropose, TypeOK, RequestInv, HeldRows, Holds, Subject, ReadIsHistory,
             AcceptIsDue, Exists
    <2> QED
      BY <1>1, <1>7, <2>2, <2>4, OnlyOwn DEF StartPropose, TypeOK, Same
  <1> QED
    BY <1>4, <1>5, <1>6, <1>7

\* The start of an accept, a rebase or a replace.
LEMMA StartOnProposal ==
  ASSUME IInv, NEW r \in Requests, NEW p \in Proposals,
         \/ StartAccept(r, p) \/ StartRebase(r, p)
         \/ \E c \in Drafts : StartReplace(r, p, c)
  PROVE  IInv'
  <1> USE DEF Goto, locks, rows
  <1>1. TypeOK /\ pc[r] = "idle" /\ p \in used /\ proposal[p] # NoProposal
    BY DEF IInv, IdsOnce, StartAccept, StartRebase, StartReplace, LockChangeable, Pending
  <1>2. /\ proposal[p] \in Proposal /\ proposal[p].article \in Ids /\ proposal[p].base \in Nat
        /\ proposal[p].content \in Contents /\ proposal[p].content \in Patches
        /\ proposal[p].article \in used /\ p # NoProposal
        /\ \A c \in Drafts : c \in Contents /\ c \in Patches
    BY <1>1, WholeIsPatch, NullAssumption, InputAssumption DEF TypeOK, Proposal, IInv, IdsOnce
  <1>3. article[proposal[p].article].version \in Nat
    BY <1>1, <1>2 DEF IInv, IdsOnce, TypeOK, Exists, Article
  <1>4. CASE StartAccept(r, p)
    <2>1. TypeOK'
      BY <1>1, <1>2, <1>4 DEF StartAccept, TypeOK, Points
    <2>2. RequestInv(r)'
      BY <1>1, <1>2, <1>4
         DEF StartAccept, TypeOK, RequestInv, HeldRows, Holds, Subject, ReadIsHistory, AcceptIsDue
    <2> QED
      BY <1>1, <1>4, <2>1, <2>2, OnlyOwn DEF StartAccept, TypeOK, Same
  <1>5. CASE StartRebase(r, p)
    <2> USE DEF StartRebase, LockChangeable
    <2>1. TypeOK'
      BY <1>1, <1>2, <1>5 DEF TypeOK, Points
    <2>2. RequestInv(r)'
      BY <1>1, <1>2, <1>5
         DEF TypeOK, RequestInv, HeldRows, Holds, Subject, ReadIsHistory, AcceptIsDue
    <2> QED
      BY <1>1, <1>5, <2>1, <2>2, OnlyOwn, NullAssumption DEF TypeOK, Same
  <1>6. ASSUME NEW c \in Drafts, StartReplace(r, p, c) PROVE IInv'
    <2> USE DEF StartReplace, LockChangeable
    <2>1. TypeOK'
      BY <1>1, <1>2, <1>3, <1>6 DEF TypeOK, Points
    <2>2. RequestInv(r)'
      BY <1>1, <1>2, <1>6
         DEF TypeOK, RequestInv, HeldRows, Holds, Subject, ReadIsHistory, AcceptIsDue
    <2> QED
      BY <1>1, <1>6, <2>1, <2>2, OnlyOwn, NullAssumption DEF TypeOK, Same
  <1> QED
    BY <1>4, <1>5, <1>6

-----------------------------------------------------------------------------
(* Steps that read or lock, and change no row                              *)

\* What is known of a request in progress.
LEMMA InProgress ==
  ASSUME IInv, NEW r \in Requests
  PROVE  /\ TypeOK /\ RequestInv(r)
         /\ on[r] \in Ids
         /\ Holds(r) \/ pc[r] \in {"read", "close"} =>
              about[r] \in Proposals /\ about[r] # NoProposal
         /\ \A a \in Ids : Exists(a) => article[a] \in Article /\ article[a].version \in Nat
         /\ \A p \in Proposals : proposal[p] # NoProposal =>
              proposal[p] \in Proposal /\ Exists(proposal[p].article)
  BY DEF IInv, TypeOK, RequestInv, Subject, Exists, Article, IdsOnce

LEMMA UpdateFieldsInv ==
  ASSUME IInv, NEW r \in Requests, UpdateFields(r)
  PROVE  IInv'
  <1> USE DEF UpdateFields, HoldArticle, ArticleFree, Goto, locals, rows
  <1>1. CASE ~Exists(on[r])
    BY <1>1, FailsInv
  <1>2. CASE Exists(on[r])
    <2>0. TypeOK
      BY InProgress
    <2>1. TypeOK'
      BY ZenonT(40), <1>2, <2>0 DEF TypeOK, Points
    <2>2. RequestInv(r)'
      BY <1>2, InProgress
         DEF TypeOK, RequestInv, HeldRows, Holds, Subject, ReadIsHistory, AcceptIsDue, Exists
    <2> QED
      BY <1>2, <2>1, <2>2, InProgress, OnlyOwn, NullAssumption DEF TypeOK, Same
  <1> QED
    BY <1>1, <1>2

LEMMA ReadForAcceptInv ==
  ASSUME IInv, NEW r \in Requests, ReadForAccept(r)
  PROVE  IInv'
  <1> USE DEF ReadForAccept, ReadState, Goto, locks, rows
  <1> DEFINE a == on[r]
             v == article[a].version
             merged == Merged(Revised(a, onto[r]), Revised(a, v), patch[r])
  <1>1. CASE Fails(r)
    BY <1>1, FailsInv
  <1>2. CASE ~Fails(r)
    <2>1. Exists(a) /\ Exists(a) = TRUE
      BY <1>2
    <2>2. patch[r] \in Contents
      BY InProgress DEF RequestInv, ReadIsHistory
    <2>3. Revised(a, v) \in Contents /\ article[a] \in Article
      BY <2>1, InProgress, NewestIsContent DEF IInv
    <2>4. merged \in Contents /\ merged \in Patches
      BY <2>2, <2>3, MergedIsContent, WholeIsPatch
    <2>5. /\ patch' = patch \/ patch' = [patch EXCEPT ![r] = merged]
          /\ onto' = onto \/ onto' = [onto EXCEPT ![r] = v]
          /\ seen' = [seen EXCEPT ![r] = [version |-> v, published |-> article[a].published]]
          /\ pc' = [pc EXCEPT ![r] = "close"]
          /\ UNCHANGED <<article, revisions, proposal, used, articleLock, proposalLock, on, about>>
      BY <1>2, <2>1
    <2> HIDE DEF merged, v
    <2>6. v \in Nat /\ article[a].published \in BOOLEAN
      BY <2>3 DEF Article, v
    <2>7. TypeOK'
      <3>1. TypeOK /\ r \in Requests
        BY InProgress
      <3>2. patch' \in [Requests -> Patches] /\ onto' \in [Requests -> Nat]
        BY ONLY <2>4, <2>5, <2>6, <3>1 DEF TypeOK
      <3>3. pc' \in [Requests -> Points] /\ seen' \in [Requests -> [version : Nat, published : BOOLEAN]]
        BY ONLY <2>5, <2>6, <3>1 DEF TypeOK, Points
      <3> QED
        BY ONLY <2>5, <3>1, <3>2, <3>3 DEF TypeOK
    <2>8. RequestInv(r)'
      BY <2>5, InProgress
         DEF TypeOK, RequestInv, HeldRows, Holds, Subject, ReadIsHistory, AcceptIsDue
    <2> QED
      BY <2>5, <2>7, <2>8, InProgress, OnlyOwn DEF TypeOK, Same
  <1> QED
    BY <1>1, <1>2

LEMMA CloseProposalInv ==
  ASSUME IInv, NEW r \in Requests, CloseProposal(r)
  PROVE  IInv'
  <1> USE DEF CloseProposal, ProposalFree, StillPending, Pending, Goto, locals, rows
  <1>1. CASE ~StillPending(r)
    BY <1>1, FailsInv
  <1>2. CASE StillPending(r)
    <2>0. /\ proposalLock' = [proposalLock EXCEPT ![about[r]] = r]
          /\ pc' = [pc EXCEPT ![r] = "lock"]
          /\ UNCHANGED <<article, revisions, proposal, used, articleLock, on, about, seen, patch, onto>>
      BY <1>2
    <2>1. TypeOK'
      <3>1. TypeOK /\ "lock" \in Points
        BY InProgress DEF Points
      <3>2. proposalLock' \in [Proposals -> Requests \cup {NoRequest}] /\ pc' \in [Requests -> Points]
        BY <2>0, <3>1 DEF TypeOK
      <3> QED
        BY <2>0, <3>1, <3>2 DEF TypeOK
    <2>2. RequestInv(r)'
      BY <1>2, InProgress
         DEF TypeOK, RequestInv, HeldRows, Holds, Subject, ReadIsHistory, AcceptIsDue
    <2> QED
      BY <1>2, <2>1, <2>2, InProgress, OnlyOwn, NullAssumption DEF TypeOK, Same
  <1> QED
    BY <1>1, <1>2

LEMMA LockVersionInv ==
  ASSUME IInv, NEW r \in Requests, LockVersion(r)
  PROVE  IInv'
  <1> USE DEF LockVersion, HoldArticle, ArticleFree, StillAt, Pending, Goto, locals, rows
  <1>1. CASE Fails(r)
    BY <1>1, FailsInv
  <1>2. CASE ~Fails(r)
    <2>0. /\ articleLock' = [articleLock EXCEPT ![on[r]] = r]
          /\ pc' = [pc EXCEPT ![r] = "write"]
          /\ UNCHANGED <<article, revisions, proposal, used, proposalLock, on, about, seen, patch, onto>>
      BY <1>2
    <2>1. TypeOK'
      <3>1. TypeOK /\ "write" \in Points
        BY InProgress DEF Points
      <3>2. articleLock' \in [Ids -> Requests \cup {NoRequest}] /\ pc' \in [Requests -> Points]
        BY <2>0, <3>1 DEF TypeOK
      <3> QED
        BY <2>0, <3>1, <3>2 DEF TypeOK
    <2>2. RequestInv(r)'
      BY <1>2, InProgress
         DEF TypeOK, RequestInv, HeldRows, Holds, Subject, ReadIsHistory, AcceptIsDue, Exists
    <2> QED
      BY SMTT(20), <1>2, <2>1, <2>2, InProgress, OnlyOwn, NullAssumption DEF TypeOK, Same
  <1> QED
    BY <1>1, <1>2

\* A held proposal keeps its article, so there is a version to merge with.
LEMMA MergeOntoInv ==
  ASSUME IInv, NEW r \in Requests, MergeOnto(r)
  PROVE  IInv'
  <1> USE DEF MergeOnto, Goto, locks, rows
  <1> DEFINE a == on[r]
             v == article[a].version
             merged == Merged(Revised(a, onto[r]), Revised(a, v), patch[r])
  <1>1. CASE Fails(r)
    BY <1>1, FailsInv
  <1>2. CASE ~Fails(r)
    <2>1. Exists(a) /\ patch[r] \in Contents
      BY InProgress DEF RequestInv, HeldRows, Holds, Subject, ReadIsHistory
    <2>2. Revised(a, v) \in Contents /\ v \in 1 .. v /\ v \in Nat
      BY <2>1, InProgress, NewestIsContent DEF IInv
    <2>3. merged \in Contents /\ merged \in Patches
      BY <2>1, <2>2, MergedIsContent, WholeIsPatch
    <2>4. /\ patch' = [patch EXCEPT ![r] = merged]
          /\ onto' = [onto EXCEPT ![r] = v]
          /\ pc' = [pc EXCEPT ![r] = "store"]
          /\ UNCHANGED <<article, revisions, proposal, used, articleLock, proposalLock, on, about, seen>>
      BY <1>2
    <2> HIDE DEF merged
    <2>5. TypeOK'
      BY <2>2, <2>3, <2>4, InProgress DEF TypeOK, Points
    <2>6. RequestInv(r)'
      BY <2>2, <2>3, <2>4, InProgress
         DEF TypeOK, RequestInv, HeldRows, Holds, Subject, ReadIsHistory, AcceptIsDue, Exists
    <2> QED
      BY <2>4, <2>5, <2>6, InProgress, OnlyOwn DEF TypeOK, Same
  <1> QED
    BY <1>1, <1>2

LEMMA CheckVersionInv ==
  ASSUME IInv, NEW r \in Requests, CheckVersion(r)
  PROVE  IInv'
  <1> USE DEF CheckVersion, StillAt, Goto, locks, locals, rows
  <1>1. CASE ~StillAt(r)
    BY <1>1, FailsInv
  <1>2. CASE StillAt(r)
    <2>1. Exists(on[r])
      BY InProgress DEF RequestInv, HeldRows, Holds, Subject
    <2>2. onto[r] \in 1 .. article[on[r]].version
      BY <1>2, <2>1, InProgress, NewestIsContent DEF IInv
    <2>3. TypeOK'
      BY <1>2, InProgress DEF TypeOK, Points
    <2>4. RequestInv(r)'
      BY <1>2, <2>2, InProgress
         DEF TypeOK, RequestInv, HeldRows, Holds, Subject, ReadIsHistory, AcceptIsDue, Exists
    <2> QED
      BY <1>2, <2>3, <2>4, InProgress, OnlyOwn DEF TypeOK, Same
  <1> QED
    BY <1>1, <1>2

LEMMA CascadeInv ==
  ASSUME IInv, NEW r \in Requests, Cascade(r)
  PROVE  IInv'
  <1> USE DEF Cascade, ProposalsOf, locals, rows
  <1>1. TypeOK'
    BY InProgress DEF TypeOK
  <1>2. RequestInv(r)'
    BY InProgress
       DEF TypeOK, RequestInv, HeldRows, Holds, Subject, ReadIsHistory, AcceptIsDue, Exists
  <1> QED
    BY <1>1, <1>2, InProgress, OnlyOwn, NullAssumption DEF TypeOK, Same

-----------------------------------------------------------------------------
(* Steps that write rows                                                   *)

\* A status change: who wrote what is not touched.
LEMMA TransitionRows ==
  ASSUME IInv, NEW a \in Ids, Exists(a), articleLock[a] = NoRequest,
         NEW action \in Actions, Transition(a, action)
  PROVE  /\ article' \in [Ids -> Article \cup {NoArticle}]
         /\ \A b \in Ids :
              /\ Exists(b)' <=> Exists(b)
              /\ Exists(b) => /\ article'[b].version = article[b].version
                              /\ article'[b].content = article[b].content
         /\ UNCHANGED <<revisions, proposal, used>>
  <1>1. article[a] \in Article /\ Target(action) \in Statuses
    BY DEF IInv, TypeOK, Exists, Target, Statuses
  <1>2. /\ article' = [article EXCEPT ![a] = [article[a] EXCEPT
                          !.status = Target(action),
                          !.published = @ \/ Target(action) = "published"]]
        /\ UNCHANGED <<revisions, proposal, used>>
    BY DEF Transition
  <1>3. article'[a] \in Article /\ article'[a].version = article[a].version
        /\ article'[a].content = article[a].content
    BY <1>1, <1>2 DEF IInv, TypeOK, Article
  <1> QED
    BY <1>2, <1>3, NullAssumption DEF IInv, TypeOK, Exists

\* Then the rows are as complete as before.
LEMMA TransitionInv ==
  ASSUME IInv, TypeOK', UNCHANGED <<revisions, proposal, used>>,
         \A b \in Ids :
           /\ Exists(b)' <=> Exists(b)
           /\ Exists(b) => /\ article'[b].version = article[b].version
                           /\ article'[b].content = article[b].content
  PROVE  HistoryComplete' /\ AcceptedIsTheRevision' /\ IdsOnce' /\ RowsGrow
  <1> USE DEF IInv
  <1>1. HistoryComplete'
    BY DEF HistoryComplete, ProposalsOf
  <1>2. AcceptedIsTheRevision'
    BY DEF AcceptedIsTheRevision
  <1>3. IdsOnce'
    BY DEF IdsOnce, TypeOK, Proposal
  <1>4. RowsGrow
    BY DEF RowsGrow, TypeOK, Article, Exists
  <1> QED
    BY <1>1, <1>2, <1>3, <1>4

LEMMA MoveInv ==
  ASSUME IInv, NEW a \in Ids, NEW action \in Actions, Move(a, action)
  PROVE  IInv'
  <1> USE DEF Move, locks, locals
  <1>1. /\ article' \in [Ids -> Article \cup {NoArticle}]
        /\ \A b \in Ids :
             /\ Exists(b)' <=> Exists(b)
             /\ Exists(b) => /\ article'[b].version = article[b].version
                             /\ article'[b].content = article[b].content
        /\ UNCHANGED <<revisions, proposal, used>>
    BY TransitionRows
  <1>2. TypeOK'
    BY <1>1 DEF IInv, TypeOK
  <1>3. HistoryComplete' /\ AcceptedIsTheRevision' /\ IdsOnce' /\ RowsGrow
    BY <1>1, <1>2, TransitionInv
  <1>4. \A s \in Requests : Undisturbed(s)
    BY <1>1, <1>3 DEF Undisturbed, Same, HeldKept
  <1>5. \A s \in Requests : RequestInv(s)'
    BY <1>2, <1>4, Others DEF IInv
  <1> QED
    BY <1>2, <1>3, <1>5 DEF IInv

LEMMA PublishInv ==
  ASSUME IInv, NEW r \in Requests, Publish(r)
  PROVE  IInv'
  <1>1. CASE Fails(r)
    BY <1>1, FailsInv
  <1>2. CASE ~Fails(r)
    <2>1. Exists(on[r]) /\ articleLock[on[r]] = NoRequest /\ Transition(on[r], "publish") /\ End(r)
      BY <1>2 DEF Publish, ArticleFree
    <2>2. /\ article' \in [Ids -> Article \cup {NoArticle}]
          /\ \A b \in Ids :
               /\ Exists(b)' <=> Exists(b)
               /\ Exists(b) => /\ article'[b].version = article[b].version
                               /\ article'[b].content = article[b].content
          /\ UNCHANGED <<revisions, proposal, used>>
      <3>1. "publish" \in Actions
        BY DEF Actions
      <3> QED
        BY <2>1, <3>1, InProgress, TransitionRows
    <2>3. TypeOK'
      BY <2>1, <2>2, EndedLocals DEF IInv, TypeOK
    <2>4. HistoryComplete' /\ AcceptedIsTheRevision' /\ IdsOnce' /\ RowsGrow
      BY <2>2, <2>3, TransitionInv
    <2>5. \A s \in Requests \ {r} : Undisturbed(s)
      BY <2>1, <2>2, <2>4, EndedLocals DEF IInv, Undisturbed, HeldKept
    <2>6. \A s \in Requests \ {r} : RequestInv(s)'
      BY <2>3, <2>5, Others DEF IInv
    <2> QED
      BY <2>1, <2>3, <2>4, <2>6, EndedInv DEF IInv
  <1> QED
    BY <1>1, <1>2

LEMMA CreateInv ==
  ASSUME IInv, NEW a \in Ids, NEW c \in Drafts, Create(a, c)
  PROVE  IInv'
  <1> DEFINE made == [status |-> "draft", version |-> 1, content |-> c, published |-> FALSE,
                      slug |-> c["title"]]
             first == [version |-> 1, content |-> c, from |-> NoProposal]
  <1>1. /\ a \notin used /\ used' = used \cup {a}
        /\ article' = [article EXCEPT ![a] = made]
        /\ revisions' = [revisions EXCEPT ![a] = {first}]
        /\ UNCHANGED <<proposal, articleLock, proposalLock, pc, on, about, seen, patch, onto>>
    BY DEF Create, locks, locals
  <1>2. made \in Article /\ first \in Revision /\ made # NoArticle
    <2>1. c \in Contents /\ c["title"] \in Texts
      BY InputAssumption DEF Contents, Fields
    <2>2. made \in Article
      BY <2>1 DEF Article, Statuses
    <2> QED
      BY <2>1, <2>2, NullAssumption DEF Revision
  <1>3. TypeOK'
    BY <1>1, <1>2 DEF IInv, TypeOK
  <1>4. ~Exists(a) /\ ProposalsOf(a) = {}
    BY <1>1 DEF IInv, IdsOnce, ProposalsOf
  <1>5. \A b \in Ids : b # a => article'[b] = article[b] /\ revisions'[b] = revisions[b]
    BY <1>1 DEF IInv, TypeOK
  <1>6. article'[a] = made /\ revisions'[a] = {first}
    BY <1>1 DEF IInv, TypeOK
  <1>7. made.version = 1 /\ made.content = c /\ first.version = 1 /\ first.content = c
        /\ first.from = NoProposal
    OBVIOUS
  <1> HIDE DEF made, first
  <1>8. HistoryComplete'
    <2>1. ASSUME NEW b \in Ids, b # a, Exists(b)'
          PROVE  /\ {e.version : e \in revisions'[b]} = 1 .. article'[b].version
                 /\ \A e, f \in revisions'[b] : e.version = f.version => e = f
                 /\ \E e \in revisions'[b] : e.version = article'[b].version
                                             /\ e.content = article'[b].content
                 /\ \A p \in ProposalsOf(b)' : proposal'[p].base \in 1 .. article'[b].version
      BY <2>1, <1>1, <1>5 DEF IInv, HistoryComplete, Exists, ProposalsOf
    <2>2. /\ {e.version : e \in revisions'[a]} = 1 .. article'[a].version
          /\ \A e, f \in revisions'[a] : e.version = f.version => e = f
          /\ \E e \in revisions'[a] : e.version = article'[a].version
                                      /\ e.content = article'[a].content
      BY <1>6, <1>7
    <2>3. ProposalsOf(a)' = {}
      BY <1>1, <1>4 DEF ProposalsOf
    <2> QED
      BY <2>1, <2>2, <2>3 DEF HistoryComplete
  <1>9. AcceptedIsTheRevision'
    <2>1. \A p \in Proposals : proposal[p] # NoProposal =>
            revisions'[proposal[p].article] = revisions[proposal[p].article]
      BY <1>4, <1>5 DEF IInv, TypeOK, Proposal, ProposalsOf
    <2> QED
      BY <1>1, <2>1 DEF IInv, AcceptedIsTheRevision
  <1>10. IdsOnce'
    BY <1>1, <1>2, <1>5, <1>6, <1>7 DEF IInv, TypeOK, Proposal, IdsOnce, Exists
  <1>11. RowsGrow
    BY <1>1, <1>5 DEF IInv, TypeOK, Article, RowsGrow, Exists
  <1>12. \A s \in Requests : Undisturbed(s)
    BY <1>1, <1>4, <1>5, <1>11 DEF Undisturbed, Same, HeldKept, Exists
  <1>13. \A s \in Requests : RequestInv(s)'
    BY <1>3, <1>12, Others DEF IInv
  <1> QED
    BY <1>3, <1>8, <1>9, <1>10, <1>13 DEF IInv


\* reject and withdraw decide an open proposal that nobody holds.
LEMMA DecideInv ==
  ASSUME IInv, NEW p \in Proposals, NEW verdict \in {"rejected", "withdrawn"}, Decide(p, verdict)
  PROVE  IInv'
  <1> USE DEF Decide, Pending, locks, locals
  <1>1. proposal[p] \in Proposal /\ proposal[p] # NoProposal
    BY DEF IInv, TypeOK
  <1>2. /\ proposal'[p] \in Proposal /\ proposal'[p] # NoProposal
        /\ proposal'[p].article = proposal[p].article /\ proposal'[p].base = proposal[p].base
        /\ proposal'[p].status = verdict
        /\ \A q \in Proposals : q # p => proposal'[q] = proposal[q]
        /\ proposal' \in [Proposals -> Proposal \cup {NoProposal}]
    BY <1>1, NullAssumption DEF IInv, TypeOK, Proposal
  <1>3. TypeOK'
    BY <1>2 DEF IInv, TypeOK
  <1>4. HistoryComplete'
    BY <1>1, <1>2 DEF IInv, HistoryComplete, ProposalsOf, Exists
  <1>5. AcceptedIsTheRevision'
    BY <1>1, <1>2 DEF IInv, AcceptedIsTheRevision
  <1>6. IdsOnce'
    BY <1>1, <1>2 DEF IInv, IdsOnce, Exists
  <1>7. RowsGrow
    BY <1>1, <1>2 DEF IInv, TypeOK, Article, RowsGrow, Exists
  <1>8. \A s \in Requests : Undisturbed(s)
    BY <1>2, <1>7, NullAssumption DEF Undisturbed, Same, HeldKept, Exists
  <1>9. \A s \in Requests : RequestInv(s)'
    BY <1>3, <1>8, Others DEF IInv
  <1> QED
    BY <1>3, <1>4, <1>5, <1>6, <1>9 DEF IInv

\* A new content and base, under the lock: the version it is based on exists.
LEMMA StoreContentInv ==
  ASSUME IInv, NEW r \in Requests, StoreContent(r)
  PROVE  IInv'
  <1> DEFINE p == about[r]
  <1>1. /\ proposal' = [proposal EXCEPT ![p].content = patch[r], ![p].base = onto[r]]
        /\ UNCHANGED <<article, revisions, used>> /\ End(r) /\ pc[r] = "store"
    BY DEF StoreContent
  <1>2. /\ p \in Proposals /\ proposal[p] \in Proposal /\ proposal[p] # NoProposal
        /\ proposalLock[p] = r /\ proposal[p].article = on[r] /\ Exists(on[r])
        /\ patch[r] \in Contents /\ onto[r] \in 1 .. article[on[r]].version /\ onto[r] \in Nat
    BY <1>1, InProgress DEF TypeOK, RequestInv, HeldRows, Holds, Subject, ReadIsHistory
  <1>3. /\ proposal'[p] \in Proposal /\ proposal'[p] # NoProposal
        /\ proposal'[p].article = proposal[p].article /\ proposal'[p].base = onto[r]
        /\ proposal'[p].status = proposal[p].status
        /\ proposal'[p].accepted = proposal[p].accepted
        /\ \A q \in Proposals : q # p => proposal'[q] = proposal[q]
        /\ proposal' \in [Proposals -> Proposal \cup {NoProposal}]
    BY <1>1, <1>2, NullAssumption DEF IInv, TypeOK, Proposal
  <1> HIDE DEF p
  <1>4. TypeOK'
    BY <1>1, <1>3, EndedLocals DEF IInv, TypeOK
  <1>5. HistoryComplete'
    BY <1>1, <1>2, <1>3 DEF IInv, HistoryComplete, ProposalsOf, Exists
  <1>6. AcceptedIsTheRevision'
    BY SMTT(20), <1>1, <1>2, <1>3 DEF IInv, AcceptedIsTheRevision
  <1>7. IdsOnce'
    BY <1>1, <1>2, <1>3 DEF IInv, IdsOnce, Exists
  <1>8. RowsGrow
    BY <1>1, <1>2, <1>3 DEF IInv, TypeOK, Article, RowsGrow, Exists
  <1>9. \A s \in Requests \ {r} : Undisturbed(s)
    BY <1>1, <1>2, <1>3, <1>8, EndedLocals DEF IInv, Undisturbed, HeldKept, Exists
  <1>10. \A s \in Requests \ {r} : RequestInv(s)'
    BY <1>4, <1>9, Others DEF IInv
  <1> QED
    BY <1>1, <1>4, <1>5, <1>6, <1>7, <1>10, EndedInv DEF IInv

\* The version a proposer has read still exists.
LEMMA ProposeInv ==
  ASSUME IInv, NEW r \in Requests, Propose(r)
  PROVE  IInv'
  <1>1. CASE Fails(r)
    BY <1>1, FailsInv
  <1>2. CASE ~Fails(r)
    <2>1. PICK p \in Proposals \ used :
            /\ used' = used \cup {p}
            /\ proposal' = [proposal EXCEPT
                              ![p] = [article |-> on[r], base |-> onto[r], accepted |-> 0,
                                      content |-> patch[r], status |-> "pending"]]
      BY <1>2 DEF Propose
    <2>2. Exists(on[r]) /\ UNCHANGED <<article, revisions>> /\ End(r) /\ pc[r] = "propose"
      BY <1>2 DEF Propose
    <2>3. proposal[p] = NoProposal
      BY <2>1 DEF IInv, IdsOnce
    <2>4. patch[r] \in Contents /\ onto[r] \in 1 .. article[on[r]].version /\ onto[r] \in Nat
          /\ on[r] \in Ids
      BY <2>2, InProgress DEF TypeOK, RequestInv, ReadIsHistory
    <2>5. /\ proposal'[p] \in Proposal /\ proposal'[p] # NoProposal
          /\ proposal'[p].article = on[r] /\ proposal'[p].base = onto[r]
          /\ proposal'[p].status = "pending"
          /\ \A q \in Proposals : q # p => proposal'[q] = proposal[q]
          /\ proposal' \in [Proposals -> Proposal \cup {NoProposal}]
      BY <2>1, <2>4, NullAssumption DEF IInv, TypeOK, Proposal
    <2>6. TypeOK'
      BY <2>1, <2>2, <2>5, EndedLocals DEF IInv, TypeOK
    <2>7. HistoryComplete'
      BY <2>2, <2>4, <2>5 DEF IInv, HistoryComplete, ProposalsOf, Exists
    <2>8. AcceptedIsTheRevision'
      <3>1. \A e \in revisions[on[r]] : e.from # p
        BY <2>1, <2>4, NullAssumption DEF IInv, IdsOnce
      <3> QED
        BY <2>2, <2>5, <3>1 DEF IInv, AcceptedIsTheRevision
    <2>9. IdsOnce'
      BY <2>1, <2>2, <2>5 DEF IInv, IdsOnce, Exists
    <2>10. RowsGrow
      BY <2>1, <2>2, <2>3, <2>5 DEF IInv, TypeOK, Article, RowsGrow, Exists
    <2>11. \A s \in Requests \ {r} : Undisturbed(s)
      BY <2>1, <2>2, <2>3, <2>5, <2>10, EndedLocals DEF IInv, Undisturbed, HeldKept, Exists
    <2>12. \A s \in Requests \ {r} : RequestInv(s)'
      BY <2>6, <2>11, Others DEF IInv
    <2> QED
      BY <2>2, <2>6, <2>7, <2>8, <2>9, <2>12, EndedInv DEF IInv
  <1> QED
    BY <1>1, <1>2


\* The article goes with its revisions and its proposals, all of them held.
LEMMA CommitDeleteInv ==
  ASSUME IInv, NEW r \in Requests, CommitDelete(r)
  PROVE  IInv'
  <1>0. PICK a \in Ids : a = on[r]
    BY InProgress
  <1>1. /\ pc[r] = "cascade" /\ End(r) /\ used' = used
        /\ \A p \in ProposalsOf(a) : proposalLock[p] = r
        /\ article' = [article EXCEPT ![a] = NoArticle]
        /\ revisions' = [revisions EXCEPT ![a] = {}]
        /\ proposal' = [p \in Proposals |-> IF p \in ProposalsOf(a) THEN NoProposal
                                            ELSE proposal[p]]
    BY <1>0 DEF CommitDelete
  <1>2. Exists(a) /\ articleLock[a] = r
    BY <1>0, <1>1, InProgress DEF RequestInv, HeldRows
  <1>3. /\ ~Exists(a)' /\ revisions'[a] = {}
        /\ \A b \in Ids : b # a => article'[b] = article[b] /\ revisions'[b] = revisions[b]
        /\ \A p \in Proposals :
             /\ proposal[p] # NoProposal /\ proposal[p].article = a => proposal'[p] = NoProposal
             /\ proposal[p] = NoProposal \/ proposal[p].article # a => proposal'[p] = proposal[p]
    BY <1>1, <1>2 DEF IInv, TypeOK, Exists, ProposalsOf
  <1>4. TypeOK'
    BY <1>1, <1>2, EndedLocals DEF IInv, TypeOK
  <1>5. HistoryComplete'
    BY <1>3 DEF IInv, HistoryComplete, ProposalsOf, Exists
  <1>6. AcceptedIsTheRevision'
    <2>1. \A p \in Proposals : proposal'[p] # NoProposal =>
            /\ proposal[p] # NoProposal /\ proposal'[p] = proposal[p]
            /\ revisions'[proposal'[p].article] = revisions[proposal[p].article]
      BY <1>3 DEF IInv, TypeOK, Proposal
    <2> QED
      BY <2>1 DEF IInv, AcceptedIsTheRevision
  <1>7. IdsOnce'
    BY <1>1, <1>3 DEF IInv, TypeOK, Proposal, IdsOnce, Exists
  <1>8. RowsGrow
    BY <1>1, <1>3 DEF IInv, TypeOK, Article, RowsGrow, Exists
  <1>9. \A s \in Requests \ {r} : Undisturbed(s)
    BY <1>1, <1>2, <1>3, <1>8, EndedLocals DEF IInv, Undisturbed, HeldKept, Exists, ProposalsOf
  <1>10. \A s \in Requests \ {r} : RequestInv(s)'
    BY <1>4, <1>9, Others DEF IInv
  <1> QED
    BY <1>1, <1>4, <1>5, <1>6, <1>7, <1>10, EndedInv DEF IInv

\* What a write does to its article and to the revisions.
CommittedOn(r, a, c, v) ==
    /\ a = on[r] /\ v = article[a].version
    /\ Exists(a) /\ articleLock[a] = r /\ article[a] \in Article
    /\ article' \in [Ids -> Article \cup {NoArticle}] /\ article'[a] \in Article
    /\ article'[a].status = article[a].status
    /\ article'[a].version = v + 1 /\ article'[a].content = c
    /\ revisions'[a] = revisions[a] \cup {[version |-> v + 1, content |-> c, from |-> about[r]]}
    /\ \A b \in Ids : b # a => article'[b] = article[b] /\ revisions'[b] = revisions[b]

LEMMA CommitWriteRows ==
  ASSUME IInv, NEW r \in Requests, CommitWrite(r)
  PROVE  \E a \in Ids, c \in Contents, v \in Nat : CommittedOn(r, a, c, v)
  <1> DEFINE a == on[r]
             c == Patched(article[a].content, patch[r])
             v == article[a].version
             slug == IF "title" \in DOMAIN patch[r] /\ ~seen[r].published
                     THEN c["title"] ELSE article[a].slug
  <1>1. /\ a \in Ids /\ Exists(a) /\ articleLock[a] = r
        /\ article[a] \in Article /\ patch[r] \in Patches /\ v \in Nat
    BY InProgress DEF CommitWrite, RequestInv, HeldRows, TypeOK
  <1>2. c \in Contents
    BY <1>1, PatchedIsContent DEF Article
  <1>3. slug \in Texts
    <2>1. c["title"] \in Texts /\ article[a].slug \in Texts
      BY <1>1, <1>2 DEF Article, Contents, Fields
    <2> QED
      BY <2>1
  <1>4. /\ article' = [article EXCEPT ![a] = [article[a] EXCEPT
                         !.version = v + 1, !.content = c, !.slug = slug]]
        /\ revisions' = [revisions EXCEPT
                           ![a] = @ \cup {[version |-> v + 1, content |-> c, from |-> about[r]]}]
    BY DEF CommitWrite, NextVersion
  <1>5. article \in [Ids -> Article \cup {NoArticle}] /\ revisions \in [Ids -> SUBSET Revision]
    BY DEF IInv, TypeOK
  <1> HIDE DEF a, c, v, slug
  <1>6. article'[a] = [article[a] EXCEPT !.version = v + 1, !.content = c, !.slug = slug]
    BY <1>1, <1>4, <1>5
  <1>7. article'[a] = [status |-> article[a].status, version |-> v + 1,
                       published |-> article[a].published, slug |-> slug, content |-> c]
    BY <1>1, <1>6 DEF Article
  <1>8. /\ article'[a] \in Article /\ article'[a].status = article[a].status
        /\ article'[a].version = v + 1 /\ article'[a].content = c
    BY ONLY <1>1, <1>2, <1>3, <1>7 DEF Article
  <1>9. a = on[r] /\ v = article[a].version
    BY DEF a, v
  <1>10. CommittedOn(r, a, c, v)
    BY <1>1, <1>4, <1>5, <1>8, <1>9 DEF CommittedOn
  <1> QED
    BY <1>1, <1>2, <1>10

\* The one step that makes a version: the next one, under the article's lock.
LEMMA CommitWriteInv ==
  ASSUME IInv, NEW r \in Requests, CommitWrite(r)
  PROVE  IInv'
  <1>0. PICK a \in Ids, c \in Contents, v \in Nat : CommittedOn(r, a, c, v)
    BY CommitWriteRows
  <1>1. PICK q \in Proposals \cup {NoProposal} :
          /\ q = about[r] /\ pc[r] = "write" /\ End(r) /\ used' = used
          /\ proposal' = IF q = NoProposal THEN proposal
                         ELSE [proposal EXCEPT ![q].status = "accepted",
                                               ![q].accepted = onto[r] + 1]
    BY InProgress DEF CommitWrite, TypeOK
  <1>2. Exists(a) /\ articleLock[a] = r /\ article[a] \in Article /\ article[a].version = v
    BY <1>0 DEF CommittedOn
  <1> DEFINE new == [version |-> v + 1, content |-> c, from |-> q]
  <1>4. new \in Revision /\ new.version = v + 1 /\ new.content = c /\ new.from = q
    BY DEF Revision
  <1>5. q # NoProposal =>
          /\ q \in Proposals /\ q \in used /\ proposal[q] \in Proposal /\ proposal[q] # NoProposal
          /\ proposal[q].article = a /\ proposal[q].status = "pending" /\ proposalLock[q] = r
          /\ onto[r] = v
    BY <1>0, <1>1, InProgress
       DEF CommittedOn, RequestInv, HeldRows, Holds, Subject, AcceptIsDue, Pending, TypeOK
  <1>6. /\ article' \in [Ids -> Article \cup {NoArticle}]
        /\ article'[a] \in Article /\ Exists(a)'
        /\ article'[a].version = v + 1 /\ article'[a].content = c
        /\ revisions'[a] = revisions[a] \cup {new}
        /\ \A b \in Ids : b # a => article'[b] = article[b] /\ revisions'[b] = revisions[b]
    BY <1>0, <1>1, NullAssumption DEF CommittedOn, Exists
  <1> HIDE DEF new
  <1>7. /\ \A p \in Proposals : p # q => proposal'[p] = proposal[p]
        /\ q # NoProposal =>
             /\ proposal'[q] \in Proposal /\ proposal'[q] # NoProposal
             /\ proposal'[q].article = a /\ proposal'[q].base = proposal[q].base
             /\ proposal'[q].status = "accepted" /\ proposal'[q].accepted = v + 1
        /\ proposal' \in [Proposals -> Proposal \cup {NoProposal}]
    <2>1. proposal \in [Proposals -> Proposal \cup {NoProposal}]
      BY DEF IInv, TypeOK
    <2>2. CASE q = NoProposal
      BY <1>1, <2>1, <2>2
    <2>3. CASE q # NoProposal
      <3>1. proposal'[q] = [article |-> a, base |-> proposal[q].base,
                            content |-> proposal[q].content, accepted |-> v + 1,
                            status |-> "accepted"]
        BY <1>1, <1>5, <2>1, <2>3 DEF Proposal
      <3>2. /\ proposal'[q] \in Proposal /\ proposal'[q].article = a
            /\ proposal'[q].base = proposal[q].base
            /\ proposal'[q].status = "accepted" /\ proposal'[q].accepted = v + 1
        BY <1>5, <2>3, <3>1 DEF Proposal
      <3>3. /\ \A p \in Proposals : p # q => proposal'[p] = proposal[p]
            /\ proposal' \in [Proposals -> Proposal \cup {NoProposal}]
        BY <1>1, <1>5, <2>1, <2>3, <3>2
      <3> QED
        BY <3>2, <3>3, NullAssumption
    <2> QED
      BY <2>2, <2>3
  <1>8. TypeOK'
    <2>1. revisions' \in [Ids -> SUBSET Revision]
      <3>1. \E to : revisions' = [revisions EXCEPT ![a] = to]
        BY <1>0 DEF CommitWrite, CommittedOn
      <3> QED
        BY <1>4, <1>6, <3>1 DEF IInv, TypeOK
    <2> QED
      BY <1>1, <1>6, <1>7, <2>1, EndedLocals DEF IInv, TypeOK
  <1>9. HistoryComplete'
    <2>1. ASSUME NEW b \in Ids, b # a, Exists(b)'
          PROVE  /\ {e.version : e \in revisions'[b]} = 1 .. article'[b].version
                 /\ \A e, f \in revisions'[b] : e.version = f.version => e = f
                 /\ \E e \in revisions'[b] : e.version = article'[b].version
                                             /\ e.content = article'[b].content
                 /\ \A p \in ProposalsOf(b)' : proposal'[p].base \in 1 .. article'[b].version
      <3>1. \A p \in ProposalsOf(b)' : p \in ProposalsOf(b) /\ proposal'[p] = proposal[p]
        BY <1>5, <1>7, <2>1, NullAssumption DEF ProposalsOf
      <3> QED
        BY <1>6, <2>1, <3>1 DEF IInv, HistoryComplete, Exists
    <2>2. {e.version : e \in revisions[a]} = 1 .. v
      BY <1>2 DEF IInv, HistoryComplete
    <2>3. {e.version : e \in revisions'[a]} = 1 .. v + 1
      BY <1>2, <1>4, <1>6, <2>2
    <2>4. \A e, f \in revisions'[a] : e.version = f.version => e = f
      <3>1. \A e \in revisions[a] : e.version # v + 1
        BY <1>2, <2>2
      <3> QED
        BY <1>2, <1>4, <1>6, <3>1 DEF IInv, HistoryComplete
    <2>5. \E e \in revisions'[a] : e.version = article'[a].version /\ e.content = article'[a].content
      BY <1>4, <1>6
    <2>6. \A p \in ProposalsOf(a)' : proposal'[p].base \in 1 .. article'[a].version
      <3>1. \A p \in ProposalsOf(a) : proposal[p].base \in 1 .. v
        BY <1>2 DEF IInv, HistoryComplete
      <3>2. \A p \in ProposalsOf(a)' : p \in ProposalsOf(a) /\ proposal'[p].base = proposal[p].base
        BY <1>5, <1>7, NullAssumption DEF ProposalsOf
      <3> QED
        BY <1>2, <1>6, <3>1, <3>2
    <2> QED
      BY <1>6, <2>1, <2>3, <2>4, <2>5, <2>6 DEF HistoryComplete
  <1>10. AcceptedIsTheRevision'
    <2>1. ASSUME NEW p \in Proposals, p # q, proposal[p] # NoProposal
          PROVE  {e \in revisions'[proposal[p].article] : e.from = p}
                   = {e \in revisions[proposal[p].article] : e.from = p}
      BY <1>4, <1>6, <2>1 DEF IInv, TypeOK, Proposal
    <2>2. ASSUME q # NoProposal
          PROVE  {e.version : e \in {f \in revisions'[a] : f.from = q}} = {v + 1}
      <3>1. {e \in revisions[a] : e.from = q} = {}
        BY <1>5, <2>2 DEF IInv, AcceptedIsTheRevision
      <3>2. {e \in revisions'[a] : e.from = q} = {new}
        BY <1>4, <1>6, <3>1
      <3> QED
        BY <1>4, <3>2
    <2> QED
      <3>1. ASSUME NEW p \in Proposals, p # q, proposal'[p] # NoProposal
            PROVE  LET made == {e \in revisions'[proposal'[p].article] : e.from = p}
                   IN IF proposal'[p].status = "accepted"
                      THEN {e.version : e \in made} = {proposal'[p].accepted}
                      ELSE made = {}
        BY <1>7, <2>1, <3>1 DEF IInv, AcceptedIsTheRevision
      <3>2. q # NoProposal =>
              {e.version : e \in {f \in revisions'[proposal'[q].article] : f.from = q}}
                = {proposal'[q].accepted}
        BY <1>7, <2>2
      <3>3. \A p \in Proposals : p = q => q # NoProposal
        BY NullAssumption
      <3> QED
        BY <1>7, <3>1, <3>2, <3>3 DEF AcceptedIsTheRevision
  <1>11. IdsOnce'
    <2>1. \A b \in Ids : Exists(b)' <=> Exists(b)
      BY <1>2, <1>6 DEF Exists
    <2>2. \A p \in Proposals : proposal'[p] # NoProposal =>
            proposal[p] # NoProposal /\ proposal'[p].article = proposal[p].article
      BY <1>5, <1>7, NullAssumption
    <2>3. \A b \in Ids : \A e \in revisions'[b] : e \in revisions[b] \/ e.from = q
      BY <1>4, <1>6
    <2>4. \A p \in Proposals : proposal[p] # NoProposal => proposal[p].article \in Ids
      BY DEF IInv, TypeOK, Proposal
    <2> QED
      BY <1>1, <1>5, <2>1, <2>2, <2>3, <2>4 DEF IInv, IdsOnce
  <1>12. RowsGrow
    BY <1>1, <1>2, <1>5, <1>6, <1>7 DEF IInv, TypeOK, Article, RowsGrow, Exists
  <1>13. \A s \in Requests \ {r} : Undisturbed(s)
    <2>1. TypeOK
      BY DEF IInv
    <2>2. ASSUME NEW s \in Requests \ {r} PROVE HeldKept(s)
      <3>1. \A b \in Ids : articleLock[b] = s => b # a /\ article'[b] = article[b]
        BY <1>2, <1>6
      <3>2. \A p \in Proposals : proposalLock[p] = s => p # q /\ proposal'[p] = proposal[p]
        BY <1>5, <1>7, NullAssumption
      <3> QED
        BY <1>1, <2>1, <3>1, <3>2, EndedLocals DEF HeldKept, Exists
    <2> QED
      BY <1>1, <1>12, <2>1, <2>2, EndedLocals DEF Undisturbed
  <1>14. \A s \in Requests \ {r} : RequestInv(s)'
    BY <1>8, <1>13, Others DEF IInv
  <1> QED
    BY <1>1, <1>8, <1>9, <1>10, <1>11, <1>14, EndedInv DEF IInv


-----------------------------------------------------------------------------
(* The invariant, and what follows from it                                 *)

LEMMA InitInv == Init => IInv
  <1> SUFFICES ASSUME Init PROVE IInv
    OBVIOUS
  <1> USE DEF Init
  <1>1. (CHOOSE a \in Ids : TRUE) \in Ids
    BY InputAssumption
  <1>2. <<>> \in Patches
    BY EmptyIsPatch
  <1>3. TypeOK
    BY <1>1, <1>2 DEF TypeOK, Points
  <1>4. HistoryComplete /\ AcceptedIsTheRevision /\ IdsOnce
    BY DEF HistoryComplete, AcceptedIsTheRevision, IdsOnce, Exists
  <1>5. \A r \in Requests : RequestInv(r)
    BY DEF RequestInv, HeldRows, Holds, Subject, ReadIsHistory, AcceptIsDue
  <1> QED
    BY <1>3, <1>4, <1>5 DEF IInv

LEMMA StutterInv == IInv /\ UNCHANGED vars => IInv'
  <1> SUFFICES ASSUME IInv, UNCHANGED vars PROVE IInv'
    OBVIOUS
  <1> USE DEF vars, rows, locks, locals
  <1>1. TypeOK'
    BY DEF IInv, TypeOK
  <1>2. HistoryComplete' /\ AcceptedIsTheRevision' /\ IdsOnce'
    BY <1>1, SameRows
  <1>3. \A s \in Requests : Undisturbed(s)
    BY DEF IInv, TypeOK, Article, Undisturbed, Same, HeldKept, RowsGrow, Exists
  <1>4. \A s \in Requests : RequestInv(s)'
    BY <1>1, <1>3, Others DEF IInv
  <1> QED
    BY <1>1, <1>2, <1>4 DEF IInv

LEMMA NextInv == IInv /\ [Next]_vars => IInv'
  <1> SUFFICES ASSUME IInv, [Next]_vars PROVE IInv'
    OBVIOUS
  <1>1. ASSUME NEW a \in Ids, NotFound(a) PROVE IInv'
    BY <1>1, StutterInv DEF NotFound
  <1>2. ASSUME NEW a \in Ids, NEW c \in Drafts, Create(a, c) PROVE IInv'
    BY <1>2, CreateInv
  <1>3. ASSUME NEW a \in Ids, NEW action \in Actions, Move(a, action) PROVE IInv'
    BY <1>3, MoveInv
  <1>4. ASSUME NEW p \in Proposals, NEW verdict \in {"rejected", "withdrawn"}, Decide(p, verdict)
        PROVE  IInv'
    BY <1>4, DecideInv
  <1>5. ASSUME NEW r \in Requests, Start(r) PROVE IInv'
    BY <1>5, StartOnArticle, StartOnProposal DEF Start
  <1>6. ASSUME NEW r \in Requests, Proceed(r) PROVE IInv'
    BY <1>6, PublishInv, UpdateFieldsInv, CommitWriteInv, ProposeInv, ReadForAcceptInv,
       CloseProposalInv, LockVersionInv, MergeOntoInv, CheckVersionInv, StoreContentInv,
       CascadeInv, CommitDeleteInv
       DEF Proceed
  <1>7. ASSUME NEW r \in Requests, DeadlockAbort(r) \/ Rollback(r) PROVE IInv'
    BY <1>7, FailsInv DEF DeadlockAbort, Rollback
  <1> QED
    BY <1>1, <1>2, <1>3, <1>4, <1>5, <1>6, <1>7, StutterInv DEF Next

LEMMA Invariant == Spec => []IInv
  BY InitInv, NextInv, PTL DEF Spec

\* Whatever requests do at once, the rows and the locals of requests keep their types.
THEOREM Typing == Spec => []TypeOK
  <1>1. IInv => TypeOK
    BY DEF IInv
  <1> QED
    BY <1>1, Invariant, PTL

\* Edits, accepts and restores that race leave versions 1 to the current one, one
\* revision each, and the article shows the last: record_revision under the row lock.
THEOREM HistoryIsComplete == Spec => []HistoryComplete
  <1>1. IInv => HistoryComplete
    BY DEF IInv
  <1> QED
    BY <1>1, Invariant, PTL

\* Accept, rebase, replace, reject, withdraw and delete may race: a proposal is
\* accepted exactly when one revision came from it, at the version it recorded.
THEOREM OneRevisionPerAccept == Spec => []AcceptedIsTheRevision
  <1>1. IInv => AcceptedIsTheRevision
    BY DEF IInv
  <1> QED
    BY <1>1, Invariant, PTL


-----------------------------------------------------------------------------
(* Publication                                                             *)

\* The only step that makes an article public is the publish of its reviewer.
LEMMA OnlyPublish ==
  ASSUME IInv, Next, NEW a \in Ids, Exists(a), Exists(a)',
         article[a].status # "published", article'[a].status = "published"
  PROVE  \E r \in Requests : Publish(r) /\ ~Fails(r) /\ on[r] = a
  <1> USE DEF Exists
  <1>1. article' # article
    OBVIOUS
  <1>2. ASSUME NEW b \in Ids, NEW c \in Drafts, Create(b, c) PROVE FALSE
    BY <1>2 DEF Create, IInv, TypeOK
  <1>3. ASSUME NEW b \in Ids, NEW action \in Actions, Move(b, action) PROVE FALSE
    <2>1. Target(action) # "published" /\ b \in Ids
      BY <1>3 DEF Move, Target, Actions
    <2>2. article[b] \in Article /\ article \in [Ids -> Article \cup {NoArticle}]
      BY <1>3 DEF Move, IInv, TypeOK
    <2>3. article'[b].status = Target(action) /\ \A d \in Ids : d # b => article'[d] = article[d]
      BY <1>3, <2>2 DEF Move, Transition, Article
    <2> QED
      BY <2>1, <2>3
  <1>4. ASSUME NEW r \in Requests, CommitWrite(r) PROVE FALSE
    <2>1. on[r] \in Ids /\ article \in [Ids -> Article \cup {NoArticle}] /\ article[on[r]] \in Article
      BY <1>4, InProgress DEF CommitWrite, RequestInv, HeldRows, TypeOK
    <2>2. article'[on[r]].status = article[on[r]].status
          /\ \A d \in Ids : d # on[r] => article'[d] = article[d]
      BY <1>4, <2>1 DEF CommitWrite, Article
    <2> QED
      BY <2>2
  <1>5. ASSUME NEW r \in Requests, CommitDelete(r) PROVE FALSE
    BY <1>5, InProgress DEF CommitDelete, TypeOK
  <1>6. ASSUME NEW r \in Requests, Publish(r) PROVE ~Fails(r) /\ on[r] = a
    <2>1. ~Fails(r)
      BY <1>1 DEF Fails, rows
    <2>2. on[r] \in Ids /\ Transition(on[r], "publish")
      BY <1>6, <2>1, InProgress DEF Publish
    <2> QED
      BY <2>1, <2>2 DEF Transition, IInv, TypeOK
  <1>7. ASSUME NEW r \in Requests, Start(r) PROVE FALSE
    BY <1>1, <1>7
       DEF Start, StartReview, StartDelete, StartEdit, StartPropose, StartAccept, StartRebase,
           StartReplace, LockChangeable, rows
  <1>8. ASSUME NEW r \in Requests, Proceed(r) PROVE Publish(r)
    BY <1>1, <1>4, <1>5, <1>8
       DEF Proceed, UpdateFields, Propose, ReadForAccept, CloseProposal, LockVersion, MergeOnto,
           CheckVersion, StoreContent, Cascade, Fails, rows
  <1>9. ASSUME NEW r \in Requests, DeadlockAbort(r) \/ Rollback(r) PROVE FALSE
    BY <1>1, <1>9 DEF DeadlockAbort, Rollback, Fails, rows
  <1>10. ASSUME NEW b \in Ids, NotFound(b) PROVE FALSE
    BY <1>1, <1>10 DEF NotFound, vars, rows
  <1>11. ASSUME NEW p \in Proposals, NEW verdict \in {"rejected", "withdrawn"}, Decide(p, verdict)
         PROVE  FALSE
    BY <1>1, <1>11 DEF Decide
  <1> QED
    BY <1>2, <1>3, <1>6, <1>7, <1>8, <1>9, <1>10, <1>11 DEF Next

\* What becomes public is the content its reviewer read, whoever edits, accepts
\* or restores in between: transition_status compares the version.
THEOREM ReviewedIsPublished == Spec => PublishedAsReviewed
  <1> DEFINE Reviewed ==
        \A a \in Ids :
          /\ Exists(a) /\ Exists(a)'
          /\ article[a].status # "published" /\ article'[a].status = "published"
          => \E r \in Requests : /\ pc[r] = "review" /\ on[r] = a /\ pc'[r] = "idle"
                                 /\ article'[a].content = patch[r]
  <1>1. IInv /\ [Next]_vars => [Reviewed]_vars
    <2> SUFFICES ASSUME IInv, Next, NEW a \in Ids, Exists(a), Exists(a)',
                        article[a].status # "published", article'[a].status = "published"
                 PROVE  \E r \in Requests : /\ pc[r] = "review" /\ on[r] = a /\ pc'[r] = "idle"
                                            /\ article'[a].content = patch[r]
      OBVIOUS
    <2>1. PICK r \in Requests : Publish(r) /\ ~Fails(r) /\ on[r] = a
      BY OnlyPublish
    <2>2. /\ pc[r] = "review" /\ articleLock[a] = NoRequest /\ article[a].version = onto[r]
          /\ Transition(a, "publish") /\ End(r)
      BY <2>1 DEF Publish, ArticleFree, StillAt
    <2>3. article'[a].content = article[a].content
      <3>1. "publish" \in Actions
        BY DEF Actions
      <3> QED
        BY <2>2, <3>1, TransitionRows
    <2>4. PICK e \in revisions[a] : e.version = onto[r] /\ e.content = patch[r]
      BY <2>1, <2>2, InProgress DEF RequestInv, ReadIsHistory
    <2>5. article[a].content = patch[r]
      BY <2>2, <2>4 DEF IInv, HistoryComplete
    <2>6. pc'[r] = "idle"
      BY <2>2 DEF End, Goto, IInv, TypeOK
    <2> QED
      BY <2>1, <2>2, <2>3, <2>5, <2>6
  <1> QED
    BY <1>1, Invariant, PTL DEF Spec, PublishedAsReviewed

-----------------------------------------------------------------------------
(* Articles implements ArticleHistory: every step of the rows is a step of *)
(* the history that ArticleHistory allows, or none.                        *)

\* The status of an article in the abstract view.
StatusOf(a) == IF Exists(a) THEN article[a].status ELSE "absent"

\* With a complete history, the abstract one is just the revisions in order.
LEMMA HistoryIsRevisions ==
  ASSUME IInv, NEW a \in Ids, Exists(a)
  PROVE  /\ article[a].version \in Nat
         /\ HistoryOf(a) = [v \in 1 .. article[a].version |-> Revised(a, v)]
         /\ \A v \in 1 .. article[a].version : Revised(a, v) \in Contents
         /\ HistoryOf(a) \in Seq(Contents)
         /\ Len(HistoryOf(a)) = article[a].version
  <1>1. TypeOK /\ HistoryComplete
    BY DEF IInv
  <1>2. /\ article[a].version \in Nat
        /\ Revised(a, article[a].version) = article[a].content
    BY <1>1, NewestIsContent DEF Article
  <1>3. \A v \in 1 .. article[a].version : \E e \in revisions[a] : e.version = v
    BY <1>1 DEF HistoryComplete
  <1>4. \A v \in 1 .. article[a].version : Revised(a, v) \in Contents
    BY <1>1, <1>3 DEF Revised, TypeOK, Revision
  <1>5. HistoryOf(a) = [v \in 1 .. article[a].version |-> Revised(a, v)]
    <2>1. \A v \in 1 .. article[a].version : ~(v < article[a].version) => v = article[a].version
      BY <1>2
    <2> QED
      BY <1>2, <1>3, <2>1 DEF HistoryOf
  <1> QED
    BY <1>2, <1>4, <1>5

\* Revisions that stay are read as before.
LEMMA RevisedStays ==
  ASSUME NEW a \in Ids, NEW v, revisions[a] \subseteq revisions'[a],
         \E e \in revisions[a] : e.version = v,
         \A e, f \in revisions'[a] : e.version = f.version => e = f
  PROVE  Revised(a, v)' = Revised(a, v)
  <1>1. PICK e \in revisions[a] : e.version = v
    OBVIOUS
  <1>2. (CHOOSE f \in revisions[a] : f.version = v) = e
    BY <1>1
  <1>3. (CHOOSE f \in revisions'[a] : f.version = v) = e
    BY <1>1
  <1> QED
    BY <1>2, <1>3 DEF Revised

\* A step that leaves version, content and revisions of an article leaves its history.
LEMMA SameHistory ==
  ASSUME NEW a \in Ids, revisions'[a] = revisions[a], Exists(a)' <=> Exists(a),
         Exists(a) => /\ article'[a].version = article[a].version
                      /\ article'[a].content = article[a].content
  PROVE  HistoryOf(a)' = HistoryOf(a)
  BY DEF HistoryOf, Revised, Exists

\* A status changes: the abstract article moves along the workflow.
LEMMA TransitionMoves ==
  ASSUME IInv, NEW a \in Ids, Exists(a), articleLock[a] = NoRequest,
         NEW action \in Actions, Transition(a, action)
  PROVE  History!Move(a)
  <1>1. /\ \A b \in Ids : /\ Exists(b)' <=> Exists(b)
                          /\ Exists(b) => /\ article'[b].version = article[b].version
                                          /\ article'[b].content = article[b].content
        /\ revisions' = revisions
    BY TransitionRows
  <1>2. \A b \in Ids : HistoryOf(b)' = HistoryOf(b)
    BY <1>1, SameHistory
  <1>3. article[a] \in Article /\ article \in [Ids -> Article \cup {NoArticle}]
    BY DEF IInv, TypeOK, Exists
  <1>4. /\ article'[a].status = Target(action)
        /\ \A b \in Ids : b # a => article'[b] = article[b]
    BY <1>3 DEF Transition, Article
  <1>5. /\ StatusOf(a) = article[a].status /\ StatusOf(a)' = Target(action)
        /\ \A b \in Ids : b # a => StatusOf(b)' = StatusOf(b)
    BY <1>1, <1>4 DEF StatusOf, Exists
  <1>6. <<article[a].status, Target(action)>> \in History!Moves
    BY DEF Transition, AllowedFrom, Target, Actions, History!Moves
  <1>7. \E move \in History!Moves : StatusOf(a) = move[1] /\ StatusOf(a)' = move[2]
    BY <1>5, <1>6
  <1>8. [b \in Ids |-> HistoryOf(b)]' = [b \in Ids |-> HistoryOf(b)]
    BY <1>2
  <1> QED
    BY <1>5, <1>7, <1>8 DEF History!Move, StatusOf

\* A creation makes a history of one content.
LEMMA CreateAppears ==
  ASSUME IInv, IInv', NEW a \in Ids, NEW c \in Drafts, Create(a, c)
  PROVE  History!Appear(a, c) /\ HistoryOf(a)' # HistoryOf(a)
  <1>1. c \in Contents /\ ~Exists(a)
    BY InputAssumption DEF Create, IInv, IdsOnce
  <1>2. /\ \A b \in Ids : b # a => article'[b] = article[b] /\ revisions'[b] = revisions[b]
        /\ article'[a].status = "draft" /\ article'[a].version = 1 /\ article'[a].content = c
    BY DEF Create, IInv, TypeOK
  <1>3. Exists(a)'
    <2> DEFINE made == [status |-> "draft", version |-> 1, content |-> c, published |-> FALSE,
                        slug |-> c["title"]]
    <2>1. c["title"] \in Texts
      BY <1>1 DEF Contents, Fields
    <2>2. made \in Article
      BY <1>1, <2>1 DEF Article, Statuses
    <2>3. article'[a] = made
      BY DEF Create, IInv, TypeOK
    <2> QED
      BY <2>2, <2>3, NullAssumption DEF Exists
  <1>4. \A b \in Ids : b # a => /\ HistoryOf(b)' = HistoryOf(b)
                                /\ StatusOf(b)' = StatusOf(b)
    BY <1>2, SameHistory DEF Exists, StatusOf
  <1>5. HistoryOf(a)' = <<c>>
    <2>1. HistoryOf(a)' = [v \in 1 .. 1 |-> c]
      BY <1>2, <1>3 DEF HistoryOf
    <2> QED
      BY <2>1
  <1>6. StatusOf(a) = "absent" /\ StatusOf(a)' = "draft"
    BY <1>1, <1>2, <1>3 DEF StatusOf
  <1>7. History!Appear(a, c)
    BY <1>4, <1>5, <1>6 DEF History!Appear, StatusOf
  <1>8. HistoryOf(a) = <<>>
    BY <1>1 DEF HistoryOf
  <1> QED
    BY <1>5, <1>7, <1>8

\* A committed write appends its content, and leaves what was there before.
LEMMA CommitAppends ==
  ASSUME IInv, IInv', NEW r \in Requests, CommitWrite(r)
  PROVE  \E a \in Ids, c \in Contents : History!Write(a, c) /\ HistoryOf(a)' # HistoryOf(a)
  <1>0. PICK a \in Ids, c \in Contents, v \in Nat : CommittedOn(r, a, c, v)
    BY CommitWriteRows
  <1>1. a = on[r] /\ Exists(a) /\ article[a] \in Article /\ article[a].version = v
    BY <1>0 DEF CommittedOn
  <1>2. /\ \A b \in Ids : b # a => article'[b] = article[b] /\ revisions'[b] = revisions[b]
        /\ article'[a].status = article[a].status
        /\ article'[a].version = v + 1 /\ article'[a].content = c
        /\ revisions[a] \subseteq revisions'[a]
    BY <1>0 DEF CommittedOn
  <1>3. Exists(a)'
    BY <1>0, NullAssumption DEF CommittedOn, Exists
  <1>4. \A b \in Ids : b # a => /\ HistoryOf(b)' = HistoryOf(b)
                                /\ StatusOf(b)' = StatusOf(b)
    BY <1>2, SameHistory DEF Exists, StatusOf
  <1>5. HistoryOf(a)' = Append(HistoryOf(a), c)
    <2>1. HistoryOf(a) = [i \in 1 .. v |-> Revised(a, i)] /\ HistoryOf(a) \in Seq(Contents)
          /\ Len(HistoryOf(a)) = v
      BY <1>1, HistoryIsRevisions
    <2>2. HistoryOf(a)' = [i \in 1 .. v + 1 |-> IF i < v + 1 THEN Revised(a, i)' ELSE c]
      <3>1. \A i \in 1 .. v : \E e \in revisions'[a] : e.version = i
        BY <1>1, <1>2 DEF IInv, HistoryComplete
      <3> QED
        BY <1>2, <1>3, <3>1 DEF HistoryOf
    <2>3. \A i \in 1 .. v : Revised(a, i)' = Revised(a, i)
      <3>1. \A i \in 1 .. v : \E e \in revisions[a] : e.version = i
        <4>1. {e.version : e \in revisions[a]} = 1 .. v
          BY <1>1 DEF IInv, HistoryComplete
        <4> QED
          BY <4>1
      <3>2. \A e, f \in revisions'[a] : e.version = f.version => e = f
        BY <1>3 DEF IInv, HistoryComplete
      <3> QED
        BY <1>2, <3>1, <3>2, RevisedStays
    <2>4. Append(HistoryOf(a), c) = [i \in 1 .. v + 1 |-> IF i < v + 1 THEN Revised(a, i) ELSE c]
      BY <2>1
    <2> QED
      BY <2>2, <2>3, <2>4
  <1>6. StatusOf(a) # "absent" /\ StatusOf(a)' = StatusOf(a)
    BY <1>1, <1>2, <1>3 DEF StatusOf, Article, Statuses
  <1>7. [b \in Ids |-> StatusOf(b)]' = [b \in Ids |-> StatusOf(b)]
    BY <1>4, <1>6
  <1>8. [b \in Ids |-> HistoryOf(b)]'
          = [[b \in Ids |-> HistoryOf(b)] EXCEPT ![a] = Append(@, c)]
    BY <1>4, <1>5
  <1>9. History!Write(a, c)
    BY <1>6, <1>7, <1>8 DEF History!Write, StatusOf
  <1>10. HistoryOf(a)' # HistoryOf(a)
    <2>1. HistoryOf(a) \in Seq(Contents)
      BY <1>1, HistoryIsRevisions
    <2>2. Len(Append(HistoryOf(a), c)) = Len(HistoryOf(a)) + 1 /\ Len(HistoryOf(a)) \in Nat
      BY <2>1
    <2> QED
      BY <1>5, <2>2
  <1> QED
    BY <1>9, <1>10

\* A deletion takes the history with it.
LEMMA DeleteVanishes ==
  ASSUME IInv, NEW r \in Requests, CommitDelete(r)
  PROVE  \E a \in Ids : History!Vanish(a)
  <1>0. PICK a \in Ids : a = on[r] /\ Exists(a)
    BY InProgress DEF CommitDelete, RequestInv, HeldRows
  <1>1. /\ \A b \in Ids : b # a => article'[b] = article[b] /\ revisions'[b] = revisions[b]
        /\ ~Exists(a)'
    BY <1>0 DEF CommitDelete, IInv, TypeOK, Exists
  <1>2. \A b \in Ids : b # a => /\ HistoryOf(b)' = HistoryOf(b)
                                /\ StatusOf(b)' = StatusOf(b)
    BY <1>1, SameHistory DEF Exists, StatusOf
  <1>3. HistoryOf(a)' = <<>> /\ StatusOf(a)' = "absent"
    BY <1>1 DEF HistoryOf, StatusOf
  <1>4. StatusOf(a) # "absent"
    BY <1>0 DEF StatusOf, Exists, IInv, TypeOK, Article, Statuses
  <1>5. History!Vanish(a)
    <2>1. [b \in Ids |-> HistoryOf(b)]' = [[b \in Ids |-> HistoryOf(b)] EXCEPT ![a] = <<>>]
      BY <1>2, <1>3
    <2>2. [b \in Ids |-> StatusOf(b)]' = [[b \in Ids |-> StatusOf(b)] EXCEPT ![a] = "absent"]
      BY <1>2, <1>3
    <2> QED
      BY <1>4, <2>1, <2>2 DEF History!Vanish, StatusOf
  <1> QED
    BY <1>5

\* Every other step changes no article and no revision.
LEMMA StepMaps ==
  ASSUME IInv, IInv', Next
  PROVE  [History!Evolve]_(History!promised)
  <1>1. CASE UNCHANGED <<article, revisions>>
    <2>1. \A b \in Ids : HistoryOf(b)' = HistoryOf(b) /\ StatusOf(b)' = StatusOf(b)
      BY <1>1, SameHistory DEF Exists, StatusOf
    <2> QED
      BY <2>1 DEF History!promised, StatusOf
  <1>2. ASSUME NEW a \in Ids, NEW c \in Drafts, Create(a, c) PROVE History!Evolve
    <2>1. History!Appear(a, c) /\ c \in Contents
      BY <1>2, CreateAppears, InputAssumption
    <2>2. [b \in Ids |-> HistoryOf(b)]' # [b \in Ids |-> HistoryOf(b)]
      BY <1>2, CreateAppears
    <2> QED
      BY <2>1, <2>2 DEF History!Evolve
  <1>3. ASSUME NEW a \in Ids, NEW action \in Actions, Move(a, action) PROVE History!Evolve
    BY <1>3, TransitionMoves DEF Move, History!Evolve
  <1>4. ASSUME NEW r \in Requests, Publish(r), ~Fails(r) PROVE History!Evolve
    <2>1. Exists(on[r]) /\ articleLock[on[r]] = NoRequest /\ Transition(on[r], "publish")
      BY <1>4 DEF Publish, ArticleFree
    <2>2. "publish" \in Actions /\ on[r] \in Ids
      BY InProgress DEF Actions
    <2> QED
      BY <2>1, <2>2, TransitionMoves DEF History!Evolve
  <1>5. ASSUME NEW r \in Requests, CommitWrite(r) PROVE History!Evolve
    <2>1. PICK a \in Ids, c \in Contents : History!Write(a, c) /\ HistoryOf(a)' # HistoryOf(a)
      BY <1>5, CommitAppends
    <2>2. [b \in Ids |-> HistoryOf(b)]' # [b \in Ids |-> HistoryOf(b)]
      BY <2>1
    <2> QED
      BY <2>1, <2>2 DEF History!Evolve
  <1>6. ASSUME NEW r \in Requests, CommitDelete(r) PROVE History!Evolve
    BY <1>6, DeleteVanishes DEF History!Evolve
  <1>7. ASSUME NEW r \in Requests, Start(r) \/ DeadlockAbort(r) \/ Rollback(r)
        PROVE  UNCHANGED <<article, revisions>>
    BY <1>7
       DEF Start, StartReview, StartDelete, StartEdit, StartPropose, StartAccept, StartRebase,
           StartReplace, LockChangeable, DeadlockAbort, Rollback, Fails, rows
  <1>8. ASSUME NEW r \in Requests, Proceed(r)
        PROVE  \/ UNCHANGED <<article, revisions>>
               \/ CommitWrite(r) \/ CommitDelete(r) \/ (Publish(r) /\ ~Fails(r))
    BY <1>8
       DEF Proceed, Publish, UpdateFields, Propose, ReadForAccept, CloseProposal, LockVersion,
           MergeOnto, CheckVersion, StoreContent, Cascade, Fails, rows
  <1>9. ASSUME NEW p \in Proposals, NEW verdict \in {"rejected", "withdrawn"}, Decide(p, verdict)
        PROVE  UNCHANGED <<article, revisions>>
    BY <1>9 DEF Decide
  <1>10. ASSUME NEW a \in Ids, NotFound(a) PROVE UNCHANGED <<article, revisions>>
    BY <1>10 DEF NotFound, vars, rows
  <1> QED
    BY <1>1, <1>2, <1>3, <1>4, <1>5, <1>6, <1>7, <1>8, <1>9, <1>10 DEF Next

\* Articles implements ArticleHistory: whatever requests do at once, an article is
\* an append-only history that moves only along the review workflow.
THEOREM Implementation == Spec => HistoryPromise
  <1>1. Init => History!Begin
    BY DEF Init, History!Begin, HistoryOf, Exists
  <1>2. IInv /\ IInv' /\ [Next]_vars => [History!Evolve]_(History!promised)
    <2> SUFFICES ASSUME IInv, IInv', [Next]_vars PROVE [History!Evolve]_(History!promised)
      OBVIOUS
    <2>1. CASE Next
      BY <2>1, StepMaps
    <2>2. CASE UNCHANGED vars
      <3>1. \A b \in Ids : HistoryOf(b)' = HistoryOf(b) /\ StatusOf(b)' = StatusOf(b)
        BY <2>2, SameHistory DEF vars, rows, Exists, StatusOf
      <3> QED
        BY <3>1 DEF History!promised, StatusOf
    <2> QED
      BY <2>1, <2>2
  <1> QED
    BY <1>1, <1>2, Invariant, PTL DEF Spec, HistoryPromise, History!Promise
=============================================================================
