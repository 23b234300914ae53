----------------------------- MODULE ArticleTree -----------------------------
(***************************************************************************)
(* The tree of articles and their images.                                  *)
(*   - features/articles/tree/repository.py: parent_id, the denormalised   *)
(*     path (ltree), the advisory lock of every tree change, the cycle and *)
(*     depth checks, the re-rooting of subtrees;                           *)
(*   - features/articles/images/service.py: an upload is a placeholder     *)
(*     row, a call of the storage and a second transaction;                *)
(*   - crud/service.py and crud/writer.py: create, move and delete, which  *)
(*     bring the two together.                                             *)
(* Requests run in READ COMMITTED transactions.  A step is what a request  *)
(* does between two points where another one can get in between: the       *)
(* transaction of a tree change is two steps once it holds the lock: what  *)
(* it reads and checks, and what it writes and commits.                    *)
(***************************************************************************)
EXTENDS Integers, Sequences, FiniteSets

CONSTANTS
    Ids,          \* articles; an id is given out once
    Images,       \* image rows; an id is given out once
    Requests,
    NoArticle, NoImage, NoRequest,
    MaxDepth,     \* MAX_TREE_DEPTH
    ChainLimit,   \* the rows after which _ancestor_chain stops
    MaxImages,    \* MAX_IMAGES_PER_ARTICLE
    Faults        \* the failures that may happen in this instance

FaultKinds == {"upload", "commitReply", "crash"}

ASSUME NullAssumption ==
    NoArticle \notin Ids /\ NoImage \notin Images /\ NoRequest \notin Requests
ASSUME LimitAssumption == MaxDepth \in Nat \ {0} /\ MaxImages \in Nat \ {0}
ASSUME ChainAssumption == ChainLimit \in Nat /\ MaxDepth <= ChainLimit
ASSUME FiniteAssumption == IsFiniteSet(Requests)
ASSUME FaultAssumption == Faults \subseteq FaultKinds

VARIABLES
    issued,   \* ids of the articles there have been
    rows,     \* the articles there are
    parent,   \* articles.parent_id
    path,     \* articles.path, root first
    lock,     \* who holds the advisory lock TREE_LOCK_KEY
    req,      \* per request: where it is and what it read
    image,    \* per image id: its article and whether image_url is set
    used,     \* image ids given out so far
    stored,   \* objects in the storage
    cut       \* images whose uploader died before it was done

treeVars == <<issued, rows, parent, path, lock>>
imageVars == <<image, used, stored, cut>>
vars == <<treeVars, req, imageVars>>

Steps == {"idle", "lock", "check", "write", "place", "upload", "link",
          "unstore", "unplace", "drop", "remove"}
Ops == {"none", "create", "move", "delete", "upload", "drop"}

\* A request at its first step, with what it was asked and what it read.
At(step, op, a, p, i, keys) ==
    [step |-> step, op |-> op, article |-> a, to |-> p,
     newPath |-> <<>>, image |-> i, keys |-> keys]

Idle == At("idle", "none", NoArticle, NoArticle, NoImage, {})
NoRow == [of |-> NoArticle, url |-> FALSE]

TypeOK ==
    /\ issued \subseteq Ids /\ rows \subseteq issued
    /\ parent \in [Ids -> Ids \cup {NoArticle}]
    /\ path \in [Ids -> Seq(Ids)]
    /\ lock \in Requests \cup {NoRequest}
    /\ req \in [Requests -> [step : Steps, op : Ops, article : Ids \cup {NoArticle},
                             to : Ids \cup {NoArticle}, newPath : Seq(Ids),
                             image : Images \cup {NoImage}, keys : SUBSET Images]]
    /\ image \in [Images -> [of : Ids \cup {NoArticle}, url : BOOLEAN]]
    /\ used \subseteq Images /\ stored \subseteq used /\ cut \subseteq used
    /\ \A i \in Images : image[i] # NoRow => i \in used /\ image[i].of \in rows

Init ==
    /\ issued = {} /\ rows = {}
    /\ parent = [a \in Ids |-> NoArticle]
    /\ path = [a \in Ids |-> <<>>]
    /\ lock = NoRequest
    /\ req = [r \in Requests |-> Idle]
    /\ image = [i \in Images |-> NoRow]
    /\ used = {} /\ stored = {} /\ cut = {}

Goto(r, step) == req' = [req EXCEPT ![r].step = step]
Finish(r) == req' = [req EXCEPT ![r] = Idle]
Begin(r, locals) == req[r].step = "idle" /\ req' = [req EXCEPT ![r] = locals]
Unlock(r) == lock' = IF lock = r THEN NoRequest ELSE lock

-----------------------------------------------------------------------------
(* The tree.                                                               *)

ImagesOf(a) == {i \in Images : image[i].of = a}
Children(a) == {c \in rows : parent[c] = a}

\* path <@ prefix: the article itself and everything below it.
Under(prefix) ==
    {d \in rows : Len(path[d]) >= Len(prefix) /\ SubSeq(path[d], 1, Len(prefix)) = prefix}

\* subpath(path, nlevel(prefix)): what is left of a path below a prefix.
Below(d, n) == SubSeq(path[d], n + 1, Len(path[d]))

\* _ancestor_chain: the recursive query walks parent_id upwards from an
\* article, row by row, and stops after ChainLimit rows.
Walks(a) ==
    {walk \in UNION {[1..n -> rows] : n \in 1..ChainLimit} :
        /\ walk[1] = a
        /\ \A k \in 2..Len(walk) : walk[k] = parent[walk[k - 1]]}

Ancestors(a) == {walk[Len(walk)] : walk \in Walks(a)}

\* validate_parent, with is_self_or_descendant.
ParentAllowed(a, p) == p = NoArticle \/ (p \in rows /\ a \notin Ancestors(p))

\* The path an article gets under a parent.
PathUnder(a, p) == IF p = NoArticle THEN <<a>> ELSE Append(path[p], a)

\* How many levels a subtree adds below its root.
Height(a) ==
    LET levels == {Len(path[d]) - Len(path[a]) : d \in Under(path[a])}
    IN  CHOOSE h \in levels : \A k \in levels : k <= h

\* set_path refuses what would nest deeper than MAX_TREE_DEPTH.
TooDeep(a, p) == Len(PathUnder(a, p)) + (IF a \in rows THEN Height(a) ELSE 0) > MaxDepth

\* set_path: the article and, in one UPDATE, everything below it.
SetPath(a, new) ==
    LET moved == IF a \in rows THEN Under(path[a]) \ {a} ELSE {}
    IN  path' = [d \in Ids |-> IF d = a THEN new
                               ELSE IF d \in moved THEN new \o Below(d, Len(path[a]))
                                    ELSE path[d]]

\* create_article: parent and subtype are looked up before the transaction,
\* which takes the lock only for a parent.
StartCreate(r, a, p) ==
    /\ a \notin issued /\ \A s \in Requests : req[s].op = "create" => req[s].article # a
    /\ p = NoArticle \/ p \in rows
    /\ Begin(r, At(IF p = NoArticle THEN "check" ELSE "lock", "create", a, p, NoImage, {}))
    /\ UNCHANGED <<treeVars, imageVars>>

\* update_article with a parent_id: the state of the article is read first.
StartMove(r, a, p) ==
    /\ a \in rows
    /\ Begin(r, At("lock", "move", a, p, NoImage, {}))
    /\ UNCHANGED <<treeVars, imageVars>>

\* delete: the keys of the images are read before the transaction.
StartDelete(r, a) ==
    /\ a \in rows
    /\ Begin(r, At("lock", "delete", a, NoArticle, NoImage, ImagesOf(a)))
    /\ UNCHANGED <<treeVars, imageVars>>

\* Mutant of LockTree: the advisory lock is not waited for.
LockIgnored(r) ==
    /\ req[r].step = "lock"
    /\ lock' = r
    /\ Goto(r, IF req[r].op = "delete" THEN "write" ELSE "check")
    /\ UNCHANGED <<issued, rows, parent, path, imageVars>>

\* lock_tree: pg_advisory_xact_lock, held until the transaction ends.
LockTree(r) ==
    /\ req[r].step = "lock"
    /\ lock = NoRequest
    /\ lock' = r
    /\ Goto(r, IF req[r].op = "delete" THEN "write" ELSE "check")
    /\ UNCHANGED <<issued, rows, parent, path, imageVars>>

\* validate_parent of a move, the INSERT of a new article (foreign key), and the
\* reads of set_path: the path under the parent, unless that is too deep.
CheckTree(r) ==
    LET a == req[r].article
        p == req[r].to
    IN  /\ req[r].step = "check"
        /\ IF /\ req[r].op = "move" => a \in rows
              /\ ParentAllowed(a, p)
              /\ ~TooDeep(a, p)
           THEN /\ req' = [req EXCEPT ![r].step = "write", ![r].newPath = PathUnder(a, p)]
                /\ UNCHANGED lock
           ELSE Finish(r) /\ Unlock(r)
        /\ UNCHANGED <<issued, rows, parent, path, imageVars>>

\* The UPDATE of the paths and the COMMIT; a parent or an article that is gone
\* rolls back.
WriteTree(r) ==
    LET a == req[r].article
        p == req[r].to
    IN  /\ req[r].step = "write" /\ req[r].op \in {"create", "move"}
        /\ IF (p # NoArticle /\ p \notin rows) \/ (req[r].op = "move" /\ a \notin rows)
           THEN UNCHANGED <<issued, rows, parent, path>>
           ELSE /\ issued' = issued \cup {a}
                /\ rows' = rows \cup {a}
                /\ parent' = [parent EXCEPT ![a] = p]
                /\ SetPath(a, req[r].newPath)
        /\ Finish(r) /\ Unlock(r)
        /\ UNCHANGED imageVars

\* detach_children: every path below the article loses its prefix.
DetachChildren(a) ==
    path' = [d \in Ids |-> IF d \in Under(path[a]) \ {a}
                           THEN Below(d, Len(path[a])) ELSE path[d]]

\* delete: the children are detached, the row goes (ON DELETE SET NULL for the
\* children, CASCADE for the images) and the transaction commits.
DeleteArticle(r) ==
    LET a == req[r].article
    IN  /\ req[r].step = "write" /\ req[r].op = "delete"
        /\ IF a \notin rows
           THEN UNCHANGED <<rows, parent, path, image>> /\ Finish(r)
           ELSE /\ rows' = rows \ {a}
                /\ parent' = [c \in Ids |-> IF c \in Children(a) \cup {a}
                                            THEN NoArticle ELSE parent[c]]
                /\ DetachChildren(a)
                /\ image' = [i \in Images |-> IF i \in ImagesOf(a) THEN NoRow ELSE image[i]]
                /\ Goto(r, "remove")
        /\ Unlock(r)
        /\ UNCHANGED <<issued, used, stored, cut>>

\* The objects of the images that were listed go last, best effort.
RemoveObjects(r) ==
    /\ req[r].step = "remove"
    /\ \/ stored' = stored \ req[r].keys
       \/ "upload" \in Faults /\ UNCHANGED stored
    /\ Finish(r)
    /\ UNCHANGED <<treeVars, image, used, cut>>

-----------------------------------------------------------------------------
(* Images.                                                                 *)

\* upload_image: the article exists and its gallery is not full.
StartUpload(r, a) ==
    /\ a \in rows
    /\ Cardinality(ImagesOf(a)) < MaxImages
    /\ Begin(r, At("place", "upload", a, NoArticle, NoImage, {}))
    /\ UNCHANGED <<treeVars, imageVars>>

\* create_placeholder and its COMMIT; an article that is gone refuses it.
Place(r, i) ==
    /\ req[r].step = "place"
    /\ i \notin used
    /\ IF req[r].article \in rows
       THEN /\ image' = [image EXCEPT ![i] = [of |-> req[r].article, url |-> FALSE]]
            /\ used' = used \cup {i}
            /\ req' = [req EXCEPT ![r].step = "upload", ![r].image = i]
       ELSE UNCHANGED <<image, used>> /\ Finish(r)
    /\ UNCHANGED <<treeVars, stored, cut>>

\* storage.upload_image; a failed call may have stored the object.
Upload(r) ==
    /\ req[r].step = "upload"
    /\ \/ stored' = stored \cup {req[r].image} /\ Goto(r, "link")
       \/ /\ "upload" \in Faults
          /\ stored' \in {stored, stored \cup {req[r].image}}
          /\ Goto(r, "unstore")
    /\ UNCHANGED <<treeVars, image, used, cut>>

\* set_image_url and its COMMIT, whose reply may be lost; a row that vanished
\* raises.
Link(r) ==
    /\ req[r].step = "link"
    /\ IF image[req[r].image] = NoRow
       THEN UNCHANGED image /\ Goto(r, "unstore")
       ELSE /\ image' = [image EXCEPT ![req[r].image].url = TRUE]
            /\ \/ Finish(r)
               \/ "commitReply" \in Faults /\ Goto(r, "unstore")
    /\ UNCHANGED <<treeVars, used, stored, cut>>

\* except Exception: the object goes, best effort, ...
Unstore(r) ==
    /\ req[r].step = "unstore"
    /\ \/ stored' = stored \ {req[r].image}
       \/ "upload" \in Faults /\ UNCHANGED stored
    /\ Goto(r, "unplace")
    /\ UNCHANGED <<treeVars, image, used, cut>>

\* Mutant of Unplace: the placeholder is left to its reader.
UnplaceSkipped(r) ==
    /\ req[r].step = "unplace"
    /\ Finish(r)
    /\ UNCHANGED <<treeVars, imageVars>>

\* ... and the placeholder row (delete_image_by_id).
Unplace(r) ==
    /\ req[r].step = "unplace"
    /\ image' = [image EXCEPT ![req[r].image] = NoRow]
    /\ Finish(r)
    /\ UNCHANGED <<treeVars, used, stored, cut>>

\* delete_image: article and image are read, ...
StartDrop(r, i) ==
    /\ image[i] # NoRow
    /\ Begin(r, At("drop", "drop", image[i].of, NoArticle, i, {i}))
    /\ UNCHANGED <<treeVars, imageVars>>

\* Mutant of DropRow: the object is removed before the row.
DropObjectFirst(r) ==
    /\ req[r].step = "drop"
    /\ stored' = stored \ {req[r].image}
    /\ Goto(r, "unplace")
    /\ UNCHANGED <<treeVars, image, used, cut>>

\* ... the row is deleted (a no-op if it is gone), the object after that.
DropRow(r) ==
    /\ req[r].step = "drop"
    /\ image' = [image EXCEPT ![req[r].image] = NoRow]
    /\ Goto(r, "remove")
    /\ UNCHANGED <<treeVars, used, stored, cut>>

-----------------------------------------------------------------------------

\* A request dies: its transaction is rolled back, what it did before stays.
Crash(r) ==
    /\ "crash" \in Faults
    /\ req[r].step # "idle"
    /\ cut' = IF req[r].op = "upload" /\ req[r].image # NoImage
              THEN cut \cup {req[r].image} ELSE cut
    /\ Finish(r) /\ Unlock(r)
    /\ UNCHANGED <<issued, rows, parent, path, image, used, stored>>

Next ==
    \E r \in Requests :
        \/ \E a \in Ids, p \in Ids \cup {NoArticle} : StartCreate(r, a, p) \/ StartMove(r, a, p)
        \/ \E a \in Ids : StartDelete(r, a) \/ StartUpload(r, a)
        \/ \E i \in Images : Place(r, i) \/ StartDrop(r, i)
        \/ LockTree(r) \/ CheckTree(r) \/ WriteTree(r) \/ DeleteArticle(r) \/ RemoveObjects(r)
        \/ Upload(r) \/ Link(r) \/ Unstore(r) \/ Unplace(r) \/ DropRow(r)
        \/ Crash(r)

Spec == Init /\ [][Next]_vars

-----------------------------------------------------------------------------
(* Properties.                                                             *)

\* The paths are the chains of parents: so the tree has no cycle, whatever two
\* moves and deletions do to each other (set_path, detach_children, lock_tree).
PathsFollowParents ==
    \A a \in rows :
        /\ parent[a] # NoArticle => parent[a] \in rows
        /\ path[a] = PathUnder(a, parent[a])

\* No article is nested deeper than MAX_TREE_DEPTH, although a move checks only
\* the subtree it moves (set_path).
DepthBounded == \A a \in rows : Len(path[a]) <= MaxDepth

\* The tree stays a tree of bounded depth, whatever moves, creations and
\* deletions of subtrees come between a check and its write.
TreeIntact == PathsFollowParents /\ DepthBounded

Uploading(i) ==
    \E r \in Requests : req[r].op = "upload" /\ req[r].image = i

\* A row without a URL belongs to an upload in progress, or its uploader died
\* (upload_image: "no row with an empty image_url outlives the request").
PlaceholdersAreHeld ==
    \A i \in Images : image[i] # NoRow /\ ~image[i].url => Uploading(i) \/ i \in cut

\* An image that a page may embed has its object, unless its uploader is
\* taking both back (upload_image, delete_image: the row goes first).
LinkedIsStored ==
    \A i \in Images : image[i].url => i \in stored \/ Uploading(i) \/ i \in cut

\* Uploads that were checked but have not inserted their row.
Unplaced(a) == {r \in Requests : req[r].step = "place" /\ req[r].article = a}

\* A gallery overshoots its limit by at most the uploads that race for its last
\* place (upload_image counts before its transaction).
GalleryBounded ==
    \A a \in rows :
        Cardinality(ImagesOf(a)) + Cardinality(Unplaced(a)) < MaxImages + Cardinality(Requests)

\* A gallery holds what its uploads put there: no abandoned placeholder outlives
\* a living request, and the limit is passed by the uploads that race only.
GalleryIntact == PlaceholdersAreHeld /\ GalleryBounded

-----------------------------------------------------------------------------
(* What the tree promises.                                                 *)

Forest == INSTANCE ArticleForest WITH planted <- issued, up <- [a \in rows |-> parent[a]]

\* ArticleTree implements ArticleForest: by paths, checks and the advisory lock
\* (tree/repository.py), concurrent creations, moves and deletions are steps of a
\* forest of bounded depth.
ForestPromise == Forest!Promise
=============================================================================
