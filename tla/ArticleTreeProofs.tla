-------------------------- MODULE ArticleTreeProofs --------------------------
(***************************************************************************)
(* ArticleTree keeps its promises for every number of articles, images and *)
(* requests: TreeIntact, LinkedIsStored and GalleryIntact; and it          *)
(* implements ArticleForest (ForestPromise).                               *)
(*                                                                         *)
(* The tree: a path that is the chain of parents holds the path of each of *)
(* its articles as a prefix (PathsArePrefixes), so "below" and "an         *)
(* ancestor of" mean the same (OnPath, AncestorsFound), and what a change  *)
(* has checked under the lock still holds when it writes, because only new *)
(* roots can get in between (KnowsTree).  The images: an object that goes  *)
(* has lost its row before, or its uploader is still there (HasImage).     *)
(***************************************************************************)
EXTENDS ArticleTree, TLAPS, FiniteSetTheorems, SequenceTheorems, WellFoundedInduction

-----------------------------------------------------------------------------
(* The invariant.                                                          *)

TreeOps == {"create", "move", "delete"}

\* A new root changes no other article, and takes no lock.
NewRoot(r) == req[r].op = "create" /\ req[r].to = NoArticle

\* A request that changes the tree between its check and its COMMIT.
InTree(r) ==
    /\ req[r].step \in {"lock", "check", "write"} => req[r].op \in TreeOps
    /\ req[r].step = "check" => req[r].op # "delete"
    /\ req[r].step \in {"check", "write"} => NewRoot(r) \/ lock = r
    /\ req[r].op = "create" => /\ req[r].step \in {"lock", "check", "write"}
                               /\ req[r].article \in Ids \ issued

CreatesApart ==
    \A r, s \in Requests :
        req[r].op = "create" /\ req[s].op = "create" /\ req[r].article = req[s].article => r = s

\* What the check has established and the write relies on.
KnowsTree(r) ==
    LET a == req[r].article
        p == req[r].to
        new == req[r].newPath
    IN  req[r].step = "write" /\ req[r].op # "delete" =>
            /\ p = NoArticle \/ p \in rows
            /\ new = PathUnder(a, p)
            /\ Len(new) <= MaxDepth
            /\ req[r].op = "move" =>
                    /\ a \in rows /\ p \notin Under(path[a])
                    /\ \A d \in Under(path[a]) : Len(new) + Len(path[d]) - Len(path[a]) <= MaxDepth

\* An image a request works on, and the objects it is about to remove.
HasImage(r) ==
    /\ req[r].step \in {"upload", "link", "unstore", "unplace"} =>
            req[r].op = "upload" /\ req[r].image \in used
    /\ req[r].op = "upload" =>
            req[r].step \in {"place", "upload", "link", "unstore", "unplace"}
    /\ req[r].step = "place" => req[r].op = "upload" /\ req[r].image = NoImage
    /\ req[r].step = "link" => image[req[r].image] = NoRow \/ req[r].image \in stored
    /\ req[r].step = "drop" => req[r].image \in used /\ req[r].keys = {req[r].image}
    /\ req[r].op = "delete" /\ req[r].step # "remove" =>
            \A i \in req[r].keys : i \in used /\ image[i].of \in {NoArticle, req[r].article}
    /\ req[r].step = "remove" => \A i \in req[r].keys : i \in used /\ image[i] = NoRow

UploadsApart ==
    \A r, s \in Requests :
        /\ req[r].op = "upload" /\ req[s].op = "upload"
        /\ req[r].image = req[s].image /\ req[r].image # NoImage
        => r = s

\* A row has its object, or an uploader that is there or was cut off.
Settled(i) ==
    \/ image[i] = NoRow
    \/ image[i].url /\ i \in stored
    \/ Uploading(i)
    \/ i \in cut

\* Half of the invariant is about the tree and half about the images.
TreeInv ==
    /\ TreeIntact /\ CreatesApart
    /\ \A r \in Requests : InTree(r) /\ KnowsTree(r)

ImageInv ==
    /\ GalleryBounded /\ UploadsApart
    /\ \A i \in Images : Settled(i) /\ (image[i].of = NoArticle => image[i] = NoRow)
    /\ IsFiniteSet(used)
    /\ \A r \in Requests : HasImage(r)

IInv == TypeOK /\ TreeInv /\ ImageInv
-----------------------------------------------------------------------------
(* Paths.                                                                  *)

\* The part of the types that the lemmas on paths rest on.
TreeType ==
    /\ rows \subseteq Ids /\ parent \in [Ids -> Ids \cup {NoArticle}]
    /\ path \in [Ids -> Seq(Ids)]

\* The path of an article ends in it, and begins with its parent's.
LEMMA PathEnds ==
  ASSUME TreeType, PathsFollowParents, NEW d \in rows
  PROVE  /\ d \in Ids /\ path[d] \in Seq(Ids) /\ Len(path[d]) \in Nat \ {0}
         /\ path[d][Len(path[d])] = d
         /\ parent[d] = NoArticle => path[d] = <<d>> /\ Len(path[d]) = 1
         /\ parent[d] # NoArticle =>
                /\ parent[d] \in rows /\ parent[d] \in Ids /\ path[parent[d]] \in Seq(Ids)
                /\ path[d] = Append(path[parent[d]], d)
                /\ Len(path[d]) = Len(path[parent[d]]) + 1
                /\ \A k \in 1..Len(path[parent[d]]) : path[d][k] = path[parent[d]][k]
  <1>1. d \in Ids /\ path[d] \in Seq(Ids) /\ path[d] = PathUnder(d, parent[d])
    BY DEF TreeType, PathsFollowParents
  <1>2. CASE parent[d] = NoArticle
    <2>1. path[d] = <<d>>
      BY <1>1, <1>2 DEF PathUnder
    <2>2. Len(<<d>>) = 1 /\ <<d>>[1] = d
      OBVIOUS
    <2>3. Len(path[d]) = 1 /\ path[d][1] = d
      BY <2>1, <2>2
    <2>4. Len(path[d]) \in Nat \ {0} /\ path[d][Len(path[d])] = d
      BY <2>3
    <2> QED
      BY <1>1, <1>2, <2>1, <2>3, <2>4
  <1>3. CASE parent[d] # NoArticle
    <2>1. parent[d] \in rows /\ parent[d] \in Ids /\ path[parent[d]] \in Seq(Ids)
      BY <1>3 DEF PathsFollowParents, TreeType
    <2>2. path[d] = Append(path[parent[d]], d)
      BY <1>1, <1>3 DEF PathUnder
    <2>3. /\ Len(path[d]) = Len(path[parent[d]]) + 1 /\ path[d][Len(path[parent[d]]) + 1] = d
          /\ \A k \in 1..Len(path[parent[d]]) : path[d][k] = path[parent[d]][k]
      <3> DEFINE s == path[parent[d]]
      <3>1. s \in Seq(Ids) /\ d \in Ids /\ path[d] = Append(s, d)
        BY <1>1, <2>1, <2>2
      <3> HIDE DEF s
      <3>2. /\ Len(Append(s, d)) = Len(s) + 1 /\ Append(s, d)[Len(s) + 1] = d
            /\ \A k \in 1..Len(s) : Append(s, d)[k] = s[k]
        BY <3>1, AppendProperties
      <3>3. /\ Len(path[d]) = Len(s) + 1 /\ path[d][Len(s) + 1] = d
            /\ \A k \in 1..Len(s) : path[d][k] = s[k]
        BY <3>1, <3>2
      <3> QED
        BY <3>3 DEF s
    <2>4. Len(path[parent[d]]) \in Nat
      BY <2>1, LenProperties
    <2> QED
      BY <1>1, <1>3, <2>1, <2>2, <2>3, <2>4
  <1> QED
    BY <1>2, <1>3

\* A set of numbers has a least one: among the intervals from 0 to its
\* members one is minimal for inclusion.
LEMMA Least ==
  ASSUME NEW S \in SUBSET Nat, S # {}
  PROVE  \E n \in S : \A m \in S : n <= m
  <1> PICK b \in S : TRUE
    OBVIOUS
  <1> DEFINE Spans == {0..n : n \in {m \in S : m <= b}}
  <1>1. IsWellFoundedOn(StrictSubsetOrdering(0..b), SUBSET (0..b))
    <2>1. IsFiniteSet(0..b)
      BY FS_Interval
    <2> QED
      BY <2>1, FS_StrictSubsetOrderingWellFounded, FS_FiniteSubsetsOfFinite
  <1>2. Spans \subseteq SUBSET (0..b) /\ Spans # {}
    OBVIOUS
  <1>3. \A m \in S : m <= b => 0..m \in Spans
    OBVIOUS
  <1>4. \A X \in Spans : \E n \in S : n <= b /\ X = 0..n
    OBVIOUS
  <1> HIDE DEF Spans
  <1>5. PICK X \in Spans : \A Y \in Spans : <<Y, X>> \notin StrictSubsetOrdering(0..b)
    BY <1>1, <1>2, WFMin
  <1>6. PICK n \in S : n <= b /\ X = 0..n
    BY <1>4
  <1>7. ASSUME NEW m \in S, m < n PROVE FALSE
    <2>1. 0..m \in Spans /\ 0..m \subseteq X /\ 0..m # X
      BY <1>3, <1>6, <1>7
    <2> QED
      BY <2>1, <1>2, <1>5 DEF StrictSubsetOrdering
  <1> QED
    BY <1>7

\* Two prefixes of the same length of sequences that agree there.
LEMMA SamePrefix ==
  ASSUME NEW s \in Seq(Ids), NEW t \in Seq(Ids), NEW k \in Nat,
         k <= Len(s), k <= Len(t), \A j \in 1..k : s[j] = t[j]
  PROVE  /\ SubSeq(s, 1, k) = SubSeq(t, 1, k)
         /\ SubSeq(s, 1, k) \in Seq(Ids) /\ Len(SubSeq(s, 1, k)) = k
         /\ \A j \in 1..k : SubSeq(s, 1, k)[j] = s[j]
  <1>1. /\ Len(s) \in Nat /\ Len(t) \in Nat
        /\ \A j \in 1..k : s[j] \in Ids /\ t[j] \in Ids
    BY LenProperties, ElementOfSeq
  <1>2. /\ SubSeq(s, 1, k) \in Seq(Ids) /\ Len(SubSeq(s, 1, k)) = k
        /\ \A j \in 1..k : SubSeq(s, 1, k)[j] = s[j]
    <2>1. /\ SubSeq(s, 1, k) \in Seq(Ids)
          /\ Len(SubSeq(s, 1, k)) = IF 1 <= k THEN k - 1 + 1 ELSE 0
          /\ \A j \in 1..k - 1 + 1 : SubSeq(s, 1, k)[j] = s[1 + j - 1]
      BY <1>1, SubSeqProperties
    <2> QED
      BY <2>1
  <1>3. /\ SubSeq(t, 1, k) \in Seq(Ids) /\ Len(SubSeq(t, 1, k)) = k
        /\ \A j \in 1..k : SubSeq(t, 1, k)[j] = t[j]
    <2>1. /\ SubSeq(t, 1, k) \in Seq(Ids)
          /\ Len(SubSeq(t, 1, k)) = IF 1 <= k THEN k - 1 + 1 ELSE 0
          /\ \A j \in 1..k - 1 + 1 : SubSeq(t, 1, k)[j] = t[1 + j - 1]
      BY <1>1, SubSeqProperties
    <2> QED
      BY <2>1
  <1> QED
    BY <1>2, <1>3, SeqEqual

\* Every prefix of a path is the path of the article it ends in.
LEMMA PathsArePrefixes ==
  ASSUME TreeType, PathsFollowParents
  PROVE  \A d \in rows : \A k \in 1..Len(path[d]) :
            path[d][k] \in rows /\ path[path[d][k]] = SubSeq(path[d], 1, k)
  <1> DEFINE Good(d) == \A k \in 1..Len(path[d]) :
                            path[d][k] \in rows /\ path[path[d][k]] = SubSeq(path[d], 1, k)
             Bad == {Len(path[d]) : d \in {e \in rows : ~Good(e)}}
  <1>1. \A d \in rows : Len(path[d]) \in Nat
    BY PathEnds
  <1>2. ASSUME NEW d \in rows, \A e \in rows : Len(path[e]) < Len(path[d]) => Good(e)
        PROVE  Good(d)
    <2> SUFFICES ASSUME NEW k \in 1..Len(path[d])
                 PROVE  path[d][k] \in rows /\ path[path[d][k]] = SubSeq(path[d], 1, k)
      OBVIOUS
    <2>1. /\ path[d] \in Seq(Ids) /\ Len(path[d]) \in Nat \ {0} /\ path[d][Len(path[d])] = d
      BY PathEnds
    <2>2. CASE k = Len(path[d])
      BY <2>1, <2>2, SubSeqFull
    <2>3. CASE k < Len(path[d])
      <3>1. parent[d] # NoArticle
        BY <2>3, PathEnds
      <3> DEFINE q == parent[d]
      <3>2. /\ q \in rows /\ path[q] \in Seq(Ids) /\ Len(path[d]) = Len(path[q]) + 1
            /\ \A j \in 1..Len(path[q]) : path[d][j] = path[q][j]
        BY <3>1, PathEnds
      <3>3. Len(path[q]) \in Nat /\ k \in 1..Len(path[q])
        BY <2>3, <3>2, LenProperties
      <3>4. Good(q)
        BY <1>2, <3>2, <3>3
      <3>5. path[q][k] \in rows /\ path[path[q][k]] = SubSeq(path[q], 1, k)
        BY <3>3, <3>4
      <3>6. SubSeq(path[q], 1, k) = SubSeq(path[d], 1, k)
        BY <2>1, <2>3, <3>2, <3>3, SamePrefix
      <3> QED
        BY <3>2, <3>3, <3>5, <3>6
    <2> QED
      BY <2>1, <2>2, <2>3
  <1>3. Bad \in SUBSET Nat
    BY <1>1
  <1>4. ASSUME Bad # {} PROVE FALSE
    <2>1. PICK n \in Bad : \A m \in Bad : n <= m
      BY <1>3, <1>4, Least
    <2>2. PICK d \in rows : ~Good(d) /\ n = Len(path[d])
      BY <2>1
    <2>3. \A e \in rows : Len(path[e]) < Len(path[d]) => Good(e)
      <3> SUFFICES ASSUME NEW e \in rows, Len(path[e]) < Len(path[d]), ~Good(e) PROVE FALSE
        OBVIOUS
      <3>1. Len(path[e]) \in Bad
        OBVIOUS
      <3> HIDE DEF Bad, Good
      <3> QED
        BY <1>1, <2>1, <2>2, <3>1
    <2> QED
      BY <1>2, <2>2, <2>3
  <1>5. \A d \in rows : Good(d)
    BY <1>4
  <1> QED
    BY <1>5

\* An article is below another one when its path passes through that one.
LEMMA OnPath ==
  ASSUME TreeType, PathsFollowParents, NEW a \in rows, NEW d \in rows
  PROVE  d \in Under(path[a]) <=>
            Len(path[a]) <= Len(path[d]) /\ path[d][Len(path[a])] = a
  <1> DEFINE n == Len(path[a])
             prefix == SubSeq(path[d], 1, n)
  <1>1. /\ path[a] \in Seq(Ids) /\ n \in Nat \ {0} /\ path[a][n] = a
        /\ path[d] \in Seq(Ids) /\ Len(path[d]) \in Nat \ {0}
    BY PathEnds
  <1>2. ASSUME n <= Len(path[d]), prefix = path[a]
        PROVE  path[d][n] = a
    <2>1. \A j \in 1..n : prefix[j] = path[d][j]
      BY <1>1, <1>2, SamePrefix
    <2> HIDE DEF prefix
    <2> QED
      BY <1>1, <1>2, <2>1
  <1>3. ASSUME n <= Len(path[d]), path[d][n] = a
        PROVE  prefix = path[a]
    <2>1. n \in 1..Len(path[d])
      BY <1>1, <1>3
    <2> QED
      BY <1>3, <2>1, PathsArePrefixes
  <1>4. d \in Under(path[a]) <=> n <= Len(path[d]) /\ prefix = path[a]
    BY <1>1 DEF Under
  <1> HIDE DEF n, prefix
  <1>5. d \in Under(path[a]) <=> n <= Len(path[d]) /\ path[d][n] = a
    BY <1>2, <1>3, <1>4
  <1> QED
    BY <1>5 DEF n

\* The article itself is below itself, and what is below it is as deep.
LEMMA UnderSelf ==
  ASSUME TreeType, PathsFollowParents, NEW a \in rows
  PROVE  /\ a \in Under(path[a])
         /\ \A d \in Under(path[a]) :
                d \in rows /\ Len(path[d]) - Len(path[a]) \in Nat
  <1>1. path[a][Len(path[a])] = a /\ Len(path[a]) \in Nat
    BY PathEnds
  <1>2. a \in Under(path[a])
    BY <1>1, OnPath
  <1>3. ASSUME NEW d \in Under(path[a])
        PROVE  d \in rows /\ Len(path[d]) - Len(path[a]) \in Nat
    <2>1. d \in rows /\ Len(path[a]) <= Len(path[d])
      BY DEF Under
    <2> QED
      BY <1>1, <2>1, PathEnds
  <1> QED
    BY <1>2, <1>3

\* An article is strictly below another one when its parent is below it.
LEMMA ParentUnder ==
  ASSUME TreeType, PathsFollowParents, NEW a \in rows, NEW d \in rows, d # a
  PROVE  /\ parent[d] = NoArticle => d \notin Under(path[a])
         /\ d \in Under(path[a]) <=> parent[d] \in Under(path[a])
  <1> DEFINE n == Len(path[a])
             l == Len(path[d])
             q == parent[d]
  <1>1. n \in Nat \ {0} /\ l \in Nat \ {0} /\ path[d][l] = d
    BY PathEnds
  <1>2. d \in Under(path[a]) <=> n <= l /\ path[d][n] = a
    BY OnPath
  <1>3. CASE q = NoArticle
    <2>1. l = 1
      BY <1>3, PathEnds
    <2>2. NoArticle \notin rows
      BY NullAssumption DEF TreeType
    <2>3. q \notin Under(path[a])
      BY <1>3, <2>2 DEF Under
    <2>4. ASSUME n <= l, path[d][n] = a PROVE FALSE
      <3>1. n = l
        BY <1>1, <2>1, <2>4
      <3> QED
        BY <1>1, <2>4, <3>1
    <2> HIDE DEF n, l, q
    <2>5. d \notin Under(path[a])
      BY <1>2, <2>4
    <2> QED
      BY <2>3, <2>5 DEF q
  <1>4. CASE q # NoArticle
    <2>1. /\ q \in rows /\ path[q] \in Seq(Ids) /\ l = Len(path[q]) + 1
          /\ \A k \in 1..Len(path[q]) : path[d][k] = path[q][k]
      BY <1>4, PathEnds
    <2>2. q \in Under(path[a]) <=> n <= Len(path[q]) /\ path[q][n] = a
      BY <2>1, OnPath
    <2>3. Len(path[q]) \in Nat
      BY <2>1, LenProperties
    <2>4. ASSUME n <= l, path[d][n] = a PROVE n <= Len(path[q]) /\ path[q][n] = a
      <3>1. n # l
        BY <1>1, <2>4
      <3>2. n \in 1..Len(path[q])
        BY <1>1, <2>1, <2>3, <2>4, <3>1
      <3> HIDE DEF n, l, q
      <3> QED
        BY <2>1, <2>3, <2>4, <3>2
    <2>5. ASSUME n <= Len(path[q]), path[q][n] = a PROVE n <= l /\ path[d][n] = a
      <3>1. n \in 1..Len(path[q]) /\ n <= l
        BY <1>1, <2>1, <2>3, <2>5
      <3> HIDE DEF n, l, q
      <3> QED
        BY <2>1, <2>3, <2>5, <3>1
    <2> HIDE DEF n, l, q
    <2>6. d \in Under(path[a]) <=> q \in Under(path[a])
      BY <1>2, <2>2, <2>4, <2>5
    <2> QED
      BY <1>4, <2>6 DEF q
  <1> QED
    BY <1>3, <1>4

\* An article below another one has it among its ancestors: the walk up its
\* path takes one row per level, and ChainLimit is no less than MAX_TREE_DEPTH.
LEMMA AncestorsFound ==
  ASSUME TreeType, TreeIntact, NEW a \in rows, NEW p \in Under(path[a])
  PROVE  a \in Ancestors(p)
  <1>1. PathsFollowParents /\ DepthBounded /\ p \in rows
    BY DEF TreeIntact, Under
  <1> DEFINE n == Len(path[a])
             l == Len(path[p])
             m == l + 1 - n
             walk == [k \in 1..m |-> path[p][l + 1 - k]]
  <1>2. /\ n \in Nat \ {0} /\ l \in Nat \ {0} /\ n <= l /\ l <= MaxDepth
        /\ path[p] \in Seq(Ids) /\ path[p][l] = p /\ path[p][n] = a
    BY <1>1, PathEnds, OnPath DEF DepthBounded
  <1>3. m \in 1..ChainLimit
    BY <1>2, ChainAssumption, LimitAssumption
  <1>4. \A k \in 1..m : l + 1 - k \in n..l /\ l + 1 - k \in 1..l
    BY <1>2
  <1>5. \A j \in 1..l : path[p][j] \in rows /\ path[path[p][j]] = SubSeq(path[p], 1, j)
    BY <1>1, PathsArePrefixes
  <1>6. \A j \in 2..l : path[p][j - 1] = parent[path[p][j]]
    <2> SUFFICES ASSUME NEW j \in 2..l PROVE path[p][j - 1] = parent[path[p][j]]
      OBVIOUS
    <2> DEFINE e == path[p][j]
               q == parent[e]
    <2>1. j \in 1..l /\ j - 1 \in 1..j /\ j <= l /\ j \in Nat
      BY <1>2
    <2>2. e \in rows /\ path[e] = SubSeq(path[p], 1, j)
      BY <1>5, <2>1
    <2>3. /\ Len(SubSeq(path[p], 1, j)) = j
          /\ \A i \in 1..j : SubSeq(path[p], 1, j)[i] = path[p][i]
      BY <1>2, <2>1, SamePrefix
    <2>4. Len(path[e]) = j /\ path[e][j - 1] = path[p][j - 1]
      BY <2>1, <2>2, <2>3
    <2>5. q # NoArticle
      BY <1>1, <2>1, <2>2, <2>4, PathEnds
    <2>6. /\ q \in rows /\ Len(path[e]) = Len(path[q]) + 1
          /\ \A k \in 1..Len(path[q]) : path[e][k] = path[q][k]
      BY <1>1, <2>2, <2>5, PathEnds
    <2>7. Len(path[q]) \in Nat \ {0} /\ path[q][Len(path[q])] = q
      BY <1>1, <2>6, PathEnds
    <2>8. Len(path[q]) = j - 1 /\ j - 1 \in 1..Len(path[q])
      <3> HIDE DEF e, q
      <3> QED
        BY <2>1, <2>4, <2>6, <2>7
    <2>9. path[e][j - 1] = q
      BY <2>6, <2>7, <2>8
    <2> QED
      BY <2>4, <2>9
  <1>7. walk \in [1..m -> rows] /\ DOMAIN walk = 1..m
    BY <1>4, <1>5
  <1>8. m \in Nat /\ Len(walk) = m /\ walk \in Seq(rows)
    <2>1. m \in Nat
      BY <1>3
    <2> HIDE DEF walk, m
    <2> QED
      BY <1>7, <2>1
  <1>9. walk[1] = p /\ walk[m] = a
    <2>1. 1 \in 1..m /\ m \in 1..m /\ l + 1 - 1 = l /\ l + 1 - m = n
      BY <1>2, <1>3
    <2> QED
      BY <1>2, <2>1
  <1>10. \A k \in 2..m : walk[k] = parent[walk[k - 1]]
    <2> SUFFICES ASSUME NEW k \in 2..m PROVE walk[k] = parent[walk[k - 1]]
      OBVIOUS
    <2>1. /\ k \in 1..m /\ k - 1 \in 1..m /\ l + 1 - (k - 1) \in 2..l
          /\ (l + 1 - (k - 1)) - 1 = l + 1 - k
      BY <1>2, <1>3
    <2>2. walk[k] = path[p][l + 1 - k] /\ walk[k - 1] = path[p][l + 1 - (k - 1)]
      BY <2>1
    <2> QED
      BY <1>6, <2>1, <2>2
  <1> HIDE DEF walk, m
  <1>11. walk \in Walks(p)
    BY <1>3, <1>7, <1>8, <1>9, <1>10 DEF Walks
  <1> QED
    BY <1>8, <1>9, <1>11 DEF Ancestors

\* Height is the number of levels of the deepest article below.
LEMMA HeightBounds ==
  ASSUME TreeType, TreeIntact, NEW a \in rows
  PROVE  /\ Height(a) \in Nat
         /\ \A d \in Under(path[a]) : Len(path[d]) - Len(path[a]) <= Height(a)
  <1> DEFINE levels == {Len(path[d]) - Len(path[a]) : d \in Under(path[a])}
             Highest(h) == \A k \in levels : k <= h
             room == {MaxDepth - k : k \in levels}
  <1>1. PathsFollowParents /\ DepthBounded
    BY DEF TreeIntact
  <1>2. levels \in SUBSET Nat /\ levels # {}
    BY <1>1, UnderSelf
  <1>3. \A k \in levels : k \in Nat /\ MaxDepth - k \in Nat
    <2> SUFFICES ASSUME NEW d \in Under(path[a])
                 PROVE  /\ Len(path[d]) - Len(path[a]) \in Nat
                        /\ MaxDepth - (Len(path[d]) - Len(path[a])) \in Nat
      OBVIOUS
    <2>1. d \in rows /\ Len(path[d]) - Len(path[a]) \in Nat
      BY <1>1, UnderSelf
    <2>2. /\ Len(path[d]) <= MaxDepth /\ Len(path[d]) \in Nat
          /\ Len(path[a]) \in Nat /\ MaxDepth \in Nat
      BY <1>1, <2>1, PathEnds, LimitAssumption DEF DepthBounded
    <2> QED
      BY <2>1, <2>2
  <1>4. Height(a) = CHOOSE h \in levels : Highest(h)
    BY DEF Height
  <1> HIDE DEF levels
  <1>5. room \in SUBSET Nat /\ room # {}
    BY <1>2, <1>3
  <1>6. PICK x \in room : \A y \in room : x <= y
    BY <1>5, Least
  <1>7. PICK h \in levels : x = MaxDepth - h
    BY <1>6
  <1>8. Highest(h)
    <2> SUFFICES ASSUME NEW k \in levels PROVE k <= h
      OBVIOUS
    <2>1. MaxDepth - h <= MaxDepth - k
      BY <1>6, <1>7
    <2> QED
      BY <1>3, <2>1, LimitAssumption
  <1> HIDE DEF Highest
  <1>9. Height(a) \in levels /\ Highest(Height(a))
    BY <1>4, <1>8
  <1> QED
    BY <1>2, <1>9 DEF Highest, levels

\* What a path loses above its article, its parent's loses as well: the rest
\* below a prefix grows by the article.
LEMMA BelowAppend ==
  ASSUME NEW s \in Seq(Ids), NEW d \in Ids, NEW n \in Nat, n <= Len(s)
  PROVE  /\ SubSeq(Append(s, d), n + 1, Len(Append(s, d))) = Append(SubSeq(s, n + 1, Len(s)), d)
         /\ SubSeq(s, n + 1, Len(s)) \in Seq(Ids)
         /\ Len(SubSeq(s, n + 1, Len(s))) = Len(s) - n
  <1> DEFINE t == Append(s, d)
             left == SubSeq(t, n + 1, Len(t))
             rest == SubSeq(s, n + 1, Len(s))
             right == Append(rest, d)
  <1>1. /\ Len(s) \in Nat /\ Len(t) = Len(s) + 1 /\ t \in Seq(Ids)
        /\ t[Len(s) + 1] = d /\ \A j \in 1..Len(s) : t[j] = s[j]
    BY LenProperties, AppendProperties
  <1>2. \A j \in 1..Len(s) : s[j] \in Ids
    BY ElementOfSeq
  <1> HIDE DEF t
  <1>3. \A j \in 1..Len(t) : t[j] \in Ids
    BY <1>1, ElementOfSeq
  <1>4. /\ rest \in Seq(Ids) /\ Len(rest) = Len(s) - n
        /\ \A j \in 1..Len(s) - n : rest[j] = s[n + j]
    <2>1. \A j \in n + 1..Len(s) : s[j] \in Ids
      BY <1>1, <1>2
    <2>2. /\ rest \in Seq(Ids)
          /\ Len(rest) = IF n + 1 <= Len(s) THEN Len(s) - (n + 1) + 1 ELSE 0
          /\ \A j \in 1..Len(s) - (n + 1) + 1 : rest[j] = s[n + 1 + j - 1]
      BY <1>1, <2>1, SubSeqProperties
    <2> HIDE DEF rest
    <2> QED
      BY <1>1, <2>2
  <1>5. /\ left \in Seq(Ids) /\ Len(left) = Len(s) + 1 - n
        /\ \A j \in 1..Len(s) + 1 - n : left[j] = t[n + j]
    <2>1. \A j \in n + 1..Len(t) : t[j] \in Ids
      BY <1>1, <1>3
    <2>2. /\ left \in Seq(Ids)
          /\ Len(left) = IF n + 1 <= Len(t) THEN Len(t) - (n + 1) + 1 ELSE 0
          /\ \A j \in 1..Len(t) - (n + 1) + 1 : left[j] = t[n + 1 + j - 1]
      BY <1>1, <2>1, SubSeqProperties
    <2> HIDE DEF left
    <2> QED
      BY <1>1, <2>2
  <1> HIDE DEF rest, left
  <1>6. /\ right \in Seq(Ids) /\ Len(right) = Len(rest) + 1
        /\ right[Len(rest) + 1] = d /\ \A j \in 1..Len(rest) : right[j] = rest[j]
    BY <1>4, AppendProperties
  <1> HIDE DEF right
  <1>7. \A j \in 1..Len(left) : left[j] = right[j]
    <2> SUFFICES ASSUME NEW j \in 1..Len(left) PROVE left[j] = right[j]
      OBVIOUS
    <2>1. CASE j = Len(s) + 1 - n
      BY <1>1, <1>4, <1>5, <1>6, <2>1
    <2>2. CASE j # Len(s) + 1 - n
      <3>1. j \in 1..Len(s) - n /\ n + j \in 1..Len(s)
        <4>1. Len(s) \in Nat /\ Len(left) = Len(s) + 1 - n /\ j \in Nat /\ 1 <= j /\ j <= Len(left)
          BY <1>1, <1>5
        <4> QED
          BY <4>1, <2>2
      <3> QED
        BY <1>1, <1>4, <1>5, <1>6, <3>1
    <2> QED
      BY <2>1, <2>2
  <1>8. left = right
    BY <1>1, <1>4, <1>5, <1>6, <1>7, SeqEqual
  <1> QED
    BY <1>4, <1>8 DEF left, rest, right, t

\* The same with a new prefix in front.
LEMMA ConcatAppend ==
  ASSUME NEW s \in Seq(Ids), NEW t \in Seq(Ids), NEW d \in Ids
  PROVE  /\ s \o Append(t, d) = Append(s \o t, d)
         /\ s \o <<>> = s
         /\ s \o t \in Seq(Ids) /\ Len(s \o t) = Len(s) + Len(t)
  <1>1. Append(t, d) = t \o <<d>> /\ Append(s \o t, d) = (s \o t) \o <<d>>
    BY ConcatProperties, AppendIsConcat
  <1>2. <<d>> \in Seq(Ids)
    OBVIOUS
  <1>3. (s \o t) \o <<d>> = s \o (t \o <<d>>)
    BY <1>2, ConcatAssociative
  <1> QED
    BY <1>1, <1>3, ConcatEmptySeq, ConcatProperties

\* Below a prefix, too, a path continues its parent's.
LEMMA BelowParent ==
  ASSUME TreeType, PathsFollowParents, NEW a \in rows, NEW d \in Under(path[a])
  PROVE  /\ Below(d, Len(path[a])) \in Seq(Ids)
         /\ Len(Below(d, Len(path[a]))) = Len(path[d]) - Len(path[a])
         /\ Below(a, Len(path[a])) = <<>>
         /\ d # a => /\ parent[d] # NoArticle /\ parent[d] \in Under(path[a])
                     /\ Below(d, Len(path[a])) = Append(Below(parent[d], Len(path[a])), d)
  <1> DEFINE n == Len(path[a])
             q == parent[d]
  <1>1. d \in rows /\ d \in Ids /\ path[d] \in Seq(Ids) /\ n \in Nat /\ n <= Len(path[d])
    <2>1. d \in rows /\ n <= Len(path[d])
      BY DEF Under
    <2> QED
      BY <2>1, PathEnds
  <1>2. SubSeq(path[a], n + 1, Len(path[a])) = <<>>
    BY <1>1, SubSeqEmpty
  <1>3. /\ SubSeq(path[d], n + 1, Len(path[d])) \in Seq(Ids)
        /\ Len(SubSeq(path[d], n + 1, Len(path[d]))) = Len(path[d]) - n
    BY <1>1, BelowAppend
  <1>4. ASSUME d # a
        PROVE  /\ q # NoArticle /\ q \in Under(path[a])
               /\ SubSeq(path[d], n + 1, Len(path[d]))
                    = Append(SubSeq(path[q], n + 1, Len(path[q])), d)
    <2>1. q # NoArticle /\ q \in Under(path[a])
      BY <1>1, <1>4, ParentUnder
    <2>2. q \in rows /\ path[q] \in Seq(Ids) /\ path[d] = Append(path[q], d)
      BY <1>1, <2>1, PathEnds
    <2>3. n <= Len(path[q])
      BY <2>1 DEF Under
    <2> HIDE DEF n, q
    <2> DEFINE s == path[q]
    <2>4. s \in Seq(Ids) /\ d \in Ids /\ n \in Nat /\ n <= Len(s)
      BY <1>1, <2>2, <2>3
    <2> HIDE DEF s
    <2>5. SubSeq(Append(s, d), n + 1, Len(Append(s, d))) = Append(SubSeq(s, n + 1, Len(s)), d)
      BY <2>4, BelowAppend
    <2>6. path[d] = Append(s, d)
      BY <2>2 DEF s
    <2> QED
      BY <2>1, <2>5, <2>6 DEF s
  <1> QED
    BY <1>2, <1>3, <1>4 DEF Below

\* The path of a new place is a path.
LEMMA NewPathType ==
  ASSUME TreeType, PathsFollowParents, NEW a \in Ids, NEW p, p = NoArticle \/ p \in rows
  PROVE  /\ PathUnder(a, p) \in Seq(Ids)
         /\ Len(PathUnder(a, p)) \in Nat
         /\ p = NoArticle => PathUnder(a, p) = <<a>> /\ Len(PathUnder(a, p)) = 1
  <1>1. <<a>> \in Seq(Ids) /\ Len(<<a>>) = 1
    OBVIOUS
  <1>2. ASSUME p # NoArticle PROVE PathUnder(a, p) \in Seq(Ids)
    <2>1. p \in rows /\ path[p] \in Seq(Ids)
      BY <1>2, PathEnds
    <2> QED
      BY <1>2, <2>1, AppendProperties DEF PathUnder
  <1>3. PathUnder(a, p) \in Seq(Ids)
    BY <1>1, <1>2 DEF PathUnder
  <1> QED
    BY <1>1, <1>3, LenProperties DEF PathUnder

\* A move re-roots what is below the article and keeps the tree.
LEMMA MoveKeepsTree ==
  ASSUME TreeType, TreeIntact, NEW a \in rows, NEW p,
         p = NoArticle \/ p \in rows, p \notin Under(path[a]),
         \A d \in Under(path[a]) : Len(PathUnder(a, p)) + Len(path[d]) - Len(path[a]) <= MaxDepth,
         rows' = rows, parent' = [parent EXCEPT ![a] = p], SetPath(a, PathUnder(a, p))
  PROVE  TreeIntact' /\ path' \in [Ids -> Seq(Ids)]
  <1> DEFINE n == Len(path[a])
             new == PathUnder(a, p)
             Q == Under(path[a])
  <1>1. /\ PathsFollowParents /\ DepthBounded /\ rows \subseteq Ids
        /\ path \in [Ids -> Seq(Ids)] /\ parent \in [Ids -> Ids \cup {NoArticle}]
        /\ a \in Ids
    BY DEF TreeIntact, TreeType
  <1>2. new \in Seq(Ids) /\ Len(new) \in Nat
    BY <1>1, NewPathType
  <1>3. a \in Q /\ Q \subseteq rows
    BY <1>1, UnderSelf
  <1>4. \A d \in Ids : path'[d] = IF d = a THEN new
                                  ELSE IF d \in Q THEN new \o Below(d, n) ELSE path[d]
    BY DEF SetPath
  <1>5. \A d \in Ids : parent'[d] = IF d = a THEN p ELSE parent[d]
    BY <1>1
  <1>6. \A d \in Q : Below(d, n) \in Seq(Ids) /\ Len(Below(d, n)) = Len(path[d]) - n
    BY <1>1, BelowParent
  <1>7. Below(a, n) = <<>> /\ new \o Below(a, n) = new
    <2>1. Below(a, n) = <<>>
      BY <1>1, <1>3, BelowParent
    <2> QED
      BY <1>2, <2>1, ConcatEmptySeq
  <1>8. \A d \in Q : path'[d] = new \o Below(d, n)
    BY <1>1, <1>3, <1>4, <1>7
  <1>9. \A d \in Q : new \o Below(d, n) \in Seq(Ids)
                     /\ Len(new \o Below(d, n)) = Len(new) + Len(Below(d, n))
    BY <1>2, <1>6, ConcatProperties
  <1>10. path' \in [Ids -> Seq(Ids)]
    <2>1. path' = [d \in Ids |-> path'[d]]
      BY DEF SetPath
    <2>2. \A d \in Ids : path'[d] \in Seq(Ids)
      <3> HIDE DEF new, Q
      <3> QED
        BY <1>1, <1>2, <1>4, <1>9
    <2> QED
      BY <2>1, <2>2
  <1>11. ASSUME NEW d \in rows
         PROVE  /\ parent'[d] # NoArticle => parent'[d] \in rows
                /\ path'[d] = IF parent'[d] = NoArticle THEN <<d>>
                                                        ELSE Append(path'[parent'[d]], d)
                /\ Len(path'[d]) <= MaxDepth
    <2>1. d \in Ids /\ path[d] = PathUnder(d, parent[d])
          /\ (parent[d] # NoArticle => parent[d] \in rows)
      BY <1>1 DEF PathsFollowParents
    <2>2. CASE d = a
      <3>1. parent'[d] = p /\ path'[d] = new
        BY <1>4, <1>5, <2>1, <2>2
      <3>2. p # NoArticle => p \in Ids /\ p # a /\ p \notin Q
        BY <1>1, <1>3
      <3>3. p # NoArticle => path'[p] = path[p]
        BY <1>4, <3>2
      <3>4. Len(new) + Len(path[a]) - Len(path[a]) <= MaxDepth
        BY <1>3
      <3>5. Len(path[a]) \in Nat
        BY <1>1, PathEnds
      <3>6. Len(new) <= MaxDepth
        BY <1>2, <3>4, <3>5, LimitAssumption
      <3> QED
        BY <2>2, <3>1, <3>3, <3>6 DEF PathUnder
    <2>3. CASE d # a /\ d \in Q
      <3> DEFINE q == parent[d]
      <3>1. /\ q # NoArticle /\ q \in Q /\ Below(d, n) = Append(Below(q, n), d)
        BY <1>1, <2>3, BelowParent
      <3>2. parent'[d] = q /\ q \in rows
        BY <1>3, <1>5, <2>1, <2>3, <3>1
      <3>3. path'[d] = new \o Append(Below(q, n), d) /\ path'[q] = new \o Below(q, n)
        BY <1>8, <2>3, <3>1
      <3>4. new \o Append(Below(q, n), d) = Append(new \o Below(q, n), d)
        BY <1>2, <1>6, <2>1, <3>1, ConcatAppend
      <3>5. Len(path'[d]) = Len(new) + (Len(path[d]) - n)
        BY <1>6, <1>8, <1>9, <2>3
      <3>6. Len(new) + Len(path[d]) - Len(path[a]) <= MaxDepth
        BY <2>3
      <3>7. Len(path[d]) \in Nat /\ n \in Nat
        BY <1>1, PathEnds
      <3>8. Len(path'[d]) <= MaxDepth
        <4> HIDE DEF new
        <4> QED
          BY <1>2, <3>5, <3>6, <3>7, LimitAssumption
      <3> HIDE DEF new, q, n
      <3> QED
        BY <3>1, <3>2, <3>3, <3>4, <3>8
    <2>4. CASE d \notin Q
      <3>1. d # a /\ path'[d] = path[d] /\ parent'[d] = parent[d]
        BY <1>3, <1>4, <1>5, <2>1, <2>4
      <3>2. parent[d] # NoArticle => parent[d] \notin Q
        BY <1>1, <2>4, <3>1, ParentUnder
      <3>3. parent[d] # NoArticle => path'[parent[d]] = path[parent[d]]
        BY <1>1, <1>3, <1>4, <2>1, <3>2
      <3>4. Len(path[d]) <= MaxDepth
        BY <1>1 DEF DepthBounded
      <3> QED
        BY <2>1, <3>1, <3>3, <3>4 DEF PathUnder
    <2> QED
      BY <2>2, <2>3, <2>4
  <1> QED
    BY <1>10, <1>11 DEF TreeIntact, PathsFollowParents, DepthBounded, PathUnder

\* A new article is a leaf: it moves no other path.
LEMMA CreateKeepsTree ==
  ASSUME TreeType, TreeIntact, NEW a \in Ids \ rows, NEW p,
         p = NoArticle \/ p \in rows, Len(PathUnder(a, p)) <= MaxDepth,
         rows' = rows \cup {a}, parent' = [parent EXCEPT ![a] = p], SetPath(a, PathUnder(a, p))
  PROVE  /\ TreeIntact' /\ path' \in [Ids -> Seq(Ids)]
         /\ path'[a] = PathUnder(a, p) /\ \A d \in Ids \ {a} : path'[d] = path[d]
  <1> DEFINE new == PathUnder(a, p)
  <1>1. /\ PathsFollowParents /\ DepthBounded /\ rows \subseteq Ids
        /\ path \in [Ids -> Seq(Ids)] /\ parent \in [Ids -> Ids \cup {NoArticle}]
    BY DEF TreeIntact, TreeType
  <1>2. new \in Seq(Ids)
    BY <1>1, NewPathType
  <1>3. path' = [d \in Ids |-> IF d = a THEN new ELSE path[d]]
    <2>1. path' = [d \in Ids |-> IF d = a THEN new
                                 ELSE IF d \in {} THEN new \o Below(d, Len(path[a])) ELSE path[d]]
      BY DEF SetPath
    <2> QED
      BY <2>1
  <1>4. \A d \in Ids : parent'[d] = IF d = a THEN p ELSE parent[d]
    BY <1>1
  <1>5. path'[a] = new /\ \A d \in Ids \ {a} : path'[d] = path[d]
    BY <1>3
  <1>6. path' \in [Ids -> Seq(Ids)]
    BY <1>1, <1>2, <1>3
  <1>7. ASSUME NEW d \in rows'
        PROVE  /\ parent'[d] # NoArticle => parent'[d] \in rows'
               /\ path'[d] = IF parent'[d] = NoArticle THEN <<d>>
                                                       ELSE Append(path'[parent'[d]], d)
               /\ Len(path'[d]) <= MaxDepth
    <2>1. CASE d = a
      <3>1. parent'[d] = p /\ path'[d] = new
        BY <1>4, <1>5, <2>1
      <3>2. p # NoArticle => p \in Ids \ {a} /\ p \in rows
        BY <1>1
      <3>3. p # NoArticle => path'[p] = path[p]
        BY <1>5, <3>2
      <3> QED
        BY <2>1, <3>1, <3>2, <3>3 DEF PathUnder
    <2>2. CASE d # a
      <3>1. d \in rows /\ d \in Ids \ {a}
        BY <1>1, <2>2
      <3>2. parent'[d] = parent[d] /\ path'[d] = path[d]
        BY <1>4, <1>5, <2>2, <3>1
      <3>3. /\ path[d] = PathUnder(d, parent[d]) /\ Len(path[d]) <= MaxDepth
            /\ parent[d] # NoArticle => parent[d] \in rows
        BY <1>1, <3>1 DEF PathsFollowParents, DepthBounded
      <3>4. parent[d] # NoArticle => path'[parent[d]] = path[parent[d]]
        BY <1>1, <1>5, <3>3
      <3> QED
        BY <3>2, <3>3, <3>4 DEF PathUnder
    <2> QED
      BY <2>1, <2>2
  <1> QED
    BY <1>5, <1>6, <1>7 DEF TreeIntact, PathsFollowParents, DepthBounded, PathUnder

\* A deletion makes its children roots and keeps the tree.
LEMMA DeleteKeepsTree ==
  ASSUME TreeType, TreeIntact, NEW a \in rows,
         rows' = rows \ {a},
         parent' = [c \in Ids |-> IF c \in Children(a) \cup {a} THEN NoArticle ELSE parent[c]],
         DetachChildren(a)
  PROVE  TreeIntact' /\ path' \in [Ids -> Seq(Ids)]
  <1> DEFINE n == Len(path[a])
             Q == Under(path[a])
  <1>1. /\ PathsFollowParents /\ DepthBounded /\ rows \subseteq Ids
        /\ path \in [Ids -> Seq(Ids)] /\ parent \in [Ids -> Ids \cup {NoArticle}]
        /\ a \in Ids
    BY DEF TreeIntact, TreeType
  <1>2. a \in Q /\ Q \subseteq rows
    BY <1>1, UnderSelf
  <1>3. \A d \in Ids : path'[d] = IF d \in Q \ {a} THEN Below(d, n) ELSE path[d]
    BY DEF DetachChildren
  <1>4. \A d \in rows \ {a} : parent'[d] = IF parent[d] = a THEN NoArticle ELSE parent[d]
    BY <1>1 DEF Children
  <1>5. \A d \in Q : Below(d, n) \in Seq(Ids) /\ Len(Below(d, n)) = Len(path[d]) - n
    BY <1>1, BelowParent
  <1>6. Below(a, n) = <<>>
    BY <1>1, <1>2, BelowParent
  <1>7. path' \in [Ids -> Seq(Ids)]
    <2>1. path' = [d \in Ids |-> path'[d]]
      BY DEF DetachChildren
    <2>2. \A d \in Ids : path'[d] \in Seq(Ids)
      <3> HIDE DEF Q
      <3> QED
        BY <1>1, <1>3, <1>5
    <2> QED
      BY <2>1, <2>2
  <1>8. ASSUME NEW d \in rows \ {a}
        PROVE  /\ parent'[d] # NoArticle => parent'[d] \in rows \ {a}
               /\ path'[d] = IF parent'[d] = NoArticle THEN <<d>>
                                                       ELSE Append(path'[parent'[d]], d)
               /\ Len(path'[d]) <= MaxDepth
    <2>1. /\ d \in Ids /\ path[d] = PathUnder(d, parent[d])
          /\ parent[d] # NoArticle => parent[d] \in rows
          /\ Len(path[d]) <= MaxDepth
      BY <1>1 DEF PathsFollowParents, DepthBounded
    <2>2. CASE d \in Q
      <3> DEFINE q == parent[d]
      <3>1. /\ q # NoArticle /\ q \in Q /\ Below(d, n) = Append(Below(q, n), d)
        BY <1>1, <2>2, BelowParent
      <3>2. path'[d] = Below(d, n)
        BY <1>3, <2>1, <2>2
      <3>3. Len(path'[d]) = Len(path[d]) - n /\ n \in Nat /\ Len(path[d]) \in Nat
        BY <1>1, <1>5, <2>2, <3>2, PathEnds
      <3>4. Len(path'[d]) <= MaxDepth
        <4> HIDE DEF n
        <4> QED
          BY <2>1, <3>3, LimitAssumption
      <3>5. CASE q = a
        <4>1. parent'[d] = NoArticle
          BY <1>4, <3>5
        <4>2. Append(<<>>, d) = <<d>>
          OBVIOUS
        <4>3. path'[d] = <<d>>
          <5> HIDE DEF n
          <5> QED
            BY <1>6, <3>1, <3>2, <3>5, <4>2
        <4> QED
          BY <3>4, <4>1, <4>3
      <3>6. CASE q # a
        <4>1. parent'[d] = q /\ q \in rows \ {a}
          BY <1>2, <1>4, <3>1, <3>6
        <4>2. path'[q] = Below(q, n)
          BY <1>1, <1>3, <3>1, <3>6, <4>1
        <4> HIDE DEF q, n
        <4> QED
          BY <3>1, <3>2, <3>4, <4>1, <4>2
      <3> QED
        BY <3>5, <3>6
    <2>3. CASE d \notin Q
      <3>1. path'[d] = path[d]
        BY <1>3, <2>1, <2>3
      <3>2. parent[d] \notin Q
        BY <1>1, <2>3, ParentUnder
      <3>3. parent[d] # a /\ parent'[d] = parent[d]
        BY <1>2, <1>4, <3>2
      <3>4. parent[d] # NoArticle => path'[parent[d]] = path[parent[d]]
        BY <1>1, <1>3, <2>1, <3>2
      <3> QED
        BY <2>1, <3>1, <3>3, <3>4 DEF PathUnder
    <2> QED
      BY <2>2, <2>3
  <1> QED
    BY <1>7, <1>8 DEF TreeIntact, PathsFollowParents, DepthBounded, PathUnder

-----------------------------------------------------------------------------
(* Requests.                                                               *)

Local == [step : Steps, op : Ops, article : Ids \cup {NoArticle},
          to : Ids \cup {NoArticle}, newPath : Seq(Ids),
          image : Images \cup {NoImage}, keys : SUBSET Images]

\* The records a request can hold.
LEMMA LocalType ==
  /\ \A x \in Local :
        /\ x.step \in Steps /\ x.op \in Ops
        /\ x.article \in Ids \cup {NoArticle} /\ x.to \in Ids \cup {NoArticle}
        /\ x.newPath \in Seq(Ids)
        /\ x.image \in Images \cup {NoImage} /\ x.keys \in SUBSET Images
  /\ \A step \in Steps, op \in Ops, a, p \in Ids \cup {NoArticle},
        i \in Images \cup {NoImage}, keys \in SUBSET Images :
            At(step, op, a, p, i, keys) \in Local
  /\ Idle \in Local
  /\ TypeOK => req \in [Requests -> Local] /\ TreeType
  <1>1. <<>> \in Seq(Ids)
    OBVIOUS
  <1>2. \A step \in Steps, op \in Ops, a, p \in Ids \cup {NoArticle},
           i \in Images \cup {NoImage}, keys \in SUBSET Images :
               At(step, op, a, p, i, keys) \in Local
    BY <1>1 DEF At, Local
  <1>3. /\ "idle" \in Steps /\ "none" \in Ops /\ NoArticle \in Ids \cup {NoArticle}
        /\ NoImage \in Images \cup {NoImage} /\ {} \in SUBSET Images
    BY DEF Steps, Ops
  <1>4. Idle \in Local
    BY <1>2, <1>3 DEF Idle
  <1>5. TypeOK => req \in [Requests -> Local] /\ TreeType
    BY DEF TypeOK, Local, TreeType
  <1>6. \A x \in Local :
          /\ x.step \in Steps /\ x.op \in Ops
          /\ x.article \in Ids \cup {NoArticle} /\ x.to \in Ids \cup {NoArticle}
          /\ x.newPath \in Seq(Ids)
          /\ x.image \in Images \cup {NoImage} /\ x.keys \in SUBSET Images
    BY DEF Local
  <1> QED
    BY <1>2, <1>4, <1>5, <1>6

\* What the ways of going on do to the requests.
LEMMA Replaced ==
  ASSUME TypeOK, NEW r \in Requests, NEW x \in Local, req' = [req EXCEPT ![r] = x]
  PROVE  /\ req' \in [Requests -> Local] /\ req'[r] = x
         /\ \A s \in Requests \ {r} : req'[s] = req[s]
  <1>1. req \in [Requests -> Local]
    BY LocalType
  <1> QED
    BY <1>1

LEMMA Begins ==
  ASSUME TypeOK, NEW r \in Requests, NEW x \in Local, Begin(r, x)
  PROVE  /\ req' \in [Requests -> Local] /\ req'[r] = x /\ req[r].step = "idle"
         /\ \A s \in Requests \ {r} : req'[s] = req[s]
  BY Replaced DEF Begin

LEMMA Finishes ==
  ASSUME TypeOK, NEW r \in Requests, Finish(r)
  PROVE  /\ req' \in [Requests -> Local]
         /\ \A s \in Requests \ {r} : req'[s] = req[s]
         /\ req'[r].step = "idle" /\ req'[r].op = "none" /\ req'[r].image = NoImage
  <1>1. Idle.step = "idle" /\ Idle.op = "none" /\ Idle.image = NoImage
    BY DEF Idle, At
  <1> QED
    BY <1>1, Replaced, LocalType DEF Finish

LEMMA GoesTo ==
  ASSUME TypeOK, NEW r \in Requests, NEW step \in Steps, Goto(r, step)
  PROVE  /\ req' \in [Requests -> Local]
         /\ \A s \in Requests \ {r} : req'[s] = req[s]
         /\ req'[r].step = step /\ req'[r].op = req[r].op
         /\ req'[r].article = req[r].article /\ req'[r].to = req[r].to
         /\ req'[r].newPath = req[r].newPath
         /\ req'[r].image = req[r].image /\ req'[r].keys = req[r].keys
  <1> DEFINE x == req[r]
             y == [x EXCEPT !.step = step]
  <1>1. x \in Local
    BY LocalType
  <1> HIDE DEF x
  <1>2. /\ y \in Local
        /\ y.step = step /\ y.op = x.op /\ y.article = x.article /\ y.to = x.to
        /\ y.newPath = x.newPath /\ y.image = x.image /\ y.keys = x.keys
    BY <1>1 DEF Local
  <1>3. req' = [req EXCEPT ![r] = y]
    BY DEF Goto, x
  <1> HIDE DEF y
  <1>4. /\ req' \in [Requests -> Local] /\ req'[r] = y
        /\ \A s \in Requests \ {r} : req'[s] = req[s]
    BY <1>2, <1>3, Replaced
  <1> QED
    BY <1>2, <1>4 DEF x

-----------------------------------------------------------------------------
(* What a step leaves alone.                                               *)

\* Only r moves.
Alone(r) == \A s \in Requests \ {r} : req'[s] = req[s]

\* A step that does not change the tree.
LEMMA TreeFrame ==
  ASSUME TypeOK, TreeInv, NEW r \in Requests, Alone(r),
         UNCHANGED <<issued, rows, parent, path>>,
         \A s \in Requests \ {r} : lock = s => lock' = s,
         InTree(r)', KnowsTree(r)',
         req'[r].op = "create" =>
            \A s \in Requests \ {r} : req[s].op = "create" => req[s].article # req'[r].article
  PROVE  TreeInv'
  <1>1. TreeIntact'
    <2>1. TreeIntact
      BY DEF TreeInv
    <2> QED
      BY <2>1 DEF TreeIntact, PathsFollowParents, DepthBounded, PathUnder
  <1>2. ASSUME NEW s \in Requests PROVE InTree(s)' /\ KnowsTree(s)'
    <2>1. CASE s = r
      BY <2>1
    <2>2. CASE s # r
      <3>1. req'[s] = req[s] /\ (lock = s => lock' = s)
        BY <2>2 DEF Alone
      <3>2. InTree(s) /\ KnowsTree(s)
        BY DEF TreeInv
      <3>3. InTree(s)'
        BY <3>1, <3>2 DEF InTree, NewRoot
      <3>4. KnowsTree(s)'
        BY <3>1, <3>2 DEF KnowsTree, PathUnder, Under
      <3> QED
        BY <3>3, <3>4
    <2> QED
      BY <2>1, <2>2
  <1>3. CreatesApart'
    <2>1. CreatesApart
      BY DEF TreeInv
    <2> QED
      BY <2>1 DEF CreatesApart, Alone
  <1> QED
    BY <1>1, <1>2, <1>3 DEF TreeInv

\* ... and whose request is not in the tree afterwards.
LEMMA TreeOutside ==
  ASSUME TypeOK, TreeInv, NEW r \in Requests, Alone(r),
         UNCHANGED <<issued, rows, parent, path>>,
         \A s \in Requests \ {r} : lock = s => lock' = s,
         req'[r].step \notin {"lock", "check", "write"}, req'[r].op # "create"
  PROVE  TreeInv'
  <1>1. InTree(r)'
    BY DEF InTree
  <1>2. KnowsTree(r)'
    BY DEF KnowsTree
  <1> QED
    BY <1>1, <1>2, TreeFrame

\* A request that has the lock or not gives up its own lock only.
LEMMA Unlocks ==
  ASSUME NEW r \in Requests, Unlock(r) \/ UNCHANGED lock
  PROVE  /\ \A s \in Requests \ {r} : lock = s => lock' = s
         /\ lock \in Requests \cup {NoRequest} => lock' \in Requests \cup {NoRequest}
  BY DEF Unlock

\* What keeps a row settled: it may go, its object may not go before it.
LEMMA StaysSettled ==
  ASSUME NEW r \in Requests, Alone(r), NEW i \in Images, Settled(i),
         image'[i] \in {image[i], NoRow},
         i \in stored => i \in stored' \/ image'[i] = NoRow,
         cut \subseteq cut',
         req[r].op = "upload" /\ req[r].image = i =>
            \/ req'[r].op = "upload" /\ req'[r].image = i
            \/ i \in cut'
            \/ image'[i] = NoRow
  PROVE  Settled(i)'
  <1>1. CASE image[i] = NoRow \/ image'[i] = NoRow
    BY <1>1 DEF Settled
  <1>2. CASE image[i].url /\ i \in stored
    BY <1>2 DEF Settled
  <1>3. CASE i \in cut
    BY <1>3 DEF Settled
  <1>4. CASE Uploading(i)
    <2>1. PICK s \in Requests : req[s].op = "upload" /\ req[s].image = i
      BY <1>4 DEF Uploading
    <2>2. CASE s = r
      BY <2>1, <2>2 DEF Settled, Uploading
    <2>3. CASE s # r
      <3>1. req'[s] = req[s]
        BY <2>3 DEF Alone
      <3>2. \E q \in Requests : req'[q].op = "upload" /\ req'[q].image = i
        BY <2>1, <3>1
      <3> QED
        BY <3>2 DEF Settled, Uploading
    <2> QED
      BY <2>2, <2>3
  <1> QED
    BY <1>1, <1>2, <1>3, <1>4 DEF Settled

\* The galleries do not grow, and a new article's is empty.
LEMMA GalleryFrame ==
  ASSUME TypeOK, GalleryBounded, IsFiniteSet(used),
         \A i \in Images : image'[i].of \in {image[i].of, NoArticle},
         \A r \in Requests : req'[r].step = "place" =>
            req[r].step = "place" /\ req[r].article = req'[r].article,
         rows' \subseteq Ids
  PROVE  GalleryBounded'
  <1> SUFFICES ASSUME NEW a \in rows'
               PROVE  Cardinality(ImagesOf(a)') + Cardinality(Unplaced(a)')
                        < MaxImages + Cardinality(Requests)
    BY DEF GalleryBounded, ImagesOf, Unplaced
  <1>1. a # NoArticle /\ a \in Ids
    BY NullAssumption
  <1>2. ImagesOf(a)' \subseteq ImagesOf(a)
    BY <1>1 DEF ImagesOf
  <1>3. Unplaced(a)' \subseteq Unplaced(a) /\ Unplaced(a) \subseteq Requests
    BY DEF Unplaced
  <1>4. ImagesOf(a) \subseteq used
    BY <1>1 DEF ImagesOf, TypeOK, NoRow
  <1>5. /\ IsFiniteSet(ImagesOf(a)) /\ IsFiniteSet(Unplaced(a))
        /\ Cardinality(Requests) \in Nat /\ Cardinality(Unplaced(a)) <= Cardinality(Requests)
    BY <1>3, <1>4, FiniteAssumption, FS_Subset, FS_CardinalityType
  <1>6. /\ Cardinality(ImagesOf(a)') <= Cardinality(ImagesOf(a))
        /\ Cardinality(Unplaced(a)') <= Cardinality(Unplaced(a))
        /\ IsFiniteSet(ImagesOf(a)') /\ IsFiniteSet(Unplaced(a)')
    BY <1>2, <1>3, <1>5, FS_Subset
  <1>7. /\ Cardinality(ImagesOf(a)') \in Nat /\ Cardinality(ImagesOf(a)) \in Nat
        /\ Cardinality(Unplaced(a)') \in Nat /\ Cardinality(Unplaced(a)) \in Nat
    BY <1>5, <1>6, FS_CardinalityType
  <1>8. CASE a \in rows
    <2>1. Cardinality(ImagesOf(a)) + Cardinality(Unplaced(a)) < MaxImages + Cardinality(Requests)
      BY <1>8 DEF GalleryBounded
    <2> QED
      BY <1>5, <1>6, <1>7, <2>1, LimitAssumption
  <1>9. CASE a \notin rows
    <2>1. ImagesOf(a) = {}
      BY <1>1, <1>9 DEF ImagesOf, TypeOK, NoRow
    <2>2. Cardinality(ImagesOf(a)) = 0
      BY <2>1, FS_EmptySet
    <2> QED
      BY <1>5, <1>6, <1>7, <2>2, LimitAssumption
  <1> QED
    BY <1>8, <1>9

\* What the other requests have, they keep, if rows keep their article until
\* they go, and objects go after their row or with their uploader.
LEMMA OthersHave ==
  ASSUME TypeOK, ImageInv, NEW r \in Requests, NEW s \in Requests \ {r}, Alone(r),
         used \subseteq used',
         \A i \in Images : image'[i].of = NoArticle => image'[i] = NoRow,
         \A i \in used : image'[i].of \in {image[i].of, NoArticle},
         \A i \in stored : \/ i \in stored' \/ image'[i] = NoRow
                           \/ req[r].op = "upload" /\ req[r].image = i
  PROVE  HasImage(s)'
  <1>1. req'[s] = req[s] /\ HasImage(s) /\ used \subseteq Images
    BY DEF Alone, ImageInv, TypeOK
  <1>2. \A i \in used : image[i] = NoRow => image'[i] = NoRow
    <2>1. NoRow.of = NoArticle
      BY DEF NoRow
    <2> QED
      BY <1>1, <2>1
  <1>3. ASSUME req[s].step = "link"
        PROVE  image'[req[s].image] = NoRow \/ req[s].image \in stored'
    <2> DEFINE i == req[s].image
    <2>1. i \in used /\ req[s].op = "upload" /\ (image[i] = NoRow \/ i \in stored)
      BY <1>1, <1>3 DEF HasImage
    <2>2. i # NoImage
      BY <1>1, <2>1, NullAssumption
    <2>3. ~(req[r].op = "upload" /\ req[r].image = i)
      BY <2>1, <2>2 DEF ImageInv, UploadsApart
    <2> QED
      BY <1>2, <2>1, <2>3
  <1>4. ASSUME req[s].op = "delete", req[s].step # "remove", NEW i \in req[s].keys
        PROVE  i \in used' /\ image'[i].of \in {NoArticle, req[s].article}
    BY <1>1, <1>4 DEF HasImage
  <1>5. ASSUME req[s].step = "remove", NEW i \in req[s].keys
        PROVE  i \in used' /\ image'[i] = NoRow
    BY <1>1, <1>2, <1>5 DEF HasImage
  <1>6. req[s].step = "drop" => req[s].image \in used' /\ req[s].keys = {req[s].image}
    BY <1>1 DEF HasImage
  <1>7. /\ req[s].step \in {"upload", "link", "unstore", "unplace"} =>
               req[s].op = "upload" /\ req[s].image \in used'
        /\ req[s].op = "upload" =>
               req[s].step \in {"place", "upload", "link", "unstore", "unplace"}
        /\ req[s].step = "place" => req[s].op = "upload" /\ req[s].image = NoImage
    BY <1>1 DEF HasImage
  <1> QED
    BY <1>1, <1>3, <1>4, <1>5, <1>6, <1>7 DEF HasImage

\* The images part of the invariant, from what a step does.
LEMMA ImageStep ==
  ASSUME TypeOK, ImageInv, NEW r \in Requests, Alone(r),
         used \subseteq used', IsFiniteSet(used'),
         \A i \in Images : image'[i].of = NoArticle => image'[i] = NoRow,
         \A i \in used : image'[i].of \in {image[i].of, NoArticle},
         \A i \in stored : \/ i \in stored' \/ image'[i] = NoRow
                           \/ req[r].op = "upload" /\ req[r].image = i,
         HasImage(r)',
         req'[r].op = "upload" /\ req'[r].image # NoImage =>
            \/ req[r].op = "upload" /\ req[r].image = req'[r].image
            \/ req'[r].image \notin used,
         \A i \in Images : Settled(i)',
         GalleryBounded'
  PROVE  ImageInv'
  <1>1. ASSUME NEW s \in Requests PROVE HasImage(s)'
    <2>1. CASE s = r
      BY <2>1
    <2>2. CASE s # r
      BY <2>2, OthersHave
    <2> QED
      BY <2>1, <2>2
  <1>2. ASSUME NEW s \in Requests \ {r}, req[s].op = "upload", req[s].image # NoImage,
               req'[r].op = "upload", req'[r].image = req[s].image
        PROVE  FALSE
    <2>1. req[s].image \in used
      BY <1>2 DEF ImageInv, HasImage
    <2> QED
      BY <1>2, <2>1 DEF ImageInv, UploadsApart
  <1>3. UploadsApart'
    <2> SUFFICES ASSUME NEW s \in Requests, NEW t \in Requests,
                        req'[s].op = "upload", req'[t].op = "upload",
                        req'[s].image = req'[t].image, req'[s].image # NoImage, s # t
                 PROVE  FALSE
      BY DEF UploadsApart
    <2>1. CASE s = r
      BY <1>2, <2>1 DEF Alone
    <2>2. CASE t = r
      BY <1>2, <2>2 DEF Alone
    <2>3. CASE s # r /\ t # r
      BY <2>3 DEF Alone, ImageInv, UploadsApart
    <2> QED
      BY <2>1, <2>2, <2>3
  <1> QED
    BY <1>1, <1>3 DEF ImageInv

\* A step that does nothing about images.
LEMMA ImagesUntouched ==
  ASSUME TypeOK, ImageInv, NEW r \in Requests, Alone(r),
         image' = image, stored' = stored, used' = used, cut' = cut, rows' \subseteq Ids,
         req[r].op = "upload" => req[r].image = NoImage,
         req'[r].op # "upload", req'[r].step # "place", HasImage(r)'
  PROVE  ImageInv'
  <1>1. \A i \in Images : Settled(i)'
    BY StaysSettled, NullAssumption DEF ImageInv
  <1>2. GalleryBounded'
    <2>1. \A s \in Requests : req'[s].step = "place" =>
            req[s].step = "place" /\ req[s].article = req'[s].article
      BY DEF Alone
    <2>2. \A i \in Images : image'[i].of \in {image[i].of, NoArticle}
      OBVIOUS
    <2> QED
      BY <2>1, <2>2, GalleryFrame DEF ImageInv
  <1>3. used \subseteq Images /\ IsFiniteSet(used')
    BY DEF TypeOK, ImageInv
  <1>4. \A i \in Images : image'[i].of = NoArticle => image'[i] = NoRow
    BY DEF ImageInv
  <1> QED
    BY <1>1, <1>2, <1>3, <1>4, ImageStep

-----------------------------------------------------------------------------
(* The initial states.                                                     *)

LEMMA InitInv == Init => IInv
  <1> SUFFICES ASSUME Init PROVE IInv
    OBVIOUS
  <1>1. /\ Idle.step = "idle" /\ Idle.op = "none" /\ Idle \in Local
        /\ \A r \in Requests : req[r] = Idle
    BY LocalType DEF Init, Idle, At
  <1>2. <<>> \in Seq(Ids) /\ NoRow \in [of : Ids \cup {NoArticle}, url : BOOLEAN]
    BY DEF NoRow
  <1>3. TypeOK
    <2>1. req \in [Requests -> Local]
      BY <1>1 DEF Init
    <2> QED
      BY <1>2, <2>1 DEF Init, TypeOK, Local
  <1>4. TreeInv
    <2>1. TreeIntact
      BY DEF Init, TreeIntact, PathsFollowParents, DepthBounded
    <2>2. CreatesApart
      BY <1>1 DEF CreatesApart
    <2>3. \A r \in Requests : InTree(r) /\ KnowsTree(r)
      BY <1>1 DEF InTree, KnowsTree
    <2> QED
      BY <2>1, <2>2, <2>3 DEF TreeInv
  <1>5. ImageInv
    <2>1. GalleryBounded
      BY DEF Init, GalleryBounded
    <2>2. UploadsApart
      BY <1>1 DEF UploadsApart
    <2>3. \A r \in Requests : HasImage(r)
      BY <1>1 DEF HasImage
    <2>4. \A i \in Images : Settled(i) /\ (image[i].of = NoArticle => image[i] = NoRow)
      BY DEF Init, Settled
    <2>5. IsFiniteSet(used)
      BY FS_EmptySet DEF Init
    <2> QED
      BY <2>1, <2>2, <2>3, <2>4, <2>5 DEF ImageInv
  <1> QED
    BY <1>3, <1>4, <1>5 DEF IInv

-----------------------------------------------------------------------------
(* The steps that prepare a change of the tree.                            *)

\* A request that changes no table but its own record keeps the types.
LEMMA TypeFrame ==
  ASSUME TypeOK, NEW r \in Requests, req' \in [Requests -> Local],
         UNCHANGED <<issued, rows, parent, path, imageVars>>,
         lock' \in Requests \cup {NoRequest}
  PROVE  TypeOK'
  BY DEF TypeOK, Local, imageVars

\* A request that is idle uploads nothing.
LEMMA IdleHolds ==
  ASSUME ImageInv, NEW r \in Requests, req[r].step = "idle"
  PROVE  req[r].op # "upload"
  BY DEF ImageInv, HasImage

LEMMA StartCreateInv ==
  ASSUME IInv, NEW r \in Requests, NEW a \in Ids, NEW p \in Ids \cup {NoArticle},
         StartCreate(r, a, p)
  PROVE  IInv'
  <1> DEFINE x == At(IF p = NoArticle THEN "check" ELSE "lock", "create", a, p, NoImage, {})
  <1>1. /\ TypeOK /\ TreeInv /\ ImageInv
        /\ a \notin issued /\ \A s \in Requests : req[s].op = "create" => req[s].article # a
        /\ Begin(r, x) /\ UNCHANGED <<treeVars, imageVars>>
    BY DEF IInv, StartCreate
  <1>2. /\ x \in Local
        /\ x.step = (IF p = NoArticle THEN "check" ELSE "lock") /\ x.op = "create"
        /\ x.article = a /\ x.to = p
    <2>1. (IF p = NoArticle THEN "check" ELSE "lock") \in Steps /\ "create" \in Ops
      BY DEF Steps, Ops
    <2>2. <<>> \in Seq(Ids)
      OBVIOUS
    <2> QED
      BY <2>1, <2>2 DEF At, Local
  <1> HIDE DEF x
  <1>3. /\ req' \in [Requests -> Local] /\ req'[r] = x /\ req[r].step = "idle"
        /\ \A s \in Requests \ {r} : req'[s] = req[s]
    BY <1>1, <1>2, Begins
  <1>4. TypeOK'
    BY <1>1, <1>3, TypeFrame DEF TypeOK, treeVars
  <1>5. TreeInv'
    <2>1. InTree(r)'
      BY <1>1, <1>2, <1>3 DEF InTree, NewRoot, TreeOps, treeVars
    <2>2. KnowsTree(r)'
      BY <1>2, <1>3 DEF KnowsTree
    <2> QED
      BY <1>1, <1>2, <1>3, <2>1, <2>2, TreeFrame DEF Alone, treeVars
  <1>6. ImageInv'
    <2>1. HasImage(r)'
      BY <1>2, <1>3 DEF HasImage
    <2> QED
      BY <1>1, <1>2, <1>3, <2>1, IdleHolds, ImagesUntouched DEF Alone, treeVars, imageVars, TypeOK
  <1> QED
    BY <1>4, <1>5, <1>6 DEF IInv

LEMMA StartMoveInv ==
  ASSUME IInv, NEW r \in Requests, NEW a \in Ids, NEW p \in Ids \cup {NoArticle},
         StartMove(r, a, p)
  PROVE  IInv'
  <1> DEFINE x == At("lock", "move", a, p, NoImage, {})
  <1>1. /\ TypeOK /\ TreeInv /\ ImageInv
        /\ Begin(r, x) /\ UNCHANGED <<treeVars, imageVars>>
    BY DEF IInv, StartMove
  <1>2. x \in Local /\ x.step = "lock" /\ x.op = "move"
    <2>1. "lock" \in Steps /\ "move" \in Ops
      BY DEF Steps, Ops
    <2>2. <<>> \in Seq(Ids)
      OBVIOUS
    <2> QED
      BY <2>1, <2>2 DEF At, Local
  <1> HIDE DEF x
  <1>3. /\ req' \in [Requests -> Local] /\ req'[r] = x /\ req[r].step = "idle"
        /\ \A s \in Requests \ {r} : req'[s] = req[s]
    BY <1>1, <1>2, Begins
  <1>4. TypeOK'
    BY <1>1, <1>3, TypeFrame DEF TypeOK, treeVars
  <1>5. TreeInv'
    <2>1. InTree(r)'
      BY <1>2, <1>3 DEF InTree, TreeOps
    <2>2. KnowsTree(r)'
      BY <1>2, <1>3 DEF KnowsTree
    <2> QED
      BY <1>1, <1>2, <1>3, <2>1, <2>2, TreeFrame DEF Alone, treeVars
  <1>6. ImageInv'
    <2>1. HasImage(r)'
      BY <1>2, <1>3 DEF HasImage
    <2> QED
      BY <1>1, <1>2, <1>3, <2>1, IdleHolds, ImagesUntouched DEF Alone, treeVars, imageVars, TypeOK
  <1> QED
    BY <1>4, <1>5, <1>6 DEF IInv

LEMMA StartDeleteInv ==
  ASSUME IInv, NEW r \in Requests, NEW a \in Ids, StartDelete(r, a)
  PROVE  IInv'
  <1> DEFINE x == At("lock", "delete", a, NoArticle, NoImage, ImagesOf(a))
  <1>1. /\ TypeOK /\ TreeInv /\ ImageInv /\ a \in rows
        /\ Begin(r, x) /\ UNCHANGED <<treeVars, imageVars>>
    BY DEF IInv, StartDelete
  <1>2. /\ x \in Local /\ x.step = "lock" /\ x.op = "delete" /\ x.article = a
        /\ x.keys = ImagesOf(a)
    <2>1. "lock" \in Steps /\ "delete" \in Ops /\ ImagesOf(a) \in SUBSET Images
      BY DEF Steps, Ops, ImagesOf
    <2>2. <<>> \in Seq(Ids)
      OBVIOUS
    <2> QED
      BY <2>1, <2>2 DEF At, Local
  <1> HIDE DEF x
  <1>3. /\ req' \in [Requests -> Local] /\ req'[r] = x /\ req[r].step = "idle"
        /\ \A s \in Requests \ {r} : req'[s] = req[s]
    BY <1>1, <1>2, Begins
  <1>4. TypeOK'
    BY <1>1, <1>3, TypeFrame DEF TypeOK, treeVars
  <1>5. TreeInv'
    <2>1. InTree(r)'
      BY <1>2, <1>3 DEF InTree, TreeOps
    <2>2. KnowsTree(r)'
      BY <1>2, <1>3 DEF KnowsTree
    <2> QED
      BY <1>1, <1>2, <1>3, <2>1, <2>2, TreeFrame DEF Alone, treeVars
  <1>6. ImageInv'
    <2>1. \A i \in ImagesOf(a) : i \in used /\ image[i].of = a
      BY <1>1, NullAssumption DEF ImagesOf, TypeOK, NoRow
    <2>2. HasImage(r)'
      BY <1>1, <1>2, <1>3, <2>1 DEF HasImage, imageVars
    <2> QED
      BY <1>1, <1>2, <1>3, <2>2, IdleHolds, ImagesUntouched DEF Alone, treeVars, imageVars, TypeOK
  <1> QED
    BY <1>4, <1>5, <1>6 DEF IInv

LEMMA LockTreeInv ==
  ASSUME IInv, NEW r \in Requests, LockTree(r)
  PROVE  IInv'
  <1> DEFINE step == IF req[r].op = "delete" THEN "write" ELSE "check"
  <1>1. /\ TypeOK /\ TreeInv /\ ImageInv /\ InTree(r) /\ HasImage(r)
        /\ req[r].step = "lock" /\ lock = NoRequest /\ lock' = r
        /\ Goto(r, step) /\ UNCHANGED <<issued, rows, parent, path, imageVars>>
    BY DEF IInv, LockTree, TreeInv, ImageInv
  <1>2. step \in Steps /\ step \in {"check", "write"} /\ (step = "write" <=> req[r].op = "delete")
    BY DEF Steps
  <1> HIDE DEF step
  <1>3. /\ req' \in [Requests -> Local]
        /\ \A s \in Requests \ {r} : req'[s] = req[s]
        /\ req'[r].step = step /\ req'[r].op = req[r].op
        /\ req'[r].article = req[r].article /\ req'[r].to = req[r].to
        /\ req'[r].newPath = req[r].newPath
        /\ req'[r].image = req[r].image /\ req'[r].keys = req[r].keys
    BY <1>1, <1>2, GoesTo
  <1>4. TypeOK'
    BY <1>1, <1>3, TypeFrame
  <1>5. TreeInv'
    <2>1. InTree(r)'
      BY <1>1, <1>2, <1>3 DEF InTree
    <2>2. KnowsTree(r)'
      BY <1>2, <1>3 DEF KnowsTree
    <2>3. \A s \in Requests \ {r} : lock = s => lock' = s
      BY <1>1, NullAssumption
    <2>4. req'[r].op = "create" =>
            \A s \in Requests \ {r} : req[s].op = "create" => req[s].article # req'[r].article
      BY <1>1, <1>3 DEF TreeInv, CreatesApart
    <2> QED
      BY <1>1, <1>3, <2>1, <2>2, <2>3, <2>4, TreeFrame DEF Alone
  <1>6. ImageInv'
    <2>1. req[r].op # "upload"
      BY <1>1 DEF HasImage
    <2>2. HasImage(r)'
      BY <1>1, <1>2, <1>3, <2>1 DEF HasImage, imageVars
    <2> QED
      BY <1>1, <1>2, <1>3, <2>1, <2>2, ImagesUntouched DEF Alone, imageVars, TypeOK
  <1> QED
    BY <1>4, <1>5, <1>6 DEF IInv

\* A request that is done does not disturb the rest, whatever it held.
LEMMA DoneInv ==
  ASSUME IInv, NEW r \in Requests, Finish(r), Unlock(r) \/ UNCHANGED lock,
         req[r].op = "upload" => req[r].image = NoImage,
         UNCHANGED <<issued, rows, parent, path, imageVars>>
  PROVE  IInv'
  <1>1. TypeOK /\ TreeInv /\ ImageInv
    BY DEF IInv
  <1>2. /\ req' \in [Requests -> Local]
        /\ \A s \in Requests \ {r} : req'[s] = req[s]
        /\ req'[r].step = "idle" /\ req'[r].op = "none" /\ req'[r].image = NoImage
    BY <1>1, Finishes
  <1>3. TypeOK'
    BY <1>1, <1>2, TypeFrame, Unlocks DEF TypeOK
  <1>4. TreeInv'
    BY <1>1, <1>2, Unlocks, TreeOutside DEF Alone
  <1>5. HasImage(r)'
    BY <1>2 DEF HasImage
  <1>6. ImageInv'
    BY <1>1, <1>2, <1>5, ImagesUntouched DEF Alone, imageVars, TypeOK
  <1> QED
    BY <1>3, <1>4, <1>6 DEF IInv

\* The check leaves what the write relies on.
LEMMA CheckTreeInv ==
  ASSUME IInv, NEW r \in Requests, CheckTree(r)
  PROVE  IInv'
  <1> DEFINE a == req[r].article
             p == req[r].to
             new == PathUnder(a, p)
             x == [req[r] EXCEPT !.step = "write", !.newPath = new]
  <1>1. /\ TypeOK /\ TreeInv /\ ImageInv /\ InTree(r) /\ HasImage(r)
        /\ req[r].step = "check" /\ req[r].op \in {"create", "move"}
        /\ UNCHANGED <<issued, rows, parent, path, imageVars>>
    BY DEF IInv, CheckTree, TreeInv, ImageInv, InTree, TreeOps
  <1>2. CASE Finish(r) /\ Unlock(r)
    BY <1>1, <1>2, DoneInv
  <1>3. CASE /\ req[r].op = "move" => a \in rows
             /\ ParentAllowed(a, p) /\ ~TooDeep(a, p)
             /\ req' = [req EXCEPT ![r] = x] /\ UNCHANGED lock
    <2>1. /\ TreeType /\ TreeIntact /\ PathsFollowParents /\ req \in [Requests -> Local]
          /\ rows \subseteq issued
      BY <1>1, LocalType DEF TreeInv, TreeIntact, TypeOK
    <2>2. p = NoArticle \/ p \in rows
      BY <1>3 DEF ParentAllowed
    <2>3. a \in Ids /\ (req[r].op = "create" => a \notin rows)
      BY <1>1, <1>3, <2>1 DEF InTree, TreeType
    <2>4. new \in Seq(Ids) /\ Len(new) \in Nat
      BY <2>1, <2>2, <2>3, NewPathType
    <2>5. Len(new) + (IF a \in rows THEN Height(a) ELSE 0) <= MaxDepth
      <3>1. ~(Len(new) + (IF a \in rows THEN Height(a) ELSE 0) > MaxDepth)
        BY <1>3 DEF TooDeep
      <3>2. a \in rows => Height(a) \in Nat
        BY <2>1, HeightBounds
      <3> HIDE DEF new
      <3> QED
        BY <2>4, <3>1, <3>2, LimitAssumption
    <2>6. a \in rows => p \notin Under(path[a])
      <3> SUFFICES ASSUME a \in rows, p \in Under(path[a]) PROVE FALSE
        OBVIOUS
      <3>1. p \in rows /\ p # NoArticle
        BY <2>1, NullAssumption DEF Under, TreeType
      <3>2. a \notin Ancestors(p)
        BY <1>3, <3>1 DEF ParentAllowed
      <3> QED
        BY <2>1, <3>2, AncestorsFound
    <2>7. ASSUME a \in rows
          PROVE  /\ Len(new) <= MaxDepth
                 /\ \A d \in Under(path[a]) : Len(new) + Len(path[d]) - Len(path[a]) <= MaxDepth
      <3>1. Height(a) \in Nat /\ Len(new) + Height(a) <= MaxDepth
        BY <2>1, <2>5, <2>7, HeightBounds
      <3>2. ASSUME NEW d \in Under(path[a])
            PROVE  Len(new) + Len(path[d]) - Len(path[a]) <= MaxDepth
        <4>1. Len(path[d]) - Len(path[a]) <= Height(a)
          BY <2>1, <2>7, HeightBounds
        <4>2. Len(path[d]) \in Nat /\ Len(path[a]) \in Nat
          BY <2>1, <2>7, UnderSelf, PathEnds
        <4> DEFINE l == Len(path[d])
                   n == Len(path[a])
                   m == Len(new)
        <4>3. l \in Nat /\ n \in Nat /\ m \in Nat /\ l - n <= Height(a)
          BY <2>4, <4>1, <4>2
        <4>4. m + Height(a) <= MaxDepth
          BY <3>1
        <4> HIDE DEF l, n, m
        <4>5. m + l - n <= MaxDepth
          BY <3>1, <4>3, <4>4, LimitAssumption
        <4> QED
          BY <4>5 DEF l, n, m
      <3> HIDE DEF new
      <3> QED
        BY <2>4, <3>1, <3>2, LimitAssumption
    <2>8. a \notin rows => Len(new) <= MaxDepth
      BY <2>4, <2>5
    <2>9. /\ x \in Local /\ x.step = "write" /\ x.newPath = new /\ x.op = req[r].op
          /\ x.article = a /\ x.to = p /\ x.image = req[r].image /\ x.keys = req[r].keys
      <3> DEFINE y == req[r]
      <3>1. y \in Local /\ "write" \in Steps
        BY <2>1 DEF Steps
      <3> HIDE DEF y, new
      <3>2. LET z == [y EXCEPT !.step = "write", !.newPath = new]
            IN  /\ z \in Local /\ z.step = "write" /\ z.newPath = new /\ z.op = y.op
                /\ z.article = y.article /\ z.to = y.to /\ z.image = y.image /\ z.keys = y.keys
        BY <2>4, <3>1 DEF Local
      <3> QED
        BY <3>2 DEF y
    <2> HIDE DEF x
    <2>10. /\ req' \in [Requests -> Local] /\ req'[r] = x
           /\ \A s \in Requests \ {r} : req'[s] = req[s]
      BY <1>1, <1>3, <2>9, Replaced
    <2>11. TypeOK'
      BY <1>1, <1>3, <2>10, TypeFrame DEF TypeOK
    <2>12. TreeInv'
      <3>1. InTree(r)'
        BY <1>1, <1>3, <2>9, <2>10 DEF InTree, NewRoot, TreeOps
      <3>2. /\ \A b, q : PathUnder(b, q)' = PathUnder(b, q)
            /\ \A b : Under(path[b])' = Under(path[b])
        BY <1>1 DEF PathUnder, Under
      <3>3. KnowsTree(r)'
        <4>1. /\ req'[r].article = a /\ req'[r].to = p /\ req'[r].newPath = new
              /\ req'[r].op = req[r].op
          BY <2>9, <2>10
        <4>2. Len(new) <= MaxDepth
          BY <2>7, <2>8
        <4>3. req[r].op = "move" =>
                /\ a \in rows /\ p \notin Under(path[a])
                /\ \A d \in Under(path[a]) : Len(new) + Len(path[d]) - Len(path[a]) <= MaxDepth
          BY <1>3, <2>6, <2>7
        <4>4. new = PathUnder(a, p)
          OBVIOUS
        <4> HIDE DEF new, a, p
        <4> QED
          BY <1>1, <2>2, <3>2, <4>1, <4>2, <4>3, <4>4 DEF KnowsTree
      <3>4. req'[r].op = "create" =>
              \A s \in Requests \ {r} : req[s].op = "create" => req[s].article # req'[r].article
        BY <1>1, <2>9, <2>10 DEF TreeInv, CreatesApart
      <3> QED
        BY <1>1, <1>3, <2>10, <3>1, <3>3, <3>4, TreeFrame DEF Alone
    <2>13. ImageInv'
      <3>1. HasImage(r)'
        BY <1>1, <2>9, <2>10 DEF HasImage
      <3> QED
        BY <1>1, <2>9, <2>10, <3>1, ImagesUntouched DEF Alone, imageVars, TypeOK
    <2> QED
      BY <2>11, <2>12, <2>13 DEF IInv
  <1> QED
    BY <1>2, <1>3 DEF CheckTree

-----------------------------------------------------------------------------
(* The writes.                                                             *)

\* A new root is below nothing but itself: what others know stays known.
LEMMA NewRootDisturbsNobody ==
  ASSUME TypeOK, TreeIntact, NEW b \in Ids \ rows, NEW s \in Requests, KnowsTree(s),
         req'[s] = req[s], rows' = rows \cup {b}, path'[b] = <<b>>,
         \A d \in Ids \ {b} : path'[d] = path[d]
  PROVE  KnowsTree(s)'
  <1>1. TreeType /\ PathsFollowParents /\ rows \subseteq Ids
    BY LocalType DEF TreeIntact, TreeType
  <1>2. ASSUME NEW a \in rows
        PROVE  path'[a] = path[a] /\ Under(path[a])' = Under(path[a])
    <2> DEFINE w == path[a]
    <2>1. a # b /\ path'[a] = w
      BY <1>1
    <2>2. w[Len(w)] = a /\ Len(w) \in Nat \ {0}
      BY <1>1, PathEnds
    <2>3. ~(Len(<<b>>) >= Len(w) /\ SubSeq(<<b>>, 1, Len(w)) = w)
      <3> SUFFICES ASSUME Len(<<b>>) >= Len(w), SubSeq(<<b>>, 1, Len(w)) = w PROVE FALSE
        OBVIOUS
      <3>1. <<b>> \in Seq(Ids) /\ Len(<<b>>) = 1 /\ <<b>>[1] = b
        OBVIOUS
      <3>2. Len(w) = 1
        BY <2>2, <3>1
      <3>3. SubSeq(<<b>>, 1, 1) = <<b>>
        BY <3>1, SubSeqFull
      <3>4. w = <<b>>
        BY <3>2, <3>3
      <3> HIDE DEF w
      <3> QED
        BY <2>1, <2>2, <3>1, <3>4
    <2>4. Under(path[a])' = {d \in rows \cup {b} :
                               Len(path'[d]) >= Len(w) /\ SubSeq(path'[d], 1, Len(w)) = w}
      BY <2>1 DEF Under
    <2>5. ASSUME NEW d \in rows PROVE path'[d] = path[d]
      BY <1>1
    <2>6. Under(path[a]) = {d \in rows : Len(path[d]) >= Len(w) /\ SubSeq(path[d], 1, Len(w)) = w}
      BY DEF Under
    <2> HIDE DEF w
    <2>7. Under(path[a])' = Under(path[a])
      BY <2>3, <2>4, <2>5, <2>6
    <2> QED
      BY <2>1, <2>7 DEF w
  <1>3. \A a, p : p = NoArticle \/ p \in rows => PathUnder(a, p)' = PathUnder(a, p)
    BY <1>2 DEF PathUnder
  <1>4. \A a \in rows : \A d \in Under(path[a]) : d \in rows /\ path'[d] = path[d]
    BY <1>2 DEF Under
  <1> SUFFICES ASSUME req[s].step = "write", req[s].op # "delete"
               PROVE  KnowsTree(s)'
    BY DEF KnowsTree
  <1>5. PICK a, p, new : a = req[s].article /\ p = req[s].to /\ new = req[s].newPath
    OBVIOUS
  <1>6. /\ p = NoArticle \/ p \in rows
        /\ new = PathUnder(a, p) /\ Len(new) <= MaxDepth
        /\ req[s].op = "move" =>
               /\ a \in rows /\ p \notin Under(path[a])
               /\ \A d \in Under(path[a]) : Len(new) + Len(path[d]) - Len(path[a]) <= MaxDepth
    BY <1>5 DEF KnowsTree
  <1>7. /\ p = NoArticle \/ p \in rows'
        /\ new = PathUnder(a, p)' /\ Len(new) <= MaxDepth
    BY <1>3, <1>6
  <1>8. req[s].op = "move" =>
               /\ a \in rows' /\ p \notin Under(path[a])'
               /\ \A d \in Under(path[a])' :
                     Len(new) + Len(path'[d]) - Len(path'[a]) <= MaxDepth
    <2> SUFFICES ASSUME req[s].op = "move"
                 PROVE  /\ a \in rows' /\ p \notin Under(path[a])'
                        /\ \A d \in Under(path[a])' :
                              Len(new) + Len(path'[d]) - Len(path'[a]) <= MaxDepth
      OBVIOUS
    <2>1. a \in rows /\ path'[a] = path[a] /\ Under(path[a])' = Under(path[a])
      BY <1>2, <1>6
    <2>2. ASSUME NEW d \in Under(path[a])
          PROVE  Len(new) + Len(path'[d]) - Len(path'[a]) <= MaxDepth
      <3>1. path'[d] = path[d]
        BY <1>4, <2>1
      <3> QED
        BY <1>6, <2>1, <3>1
    <2> QED
      BY <1>6, <2>1, <2>2
  <1> QED
    BY <1>5, <1>7, <1>8 DEF KnowsTree

\* What a waiting new root knows depends on nothing.
LEMMA RootsKnow ==
  ASSUME NEW s \in Requests, KnowsTree(s), req'[s] = req[s],
         req[s].step = "write" /\ req[s].op # "delete" => NewRoot(s)
  PROVE  KnowsTree(s)'
  BY DEF KnowsTree, NewRoot, PathUnder

LEMMA WriteTreeInv ==
  ASSUME IInv, NEW r \in Requests, WriteTree(r)
  PROVE  IInv'
  <1>1. /\ TypeOK /\ TreeInv /\ ImageInv /\ InTree(r) /\ KnowsTree(r) /\ HasImage(r)
        /\ req[r].step = "write" /\ req[r].op \in {"create", "move"} /\ req[r].op # "upload"
        /\ Finish(r) /\ Unlock(r) /\ UNCHANGED imageVars
    BY DEF IInv, WriteTree, TreeInv, ImageInv
  <1>2. PICK a, p : a = req[r].article /\ p = req[r].to
    OBVIOUS
  <1>3. CASE UNCHANGED <<issued, rows, parent, path>>
    BY <1>1, <1>3, DoneInv
  <1>4. CASE /\ p = NoArticle \/ p \in rows
             /\ req[r].op = "move" => a \in rows
             /\ issued' = issued \cup {a} /\ rows' = rows \cup {a}
             /\ parent' = [parent EXCEPT ![a] = p] /\ SetPath(a, req[r].newPath)
    <2>1. /\ TreeType /\ TreeIntact /\ req \in [Requests -> Local] /\ rows \subseteq issued
          /\ issued \subseteq Ids
      BY <1>1, LocalType DEF TreeInv, TypeOK
    <2>2. /\ req[r].newPath = PathUnder(a, p) /\ Len(PathUnder(a, p)) <= MaxDepth
          /\ SetPath(a, PathUnder(a, p))
      BY <1>1, <1>2, <1>4 DEF KnowsTree
    <2>3. p \in Ids \cup {NoArticle}
      BY <1>4, <2>1
    <2>4. /\ req' \in [Requests -> Local]
          /\ \A s \in Requests \ {r} : req'[s] = req[s]
          /\ req'[r].step = "idle" /\ req'[r].op = "none" /\ req'[r].image = NoImage
      BY <1>1, Finishes
    <2>5. InTree(r)' /\ KnowsTree(r)' /\ HasImage(r)'
      BY <2>4 DEF InTree, KnowsTree, HasImage
    <2>6. /\ TreeIntact' /\ path' \in [Ids -> Seq(Ids)] /\ a \in Ids
          /\ issued' \subseteq Ids /\ rows' \subseteq issued'
          /\ \A s \in Requests \ {r} : req[s].op = "create" => req[s].article \notin issued'
          /\ \A s \in Requests \ {r} : KnowsTree(s)'
      <3>1. ASSUME NEW s \in Requests \ {r}
            PROVE  /\ KnowsTree(s) /\ InTree(s) /\ req'[s] = req[s]
                   /\ ~NewRoot(r) => /\ lock = r
                                     /\ req[s].step = "write" /\ req[s].op # "delete"
                                            => NewRoot(s)
        <4>1. KnowsTree(s) /\ InTree(s) /\ req'[s] = req[s]
          BY <1>1, <2>4 DEF TreeInv
        <4>2. ~NewRoot(r) => lock = r
          BY <1>1 DEF InTree
        <4> QED
          BY <4>1, <4>2 DEF InTree
      <3>2. CASE req[r].op = "create"
        <4>1. a \in Ids \ rows /\ a \in Ids \ issued
          BY <1>1, <1>2, <2>1, <3>2 DEF InTree
        <4>2. /\ TreeIntact' /\ path' \in [Ids -> Seq(Ids)]
              /\ path'[a] = PathUnder(a, p) /\ \A d \in Ids \ {a} : path'[d] = path[d]
          BY <1>4, <2>1, <2>2, <4>1, CreateKeepsTree
        <4>3. \A s \in Requests \ {r} :
                req[s].op = "create" => req[s].article # a /\ req[s].article \notin issued
          BY <1>1, <1>2, <3>2 DEF TreeInv, CreatesApart, InTree
        <4>4. ASSUME NEW s \in Requests \ {r} PROVE KnowsTree(s)'
          <5>1. CASE p = NoArticle
            <6>1. path'[a] = <<a>>
              BY <4>2, <5>1 DEF PathUnder
            <6> QED
              BY <1>1, <1>4, <2>1, <3>1, <4>1, <4>2, <6>1, NewRootDisturbsNobody
          <5>2. CASE p # NoArticle
            <6>1. ~NewRoot(r)
              BY <1>2, <5>2 DEF NewRoot
            <6> QED
              BY <3>1, <6>1, RootsKnow
          <5> QED
            BY <5>1, <5>2
        <4> QED
          BY <1>4, <2>1, <4>1, <4>2, <4>3, <4>4
      <3>3. CASE req[r].op = "move"
        <4>1. /\ a \in rows /\ a \in Ids /\ rows' = rows /\ issued' = issued /\ ~NewRoot(r)
          BY <1>4, <2>1, <3>3 DEF NewRoot
        <4>2. /\ p \notin Under(path[a])
              /\ \A d \in Under(path[a]) :
                    Len(PathUnder(a, p)) + Len(path[d]) - Len(path[a]) <= MaxDepth
          BY <1>1, <1>2, <2>2, <3>3 DEF KnowsTree
        <4>3. TreeIntact' /\ path' \in [Ids -> Seq(Ids)]
          BY <1>4, <2>1, <2>2, <4>1, <4>2, MoveKeepsTree
        <4>4. \A s \in Requests \ {r} : KnowsTree(s)'
          BY <3>1, <4>1, RootsKnow
        <4>5. \A s \in Requests \ {r} : req[s].op = "create" => req[s].article \notin issued'
          BY <3>1, <4>1 DEF InTree
        <4> QED
          BY <2>1, <4>1, <4>3, <4>4, <4>5
      <3> QED
        BY <1>1, <3>2, <3>3
    <2>7. TypeOK'
      <3>1. parent' \in [Ids -> Ids \cup {NoArticle}]
        BY <1>4, <2>1, <2>3 DEF TreeType
      <3>2. lock' \in Requests \cup {NoRequest}
        BY <1>1, Unlocks DEF TypeOK
      <3> QED
        BY <1>1, <1>4, <2>4, <2>6, <3>1, <3>2 DEF TypeOK, Local, imageVars
    <2>8. TreeInv'
      <3>1. ASSUME NEW s \in Requests PROVE InTree(s)' /\ KnowsTree(s)'
        <4>1. CASE s = r
          BY <2>5, <4>1
        <4>2. CASE s # r
          <5>1. req'[s] = req[s] /\ (lock = s => lock' = s) /\ InTree(s)
            BY <1>1, <2>4, <4>2, Unlocks DEF TreeInv
          <5>2. req[s].op = "create" => req[s].article \in Ids \ issued'
            BY <2>6, <4>2, <5>1 DEF InTree
          <5>3. InTree(s)'
            BY <5>1, <5>2 DEF InTree, NewRoot
          <5> QED
            BY <2>6, <4>2, <5>3
        <4> QED
          BY <4>1, <4>2
      <3>2. CreatesApart'
        BY <1>1, <2>4 DEF TreeInv, CreatesApart
      <3> QED
        BY <2>6, <3>1, <3>2 DEF TreeInv
    <2>9. ImageInv'
      <3>1. rows' \subseteq Ids
        BY <2>6
      <3> QED
        BY <1>1, <2>4, <2>5, <3>1, ImagesUntouched DEF Alone, imageVars
    <2> QED
      BY <2>7, <2>8, <2>9 DEF IInv
  <1> QED
    BY <1>2, <1>3, <1>4 DEF WriteTree

LEMMA DeleteArticleInv ==
  ASSUME IInv, NEW r \in Requests, DeleteArticle(r)
  PROVE  IInv'
  <1>1. /\ TypeOK /\ TreeInv /\ ImageInv /\ InTree(r) /\ KnowsTree(r) /\ HasImage(r)
        /\ req[r].step = "write" /\ req[r].op = "delete" /\ lock = r
        /\ Unlock(r) /\ UNCHANGED <<issued, used, stored, cut>>
    BY DEF IInv, DeleteArticle, TreeInv, ImageInv, InTree, NewRoot
  <1>2. PICK a : a = req[r].article
    OBVIOUS
  <1>3. CASE UNCHANGED <<rows, parent, path, image>> /\ Finish(r)
    BY <1>1, <1>3, DoneInv DEF imageVars
  <1>4. CASE /\ a \in rows /\ rows' = rows \ {a}
             /\ parent' = [c \in Ids |-> IF c \in Children(a) \cup {a}
                                         THEN NoArticle ELSE parent[c]]
             /\ DetachChildren(a)
             /\ image' = [i \in Images |-> IF i \in ImagesOf(a) THEN NoRow ELSE image[i]]
             /\ Goto(r, "remove")
    <2>1. /\ TreeType /\ TreeIntact /\ req \in [Requests -> Local] /\ rows \subseteq issued
          /\ issued \subseteq Ids /\ a # NoArticle
      BY <1>1, <1>4, LocalType, NullAssumption DEF TreeInv, TypeOK
    <2>2. /\ req' \in [Requests -> Local]
          /\ \A s \in Requests \ {r} : req'[s] = req[s]
          /\ req'[r].step = "remove" /\ req'[r].op = "delete"
          /\ req'[r].image = req[r].image /\ req'[r].keys = req[r].keys
      <3>1. "remove" \in Steps
        BY DEF Steps
      <3> QED
        BY <1>1, <1>4, <3>1, GoesTo
    <2>3. TreeIntact' /\ path' \in [Ids -> Seq(Ids)]
      BY <1>4, <2>1, DeleteKeepsTree
    <2>4. \A i \in Images : image'[i] = IF image[i].of = a THEN NoRow ELSE image[i]
      BY <1>4 DEF ImagesOf
    <2>5. NoRow.of = NoArticle /\ NoRow.url = FALSE
      BY DEF NoRow
    <2>6. TypeOK'
      <3>1. parent' \in [Ids -> Ids \cup {NoArticle}]
        BY <1>4, <2>1 DEF TreeType
      <3>2. lock' \in Requests \cup {NoRequest}
        BY <1>1, Unlocks DEF TypeOK
      <3>3. image' \in [Images -> [of : Ids \cup {NoArticle}, url : BOOLEAN]]
        BY <1>1, <1>4 DEF TypeOK, NoRow
      <3>4. ASSUME NEW i \in Images, image'[i] # NoRow
            PROVE  i \in used' /\ image'[i].of \in rows'
        <4>1. image[i].of # a /\ image'[i] = image[i]
          BY <2>4, <3>4
        <4>2. i \in used /\ image[i].of \in rows
          BY <1>1, <3>4, <4>1 DEF TypeOK
        <4> QED
          BY <1>1, <1>4, <4>1, <4>2
      <3>5. issued' \subseteq Ids /\ rows' \subseteq issued'
        BY <1>1, <1>4, <2>1
      <3>6. used' \subseteq Images /\ stored' \subseteq used' /\ cut' \subseteq used'
        BY <1>1 DEF TypeOK
      <3> QED
        BY <2>2, <2>3, <3>1, <3>2, <3>3, <3>4, <3>5, <3>6 DEF TypeOK, Local
    <2>7. TreeInv'
      <3>1. ASSUME NEW s \in Requests PROVE InTree(s)' /\ KnowsTree(s)'
        <4>1. CASE s = r
          BY <2>2, <4>1 DEF InTree, KnowsTree
        <4>2. CASE s # r
          <5>1. req'[s] = req[s] /\ (lock = s => lock' = s) /\ InTree(s) /\ KnowsTree(s)
            BY <1>1, <2>2, <4>2, Unlocks DEF TreeInv
          <5>2. InTree(s)'
            BY <1>1, <5>1 DEF InTree, NewRoot
          <5>3. req[s].step = "write" /\ req[s].op # "delete" => NewRoot(s)
            BY <1>1, <4>2, <5>1 DEF InTree
          <5> QED
            BY <5>1, <5>2, <5>3, RootsKnow
        <4> QED
          BY <4>1, <4>2
      <3>2. CreatesApart'
        BY <1>1, <2>2 DEF TreeInv, CreatesApart
      <3> QED
        BY <2>3, <3>1, <3>2 DEF TreeInv
    <2>8. ImageInv'
      <3>1. \A i \in Images : image'[i] \in {image[i], NoRow}
        BY <2>4
      <3>2. \A i \in Images : image'[i].of \in {image[i].of, NoArticle}
        BY <2>5, <3>1
      <3>3. \A i \in Images : image'[i].of = NoArticle => image'[i] = NoRow
        BY <1>1, <3>1 DEF ImageInv
      <3>4. HasImage(r)'
        <4>1. ASSUME NEW i \in req[r].keys PROVE i \in used' /\ image'[i] = NoRow
          <5>1. i \in used /\ image[i].of \in {NoArticle, a} /\ i \in Images
            BY <1>1, <1>2 DEF HasImage, TypeOK
          <5>2. image[i].of = NoArticle => image[i] = NoRow
            BY <1>1, <5>1 DEF ImageInv
          <5> QED
            BY <1>1, <2>4, <5>1, <5>2
        <4> QED
          BY <2>2, <4>1 DEF HasImage
      <3>5. req[r].op # "upload"
        BY <1>1
      <3>6. \A i \in Images : Settled(i)'
        BY <1>1, <2>2, <3>1, <3>5, StaysSettled DEF ImageInv, Alone
      <3>7. GalleryBounded'
        <4>1. \A s \in Requests : req'[s].step = "place" =>
                req[s].step = "place" /\ req[s].article = req'[s].article
          BY <2>2
        <4>2. rows' \subseteq Ids
          BY <1>4, <2>1
        <4> QED
          BY <1>1, <3>2, <4>1, <4>2, GalleryFrame DEF ImageInv
      <3>8. used \subseteq Images /\ IsFiniteSet(used')
        BY <1>1 DEF TypeOK, ImageInv
      <3> QED
        BY <1>1, <2>2, <3>2, <3>3, <3>4, <3>6, <3>7, <3>8, ImageStep DEF Alone
    <2> QED
      BY <2>6, <2>7, <2>8 DEF IInv
  <1> QED
    BY <1>2, <1>3, <1>4 DEF DeleteArticle

-----------------------------------------------------------------------------
(* The steps about images.                                                 *)

\* A request at one of these steps is not in the tree.
LEMMA NotInTree ==
  ASSUME IInv, NEW r \in Requests, req[r].step \notin {"lock", "check", "write"}
  PROVE  /\ TypeOK /\ TreeInv /\ ImageInv /\ HasImage(r) /\ req[r].op # "create"
         /\ rows \subseteq Ids /\ used \subseteq Images /\ stored \subseteq used
  <1>1. TypeOK /\ TreeInv /\ ImageInv
    BY DEF IInv
  <1>2. InTree(r) /\ HasImage(r)
    BY <1>1 DEF TreeInv, ImageInv
  <1> QED
    BY <1>1, <1>2 DEF InTree, TypeOK

\* Its step keeps the types, if what it does to the images does.
LEMMA TypeImages ==
  ASSUME TypeOK, NEW r \in Requests, req' \in [Requests -> Local], UNCHANGED treeVars,
         image' \in [Images -> [of : Ids \cup {NoArticle}, url : BOOLEAN]],
         used' \subseteq Images, stored' \subseteq used', cut' \subseteq used',
         \A i \in Images : image'[i] # NoRow => i \in used' /\ image'[i].of \in rows
  PROVE  TypeOK'
  BY DEF TypeOK, Local, treeVars

LEMMA RemoveObjectsInv ==
  ASSUME IInv, NEW r \in Requests, RemoveObjects(r)
  PROVE  IInv'
  <1>1. /\ TypeOK /\ TreeInv /\ ImageInv /\ HasImage(r) /\ req[r].op # "create"
        /\ rows \subseteq Ids /\ used \subseteq Images /\ stored \subseteq used
        /\ req[r].step = "remove" /\ Finish(r) /\ UNCHANGED <<treeVars, image, used, cut>>
        /\ stored' = stored \ req[r].keys \/ UNCHANGED stored
    BY NotInTree DEF RemoveObjects
  <1>2. /\ req' \in [Requests -> Local]
        /\ \A s \in Requests \ {r} : req'[s] = req[s]
        /\ req'[r].step = "idle" /\ req'[r].op = "none" /\ req'[r].image = NoImage
    BY <1>1, Finishes
  <1>3. TypeOK'
    BY <1>1, <1>2, TypeImages DEF TypeOK
  <1>4. TreeInv'
    BY <1>1, <1>2, TreeOutside DEF Alone, treeVars
  <1>5. ImageInv'
    <2>1. \A i \in stored : i \in stored' \/ image'[i] = NoRow
      BY <1>1 DEF HasImage
    <2>2. req[r].op # "upload"
      BY <1>1 DEF HasImage
    <2>3. HasImage(r)'
      BY <1>2 DEF HasImage
    <2>4. \A i \in Images : Settled(i)'
      BY <1>1, <1>2, <2>1, <2>2, StaysSettled DEF ImageInv, Alone
    <2>5. GalleryBounded'
      <3>1. \A s \in Requests : req'[s].step = "place" =>
              req[s].step = "place" /\ req[s].article = req'[s].article
        BY <1>2
      <3> QED
        BY <1>1, <3>1, GalleryFrame DEF ImageInv, treeVars
    <2>6. /\ IsFiniteSet(used')
          /\ \A i \in Images : image'[i].of = NoArticle => image'[i] = NoRow
      BY <1>1 DEF ImageInv
    <2> QED
      BY <1>1, <1>2, <2>1, <2>3, <2>4, <2>5, <2>6, ImageStep DEF Alone
  <1> QED
    BY <1>3, <1>4, <1>5 DEF IInv

\* The upload that is about to place a row was counted, and so were the rows
\* there were: together they are less than the limit and all requests.
LEMMA StartUploadInv ==
  ASSUME IInv, NEW r \in Requests, NEW a \in Ids, StartUpload(r, a)
  PROVE  IInv'
  <1> DEFINE x == At("place", "upload", a, NoArticle, NoImage, {})
  <1>1. /\ a \in rows /\ Cardinality(ImagesOf(a)) < MaxImages
        /\ Begin(r, x) /\ UNCHANGED <<treeVars, imageVars>> /\ TypeOK
    BY DEF IInv, StartUpload
  <1>2. /\ x \in Local /\ x.step = "place" /\ x.op = "upload" /\ x.article = a
        /\ x.image = NoImage
    <2>1. "place" \in Steps /\ "upload" \in Ops
      BY DEF Steps, Ops
    <2>2. <<>> \in Seq(Ids)
      OBVIOUS
    <2> QED
      BY <2>1, <2>2 DEF At, Local
  <1> HIDE DEF x
  <1>3. /\ req' \in [Requests -> Local] /\ req'[r] = x /\ req[r].step = "idle"
        /\ \A s \in Requests \ {r} : req'[s] = req[s]
    BY <1>1, <1>2, Begins
  <1>4. /\ TreeInv /\ ImageInv /\ HasImage(r) /\ req[r].op # "create"
        /\ rows \subseteq Ids /\ used \subseteq Images
    BY <1>3, NotInTree
  <1>5. TypeOK'
    BY <1>1, <1>3, TypeFrame DEF TypeOK, treeVars
  <1>6. TreeInv'
    BY <1>1, <1>2, <1>3, <1>4, TreeOutside DEF Alone, treeVars
  <1>7. ImageInv'
    <2>1. req[r].op # "upload"
      BY <1>3, <1>4 DEF HasImage
    <2>2. HasImage(r)'
      BY <1>2, <1>3 DEF HasImage
    <2>3. \A i \in Images : Settled(i)'
      BY <1>1, <1>3, <1>4, <2>1, StaysSettled DEF ImageInv, Alone, imageVars
    <2>4. GalleryBounded'
      <3> SUFFICES ASSUME NEW b \in rows
                   PROVE  Cardinality(ImagesOf(b)') + Cardinality(Unplaced(b)')
                            < MaxImages + Cardinality(Requests)
        BY <1>1 DEF GalleryBounded, ImagesOf, Unplaced, treeVars
      <3>1. ImagesOf(b)' = ImagesOf(b) /\ ImagesOf(b) \subseteq used
        BY <1>1, <1>4, NullAssumption DEF ImagesOf, imageVars, TypeOK, NoRow
      <3>2. Unplaced(b)' \subseteq Requests
        BY DEF Unplaced
      <3>3. /\ Cardinality(ImagesOf(b)) \in Nat
            /\ Cardinality(Unplaced(b)') \in Nat /\ Cardinality(Requests) \in Nat
            /\ Cardinality(Unplaced(b)') <= Cardinality(Requests)
        BY <1>4, <3>1, <3>2, FiniteAssumption, FS_Subset, FS_CardinalityType DEF ImageInv
      <3>4. CASE b = a
        BY <1>1, <3>1, <3>3, <3>4, LimitAssumption
      <3>5. CASE b # a
        <4>1. Unplaced(b)' = Unplaced(b)
          BY <1>2, <1>3, <3>5 DEF Unplaced
        <4> QED
          BY <1>4, <3>1, <4>1 DEF ImageInv, GalleryBounded
      <3> QED
        BY <3>4, <3>5
    <2>5. /\ IsFiniteSet(used')
          /\ \A i \in Images : image'[i].of = NoArticle => image'[i] = NoRow
          /\ \A i \in used : image'[i].of \in {image[i].of, NoArticle}
      BY <1>1, <1>4 DEF ImageInv, imageVars
    <2> QED
      BY <1>1, <1>2, <1>3, <1>4, <2>2, <2>3, <2>4, <2>5, ImageStep DEF Alone, imageVars
  <1> QED
    BY <1>5, <1>6, <1>7 DEF IInv

LEMMA PlaceInv ==
  ASSUME IInv, NEW r \in Requests, NEW i \in Images, Place(r, i)
  PROVE  IInv'
  <1> DEFINE row(a) == [of |-> a, url |-> FALSE]
  <1>1. /\ TypeOK /\ TreeInv /\ ImageInv /\ HasImage(r) /\ req[r].op # "create"
        /\ rows \subseteq Ids /\ used \subseteq Images /\ stored \subseteq used
        /\ req[r].step = "place" /\ i \notin used /\ UNCHANGED <<treeVars, stored, cut>>
        /\ req \in [Requests -> Local]
    BY NotInTree, LocalType DEF Place
  <1>2. req[r].op = "upload" /\ req[r].image = NoImage
    BY <1>1 DEF HasImage
  <1>3. CASE UNCHANGED <<image, used>> /\ Finish(r)
    BY <1>1, <1>2, <1>3, DoneInv DEF imageVars, treeVars
  <1>4. CASE /\ req[r].article \in rows
             /\ image' = [image EXCEPT ![i] = row(req[r].article)]
             /\ used' = used \cup {i}
             /\ req' = [req EXCEPT ![r].step = "upload", ![r].image = i]
    <2>1. PICK a \in rows : a = req[r].article
      BY <1>4
    <2>2. row(a) \in [of : Ids \cup {NoArticle}, url : BOOLEAN] /\ row(a).of = a
      BY <1>1
    <2>3. image[i] = NoRow /\ NoRow.of = NoArticle /\ a # NoArticle /\ a \in Ids
      BY <1>1, NullAssumption DEF TypeOK, NoRow
    <2>4. /\ image'[i] = row(a) /\ \A j \in Images \ {i} : image'[j] = image[j]
          /\ image' \in [Images -> [of : Ids \cup {NoArticle}, url : BOOLEAN]]
      BY <1>1, <1>4, <2>1, <2>2 DEF TypeOK
    <2> DEFINE x == [req[r] EXCEPT !.step = "upload", !.image = i]
    <2>5. /\ x \in Local /\ x.step = "upload" /\ x.op = "upload" /\ x.article = a
          /\ x.image = i
      <3> DEFINE y == req[r]
      <3>1. y \in Local /\ "upload" \in Steps
        BY <1>1 DEF Steps
      <3>2. y.op = "upload" /\ y.article = a
        BY <1>2, <2>1
      <3> HIDE DEF y
      <3>3. LET z == [y EXCEPT !.step = "upload", !.image = i]
            IN  z \in Local /\ z.step = "upload" /\ z.op = y.op
                /\ z.article = y.article /\ z.image = i
        BY <3>1 DEF Local
      <3> QED
        BY <3>2, <3>3 DEF y
    <2>6. req' = [req EXCEPT ![r] = x]
      BY <1>4
    <2> HIDE DEF x, row
    <2>7. /\ req' \in [Requests -> Local] /\ req'[r] = x
          /\ \A s \in Requests \ {r} : req'[s] = req[s]
      BY <1>1, <2>5, <2>6, Replaced
    <2>8. TypeOK'
      <3>1. \A j \in Images : image'[j] # NoRow => j \in used' /\ image'[j].of \in rows
        BY <1>1, <1>4, <2>2, <2>4 DEF TypeOK
      <3>2. stored' \subseteq used' /\ cut' \subseteq used' /\ used' \subseteq Images
        BY <1>1, <1>4 DEF TypeOK
      <3> QED
        BY <1>1, <2>4, <2>7, <3>1, <3>2, TypeImages
    <2>9. TreeInv'
      BY <1>1, <2>5, <2>7, TreeOutside DEF Alone, treeVars
    <2>10. ImageInv'
      <3>1. HasImage(r)'
        <4>1. /\ req'[r].step = "upload" /\ req'[r].op = "upload"
              /\ req'[r].image = i /\ i \in used'
          BY <1>4, <2>5, <2>7
        <4> QED
          BY <4>1 DEF HasImage
      <3>2. ASSUME NEW j \in Images PROVE Settled(j)'
        <4>1. CASE j = i
          BY <2>5, <2>7, <4>1 DEF Settled, Uploading
        <4>2. CASE j # i
          <5>1. image'[j] = image[j] /\ req[r].image # j
            BY <1>2, <2>4, <4>2, NullAssumption
          <5> QED
            BY <1>1, <2>7, <5>1, StaysSettled DEF ImageInv, Alone
        <4> QED
          BY <4>1, <4>2
      <3>3. /\ \A j \in Images : image'[j].of = NoArticle => image'[j] = NoRow
            /\ \A j \in used : image'[j].of \in {image[j].of, NoArticle}
        BY <1>1, <2>2, <2>3, <2>4 DEF ImageInv
      <3>4. IsFiniteSet(used')
        BY <1>1, <1>4, FS_AddElement DEF ImageInv
      <3>5. GalleryBounded'
        <4> SUFFICES ASSUME NEW b \in rows
                     PROVE  Cardinality(ImagesOf(b)') + Cardinality(Unplaced(b)')
                              < MaxImages + Cardinality(Requests)
          BY <1>1 DEF GalleryBounded, ImagesOf, Unplaced, treeVars
        <4>1. /\ ImagesOf(b) \subseteq used /\ Unplaced(b) \subseteq Requests
              /\ i \notin ImagesOf(b)
          BY <1>1, NullAssumption DEF ImagesOf, Unplaced, TypeOK, NoRow
        <4>2. /\ IsFiniteSet(ImagesOf(b)) /\ IsFiniteSet(Unplaced(b))
              /\ Cardinality(ImagesOf(b)) \in Nat /\ Cardinality(Unplaced(b)) \in Nat
          BY <1>1, <4>1, FiniteAssumption, FS_Subset, FS_CardinalityType DEF ImageInv
        <4>3. Cardinality(ImagesOf(b)) + Cardinality(Unplaced(b))
                < MaxImages + Cardinality(Requests)
          BY <1>1 DEF ImageInv, GalleryBounded
        <4>4. CASE b = a
          <5>1. ImagesOf(b)' = ImagesOf(b) \cup {i}
            BY <2>2, <2>4, <4>4 DEF ImagesOf
          <5>2. Unplaced(b)' = Unplaced(b) \ {r} /\ r \in Unplaced(b)
            BY <1>1, <2>1, <2>5, <2>7, <4>4 DEF Unplaced
          <5>3. /\ Cardinality(ImagesOf(b)') = Cardinality(ImagesOf(b)) + 1
                /\ Cardinality(Unplaced(b)') = Cardinality(Unplaced(b)) - 1
            BY ZenonT(40), <4>1, <4>2, <5>1, <5>2, FS_AddElement, FS_RemoveElement
          <5> QED
            BY <4>2, <4>3, <5>3
        <4>5. CASE b # a
          <5>1. ImagesOf(b)' = ImagesOf(b)
            <6>1. b # NoArticle
              BY <1>1, NullAssumption
            <6> QED
              BY <2>2, <2>3, <2>4, <4>5, <6>1 DEF ImagesOf
          <5>2. Unplaced(b)' = Unplaced(b)
            BY <2>1, <2>5, <2>7, <4>5 DEF Unplaced
          <5> QED
            BY <4>3, <5>1, <5>2
        <4> QED
          BY <4>4, <4>5
      <3> QED
        BY <1>1, <1>4, <2>5, <2>7, <3>1, <3>2, <3>3, <3>4, <3>5, ImageStep DEF Alone
    <2> QED
      BY <2>8, <2>9, <2>10 DEF IInv
  <1> QED
    BY <1>3, <1>4 DEF Place

\* A step of an uploader: it keeps its image, or is done with it.
LEMMA UploaderStep ==
  ASSUME TypeOK, ImageInv, NEW r \in Requests, NEW i \in used, Alone(r),
         req[r].op = "upload", req[r].image = i, req'[r].step # "place",
         req'[r].op = "upload" => req'[r].image = i,
         req'[r].op # "upload" => Settled(i)',
         HasImage(r)', rows' = rows, used' = used, cut' = cut,
         \A j \in Images \ {i} : image'[j] = image[j],
         image'[i].of \in {image[i].of, NoArticle},
         image'[i].of = NoArticle => image'[i] = NoRow,
         stored \ {i} \subseteq stored'
  PROVE  ImageInv'
  <1>1. /\ i \in Images /\ used \subseteq Images /\ rows \subseteq Ids
        /\ \A j \in Images : Settled(j) /\ (image[j].of = NoArticle => image[j] = NoRow)
        /\ IsFiniteSet(used) /\ GalleryBounded
    BY DEF TypeOK, ImageInv
  <1>2. ASSUME NEW j \in Images PROVE Settled(j)'
    <2>1. CASE j = i
      BY <2>1 DEF Settled, Uploading
    <2>2. CASE j # i
      BY <1>1, <2>2, StaysSettled
    <2> QED
      BY <2>1, <2>2
  <1>3. \A j \in Images : image'[j].of \in {image[j].of, NoArticle}
    OBVIOUS
  <1>4. GalleryBounded'
    <2>1. \A s \in Requests : req'[s].step = "place" =>
            req[s].step = "place" /\ req[s].article = req'[s].article
      BY DEF Alone
    <2> QED
      BY <1>1, <1>3, <2>1, GalleryFrame
  <1>5. \A j \in Images : image'[j].of = NoArticle => image'[j] = NoRow
    BY <1>1
  <1>6. \A j \in stored : j \in stored' \/ (req[r].op = "upload" /\ req[r].image = j)
    OBVIOUS
  <1> QED
    BY <1>1, <1>2, <1>3, <1>4, <1>5, <1>6, ImageStep

LEMMA UploadInv ==
  ASSUME IInv, NEW r \in Requests, Upload(r)
  PROVE  IInv'
  <1>1. /\ TypeOK /\ TreeInv /\ ImageInv /\ HasImage(r) /\ req[r].op # "create"
        /\ rows \subseteq Ids /\ used \subseteq Images /\ stored \subseteq used
        /\ req[r].step = "upload" /\ UNCHANGED <<treeVars, image, used, cut>>
    BY NotInTree DEF Upload
  <1>2. PICK step \in {"link", "unstore"} :
            /\ Goto(r, step)
            /\ stored' \in {stored, stored \cup {req[r].image}}
            /\ step = "link" => stored' = stored \cup {req[r].image}
    BY DEF Upload
  <1>3. req[r].op = "upload" /\ req[r].image \in used
    BY <1>1 DEF HasImage
  <1>4. PICK i \in used : i = req[r].image
    BY <1>3
  <1>5. /\ req' \in [Requests -> Local]
        /\ \A s \in Requests \ {r} : req'[s] = req[s]
        /\ req'[r].step = step /\ req'[r].op = "upload" /\ req'[r].image = i
    <2>1. step \in Steps
      BY DEF Steps
    <2> QED
      BY <1>1, <1>2, <1>3, <1>4, <2>1, GoesTo
  <1>6. TypeOK'
    <2>1. stored' \subseteq used' /\ cut' \subseteq used'
      BY <1>1, <1>2, <1>3 DEF TypeOK
    <2> QED
      BY <1>1, <1>5, <2>1, TypeImages DEF TypeOK
  <1>7. TreeInv'
    BY <1>1, <1>5, TreeOutside DEF Alone, treeVars
  <1>8. HasImage(r)'
    <2>1. step = "link" => i \in stored'
      BY <1>2, <1>4
    <2> QED
      BY <1>1, <1>5, <2>1 DEF HasImage
  <1>9. ImageInv'
    <2>1. /\ rows' = rows /\ used' = used /\ cut' = cut /\ image' = image
          /\ stored \ {i} \subseteq stored' /\ Alone(r) /\ req'[r].step # "place"
      BY <1>1, <1>2, <1>5 DEF treeVars, Alone
    <2>2. /\ image'[i].of \in {image[i].of, NoArticle}
          /\ image'[i].of = NoArticle => image'[i] = NoRow
          /\ \A j \in Images \ {i} : image'[j] = image[j]
      BY <1>1, <2>1 DEF ImageInv
    <2> QED
      <3>1. /\ TypeOK /\ ImageInv /\ req[r].op = "upload" /\ req[r].image = i
            /\ req'[r].op = "upload" /\ req'[r].image = i
        BY <1>1, <1>3, <1>4, <1>5
      <3> QED
        BY <1>8, <2>1, <2>2, <3>1, UploaderStep
  <1> QED
    BY <1>6, <1>7, <1>9 DEF IInv

\* A row gets its URL only while it is there, and then its object is stored.
LEMMA LinkInv ==
  ASSUME IInv, NEW r \in Requests, Link(r)
  PROVE  IInv'
  <1>1. /\ TypeOK /\ TreeInv /\ ImageInv /\ HasImage(r) /\ req[r].op # "create"
        /\ rows \subseteq Ids /\ used \subseteq Images /\ stored \subseteq used
        /\ req[r].step = "link" /\ UNCHANGED <<treeVars, used, stored, cut>>
    BY NotInTree DEF Link
  <1>2. req[r].op = "upload" /\ req[r].image \in used
    BY <1>1 DEF HasImage
  <1>3. PICK i \in used : i = req[r].image
    BY <1>2
  <1>4. i \in Images /\ image \in [Images -> [of : Ids \cup {NoArticle}, url : BOOLEAN]]
    BY <1>1 DEF TypeOK
  <1>5. CASE UNCHANGED image /\ Goto(r, "unstore")
    <2>1. /\ req' \in [Requests -> Local]
          /\ \A s \in Requests \ {r} : req'[s] = req[s]
          /\ req'[r].step = "unstore" /\ req'[r].op = "upload" /\ req'[r].image = i
      <3>1. "unstore" \in Steps
        BY DEF Steps
      <3> QED
        BY <1>1, <1>2, <1>3, <1>5, <3>1, GoesTo
    <2>2. TypeOK'
      BY <1>1, <1>5, <2>1, TypeImages DEF TypeOK
    <2>3. TreeInv'
      BY <1>1, <2>1, TreeOutside DEF Alone, treeVars
    <2>4. HasImage(r)'
      BY <1>1, <2>1 DEF HasImage
    <2>5. ImageInv'
      <3>1. /\ rows' = rows /\ used' = used /\ cut' = cut /\ image' = image
            /\ stored \ {i} \subseteq stored' /\ Alone(r) /\ req'[r].step # "place"
        BY <1>1, <1>5, <2>1 DEF treeVars, Alone
      <3>2. /\ image'[i].of \in {image[i].of, NoArticle}
            /\ image'[i].of = NoArticle => image'[i] = NoRow
            /\ \A j \in Images \ {i} : image'[j] = image[j]
        BY <1>1, <1>4, <3>1 DEF ImageInv
      <3> QED
        <4>1. /\ TypeOK /\ ImageInv /\ req[r].op = "upload" /\ req[r].image = i
              /\ req'[r].op = "upload" /\ req'[r].image = i
          BY <1>1, <1>2, <1>3, <2>1
        <4> QED
          BY <2>4, <3>1, <3>2, <4>1, UploaderStep
    <2> QED
      BY <2>2, <2>3, <2>5 DEF IInv
  <1>6. CASE /\ image[i] # NoRow
             /\ image' = [image EXCEPT ![i].url = TRUE]
             /\ Finish(r) \/ Goto(r, "unstore")
    <2> DEFINE row == [image[i] EXCEPT !.url = TRUE]
    <2>1. /\ row \in [of : Ids \cup {NoArticle}, url : BOOLEAN]
          /\ row.of = image[i].of /\ row.url = TRUE
      BY <1>4
    <2>2. i \in stored /\ image[i].of \in rows /\ image[i].of # NoArticle
      BY <1>1, <1>3, <1>4, <1>6, NullAssumption DEF HasImage, TypeOK
    <2>3. /\ image'[i] = row /\ \A j \in Images \ {i} : image'[j] = image[j]
          /\ image' \in [Images -> [of : Ids \cup {NoArticle}, url : BOOLEAN]]
      BY <1>4, <1>6, <2>1
    <2> HIDE DEF row
    <2>4. /\ req' \in [Requests -> Local]
          /\ \A s \in Requests \ {r} : req'[s] = req[s]
          /\ \/ req'[r].step = "unstore" /\ req'[r].op = "upload" /\ req'[r].image = i
             \/ req'[r].step = "idle" /\ req'[r].op = "none"
      <3>1. "unstore" \in Steps
        BY DEF Steps
      <3> QED
        BY <1>1, <1>2, <1>3, <1>6, <3>1, GoesTo, Finishes
    <2>5. TypeOK'
      <3>1. \A j \in Images : image'[j] # NoRow => j \in used' /\ image'[j].of \in rows
        BY <1>1, <2>1, <2>2, <2>3 DEF TypeOK
      <3> QED
        BY <1>1, <2>3, <2>4, <3>1, TypeImages DEF TypeOK
    <2>6. TreeInv'
      BY <1>1, <2>4, TreeOutside DEF Alone, treeVars
    <2>7. HasImage(r)'
      BY <1>1, <2>4 DEF HasImage
    <2>8. Settled(i)'
      BY <1>1, <2>1, <2>2, <2>3 DEF Settled
    <2>9. ImageInv'
      BY <1>1, <1>2, <1>3, <1>4, <2>1, <2>2, <2>3, <2>4, <2>7, <2>8, UploaderStep
      DEF Alone, treeVars, ImageInv
    <2> QED
      BY <2>5, <2>6, <2>9 DEF IInv
  <1> QED
    BY <1>3, <1>5, <1>6 DEF Link

LEMMA UnstoreInv ==
  ASSUME IInv, NEW r \in Requests, Unstore(r)
  PROVE  IInv'
  <1>1. /\ TypeOK /\ TreeInv /\ ImageInv /\ HasImage(r) /\ req[r].op # "create"
        /\ rows \subseteq Ids /\ used \subseteq Images /\ stored \subseteq used
        /\ req[r].step = "unstore" /\ Goto(r, "unplace")
        /\ stored' \in {stored, stored \ {req[r].image}}
        /\ UNCHANGED <<treeVars, image, used, cut>>
    BY NotInTree DEF Unstore
  <1>2. req[r].op = "upload" /\ req[r].image \in used
    BY <1>1 DEF HasImage
  <1>3. PICK i \in used : i = req[r].image
    BY <1>2
  <1>4. /\ req' \in [Requests -> Local]
        /\ \A s \in Requests \ {r} : req'[s] = req[s]
        /\ req'[r].step = "unplace" /\ req'[r].op = "upload" /\ req'[r].image = i
    <2>1. "unplace" \in Steps
      BY DEF Steps
    <2> QED
      BY <1>1, <1>2, <1>3, <2>1, GoesTo
  <1>5. TypeOK'
    <2>1. stored' \subseteq used' /\ cut' \subseteq used'
      BY <1>1 DEF TypeOK
    <2> QED
      BY <1>1, <1>4, <2>1, TypeImages DEF TypeOK
  <1>6. TreeInv'
    BY <1>1, <1>4, TreeOutside DEF Alone, treeVars
  <1>7. HasImage(r)'
    BY <1>1, <1>4 DEF HasImage
  <1>8. ImageInv'
    <2>1. /\ rows' = rows /\ used' = used /\ cut' = cut /\ image' = image
          /\ stored \ {i} \subseteq stored' /\ Alone(r) /\ req'[r].step # "place"
      BY <1>1, <1>3, <1>4 DEF treeVars, Alone
    <2>2. /\ image'[i].of \in {image[i].of, NoArticle}
          /\ image'[i].of = NoArticle => image'[i] = NoRow
          /\ \A j \in Images \ {i} : image'[j] = image[j]
      BY <1>1, <2>1 DEF ImageInv
    <2> QED
      <3>1. /\ TypeOK /\ ImageInv /\ req[r].op = "upload" /\ req[r].image = i
            /\ req'[r].op = "upload" /\ req'[r].image = i
        BY <1>1, <1>2, <1>3, <1>4
      <3> QED
        BY <1>7, <2>1, <2>2, <3>1, UploaderStep
  <1> QED
    BY <1>5, <1>6, <1>8 DEF IInv

\* A row that goes leaves the rest as it was.
LEMMA RowGone ==
  ASSUME TypeOK, ImageInv, NEW i \in Images, image' = [image EXCEPT ![i] = NoRow]
  PROVE  /\ image'[i] = NoRow /\ \A j \in Images \ {i} : image'[j] = image[j]
         /\ image' \in [Images -> [of : Ids \cup {NoArticle}, url : BOOLEAN]]
         /\ NoRow.of = NoArticle
         /\ \A j \in Images : image'[j] # NoRow => j \in used /\ image'[j].of \in rows
         /\ \A j \in Images : image'[j] \in {image[j], NoRow}
         /\ \A j \in Images : image'[j].of \in {image[j].of, NoArticle}
         /\ \A j \in Images : image'[j].of = NoArticle => image'[j] = NoRow
  <1>1. NoRow \in [of : Ids \cup {NoArticle}, url : BOOLEAN] /\ NoRow.of = NoArticle
    BY DEF NoRow
  <1>2. /\ image \in [Images -> [of : Ids \cup {NoArticle}, url : BOOLEAN]]
        /\ \A j \in Images : image[j] # NoRow => j \in used /\ image[j].of \in rows
        /\ \A j \in Images : image[j].of = NoArticle => image[j] = NoRow
    BY DEF TypeOK, ImageInv
  <1>3. /\ image'[i] = NoRow /\ \A j \in Images \ {i} : image'[j] = image[j]
        /\ image' \in [Images -> [of : Ids \cup {NoArticle}, url : BOOLEAN]]
    BY <1>1, <1>2
  <1>4. \A j \in Images : image'[j] \in {image[j], NoRow}
    BY <1>3
  <1> QED
    BY <1>1, <1>2, <1>3, <1>4

LEMMA UnplaceInv ==
  ASSUME IInv, NEW r \in Requests, Unplace(r)
  PROVE  IInv'
  <1>1. /\ TypeOK /\ TreeInv /\ ImageInv /\ HasImage(r) /\ req[r].op # "create"
        /\ rows \subseteq Ids /\ used \subseteq Images /\ stored \subseteq used
        /\ req[r].step = "unplace" /\ Finish(r)
        /\ image' = [image EXCEPT ![req[r].image] = NoRow]
        /\ UNCHANGED <<treeVars, used, stored, cut>>
    BY NotInTree DEF Unplace
  <1>2. req[r].op = "upload" /\ req[r].image \in used
    BY <1>1 DEF HasImage
  <1>3. PICK i \in used : i = req[r].image
    BY <1>2
  <1>4. /\ req' \in [Requests -> Local]
        /\ \A s \in Requests \ {r} : req'[s] = req[s]
        /\ req'[r].step = "idle" /\ req'[r].op = "none"
    BY <1>1, Finishes
  <1>5. /\ image'[i] = NoRow /\ \A j \in Images \ {i} : image'[j] = image[j]
        /\ image' \in [Images -> [of : Ids \cup {NoArticle}, url : BOOLEAN]]
        /\ NoRow.of = NoArticle
        /\ \A j \in Images : image'[j] # NoRow => j \in used /\ image'[j].of \in rows
    BY ZenonT(40), <1>1, <1>3, RowGone
  <1>6. TypeOK'
    BY <1>1, <1>4, <1>5, TypeImages DEF TypeOK
  <1>7. TreeInv'
    BY <1>1, <1>4, TreeOutside DEF Alone, treeVars
  <1>8. HasImage(r)' /\ Settled(i)'
    BY <1>4, <1>5 DEF HasImage, Settled
  <1>9. ImageInv'
    <2>1. /\ rows' = rows /\ used' = used /\ cut' = cut
          /\ stored \ {i} \subseteq stored' /\ Alone(r)
          /\ req'[r].step # "place" /\ req'[r].op # "upload"
      BY <1>1, <1>4 DEF treeVars, Alone
    <2> QED
      BY <1>1, <1>2, <1>3, <1>5, <1>8, <2>1, UploaderStep
  <1> QED
    BY <1>6, <1>7, <1>9 DEF IInv

LEMMA StartDropInv ==
  ASSUME IInv, NEW r \in Requests, NEW i \in Images, StartDrop(r, i)
  PROVE  IInv'
  <1> DEFINE x == At("drop", "drop", image[i].of, NoArticle, i, {i})
  <1>1. /\ image[i] # NoRow
        /\ Begin(r, x) /\ UNCHANGED <<treeVars, imageVars>> /\ TypeOK
    BY DEF IInv, StartDrop
  <1>2. /\ x \in Local /\ x.step = "drop" /\ x.op = "drop" /\ x.image = i /\ x.keys = {i}
    <2>1. /\ "drop" \in Steps /\ "drop" \in Ops /\ {i} \in SUBSET Images
          /\ image[i].of \in Ids \cup {NoArticle}
      BY <1>1 DEF Steps, Ops, TypeOK
    <2>2. <<>> \in Seq(Ids)
      OBVIOUS
    <2> QED
      BY <2>1, <2>2 DEF At, Local
  <1> HIDE DEF x
  <1>3. /\ req' \in [Requests -> Local] /\ req'[r] = x /\ req[r].step = "idle"
        /\ \A s \in Requests \ {r} : req'[s] = req[s]
    BY <1>1, <1>2, Begins
  <1>4. /\ TreeInv /\ ImageInv /\ HasImage(r) /\ rows \subseteq Ids
    BY <1>3, NotInTree
  <1>5. TypeOK'
    BY <1>1, <1>3, TypeFrame DEF TypeOK, treeVars
  <1>6. TreeInv'
    BY <1>1, <1>2, <1>3, <1>4, TreeOutside DEF Alone, treeVars
  <1>7. ImageInv'
    <2>1. req[r].op # "upload" /\ i \in used
      BY <1>1, <1>3, <1>4 DEF HasImage, TypeOK
    <2>2. HasImage(r)'
      BY <1>1, <1>2, <1>3, <2>1 DEF HasImage, imageVars
    <2> QED
      BY <1>1, <1>2, <1>3, <1>4, <2>1, <2>2, ImagesUntouched DEF Alone, treeVars, imageVars
  <1> QED
    BY <1>5, <1>6, <1>7 DEF IInv

LEMMA DropRowInv ==
  ASSUME IInv, NEW r \in Requests, DropRow(r)
  PROVE  IInv'
  <1>1. /\ TypeOK /\ TreeInv /\ ImageInv /\ HasImage(r) /\ req[r].op # "create"
        /\ rows \subseteq Ids /\ used \subseteq Images /\ stored \subseteq used
        /\ req[r].step = "drop" /\ Goto(r, "remove")
        /\ image' = [image EXCEPT ![req[r].image] = NoRow]
        /\ UNCHANGED <<treeVars, used, stored, cut>>
    BY NotInTree DEF DropRow
  <1>2. req[r].op # "upload" /\ req[r].image \in used /\ req[r].keys = {req[r].image}
    BY <1>1 DEF HasImage
  <1>3. PICK i \in used : i = req[r].image
    BY <1>2
  <1>4. /\ req' \in [Requests -> Local]
        /\ \A s \in Requests \ {r} : req'[s] = req[s]
        /\ req'[r].step = "remove" /\ req'[r].op = req[r].op /\ req'[r].keys = {i}
    <2>1. "remove" \in Steps
      BY DEF Steps
    <2> QED
      BY <1>1, <1>2, <1>3, <2>1, GoesTo
  <1>5. /\ image'[i] = NoRow
        /\ image' \in [Images -> [of : Ids \cup {NoArticle}, url : BOOLEAN]]
        /\ \A j \in Images : image'[j] # NoRow => j \in used /\ image'[j].of \in rows
        /\ \A j \in Images : image'[j] \in {image[j], NoRow}
        /\ \A j \in Images : image'[j].of \in {image[j].of, NoArticle}
        /\ \A j \in Images : image'[j].of = NoArticle => image'[j] = NoRow
    BY <1>1, <1>3, RowGone
  <1>6. TypeOK'
    BY <1>1, <1>4, <1>5, TypeImages DEF TypeOK
  <1>7. TreeInv'
    BY <1>1, <1>4, TreeOutside DEF Alone, treeVars
  <1>8. HasImage(r)'
    BY <1>1, <1>2, <1>4, <1>5 DEF HasImage
  <1>9. ImageInv'
    <2>1. \A j \in Images : Settled(j)'
      BY <1>1, <1>2, <1>4, <1>5, StaysSettled DEF ImageInv, Alone
    <2>2. GalleryBounded'
      <3>1. \A s \in Requests : req'[s].step = "place" =>
              req[s].step = "place" /\ req[s].article = req'[s].article
        BY <1>4
      <3> QED
        BY <1>1, <1>5, <3>1, GalleryFrame DEF ImageInv, treeVars
    <2>3. IsFiniteSet(used')
      BY <1>1 DEF ImageInv
    <2> QED
      BY <1>1, <1>2, <1>4, <1>5, <1>8, <2>1, <2>2, <2>3, ImageStep DEF Alone
  <1> QED
    BY <1>6, <1>7, <1>9 DEF IInv

LEMMA CrashInv ==
  ASSUME IInv, NEW r \in Requests, Crash(r)
  PROVE  IInv'
  <1>1. /\ TypeOK /\ TreeInv /\ ImageInv /\ HasImage(r) /\ Finish(r) /\ Unlock(r)
        /\ UNCHANGED <<issued, rows, parent, path, image, used, stored>>
    BY DEF IInv, ImageInv, Crash
  <1>2. /\ cut \subseteq cut'
        /\ req[r].op = "upload" /\ req[r].image # NoImage => req[r].image \in cut'
        /\ \A i \in cut' : \/ i \in cut
                           \/ req[r].op = "upload" /\ req[r].image # NoImage /\ i = req[r].image
    BY DEF Crash
  <1>3. /\ req' \in [Requests -> Local]
        /\ \A s \in Requests \ {r} : req'[s] = req[s]
        /\ req'[r].step = "idle" /\ req'[r].op = "none" /\ req'[r].image = NoImage
    BY <1>1, Finishes
  <1>4. TypeOK'
    <2>1. cut' \subseteq used'
      BY <1>1, <1>2 DEF HasImage, TypeOK
    <2>2. lock' \in Requests \cup {NoRequest}
      BY <1>1, Unlocks DEF TypeOK
    <2> QED
      BY <1>1, <1>3, <2>1, <2>2 DEF TypeOK, Local
  <1>5. TreeInv'
    BY <1>1, <1>3, Unlocks, TreeOutside DEF Alone
  <1>6. HasImage(r)'
    BY <1>3 DEF HasImage
  <1>7. ImageInv'
    <2>1. \A i \in Images : Settled(i)'
      BY <1>1, <1>2, <1>3, NullAssumption, StaysSettled DEF ImageInv, Alone
    <2>2. GalleryBounded'
      <3>1. \A s \in Requests : req'[s].step = "place" =>
              req[s].step = "place" /\ req[s].article = req'[s].article
        BY <1>3
      <3>2. rows' \subseteq Ids
        BY <1>1 DEF TypeOK
      <3> QED
        BY <1>1, <3>1, <3>2, GalleryFrame DEF ImageInv
    <2>3. /\ IsFiniteSet(used') /\ used \subseteq Images
          /\ \A j \in Images : image'[j].of = NoArticle => image'[j] = NoRow
      BY <1>1 DEF ImageInv, TypeOK
    <2> QED
      BY <1>1, <1>3, <1>6, <2>1, <2>2, <2>3, ImageStep DEF Alone
  <1> QED
    BY <1>4, <1>5, <1>7 DEF IInv

-----------------------------------------------------------------------------
(* The theorems.                                                           *)

\* Every step keeps the invariant.
LEMMA StepInv == IInv /\ [Next]_vars => IInv'
  <1> SUFFICES ASSUME IInv, [Next]_vars PROVE IInv'
    OBVIOUS
  <1>1. CASE UNCHANGED vars
    <2>1. /\ issued' = issued /\ rows' = rows /\ parent' = parent /\ path' = path
          /\ lock' = lock /\ req' = req /\ image' = image /\ used' = used
          /\ stored' = stored /\ cut' = cut
      BY <1>1 DEF vars, treeVars, imageVars
    <2>2. TypeOK'
      BY <2>1 DEF IInv, TypeOK
    <2>3. TreeInv'
      <3>1. TreeInv
        BY DEF IInv
      <3> QED
        BY <2>1, <3>1 DEF TreeInv, TreeIntact, PathsFollowParents, DepthBounded, CreatesApart,
                          InTree, NewRoot, KnowsTree, PathUnder, Under
    <2>4. ImageInv'
      <3>1. ImageInv
        BY DEF IInv
      <3> QED
        BY <2>1, <3>1 DEF ImageInv, GalleryBounded, ImagesOf, Unplaced, UploadsApart, Settled,
                          Uploading, HasImage
    <2> QED
      BY <2>2, <2>3, <2>4 DEF IInv
  <1>2. CASE Next
    <2>1. PICK r \in Requests :
            \/ \E a \in Ids, p \in Ids \cup {NoArticle} : StartCreate(r, a, p) \/ StartMove(r, a, p)
            \/ \E a \in Ids : StartDelete(r, a) \/ StartUpload(r, a)
            \/ \E i \in Images : Place(r, i) \/ StartDrop(r, i)
            \/ LockTree(r) \/ CheckTree(r) \/ WriteTree(r) \/ DeleteArticle(r) \/ RemoveObjects(r)
            \/ Upload(r) \/ Link(r) \/ Unstore(r) \/ Unplace(r) \/ DropRow(r)
            \/ Crash(r)
      BY <1>2 DEF Next
    <2>2. ASSUME NEW a \in Ids, NEW p \in Ids \cup {NoArticle},
                 StartCreate(r, a, p) \/ StartMove(r, a, p)
          PROVE  IInv'
      BY <2>2, StartCreateInv, StartMoveInv
    <2>3. ASSUME NEW a \in Ids, StartDelete(r, a) \/ StartUpload(r, a)
          PROVE  IInv'
      BY <2>3, StartDeleteInv, StartUploadInv
    <2>4. ASSUME NEW i \in Images, Place(r, i) \/ StartDrop(r, i)
          PROVE  IInv'
      BY <2>4, PlaceInv, StartDropInv
    <2>5. CASE LockTree(r) \/ CheckTree(r) \/ WriteTree(r) \/ DeleteArticle(r)
      BY <2>5, LockTreeInv, CheckTreeInv, WriteTreeInv, DeleteArticleInv
    <2>6. CASE RemoveObjects(r) \/ Upload(r) \/ Link(r) \/ Unstore(r) \/ Unplace(r)
      BY <2>6, RemoveObjectsInv, UploadInv, LinkInv, UnstoreInv, UnplaceInv
    <2>7. CASE DropRow(r) \/ Crash(r)
      BY <2>7, DropRowInv, CrashInv
    <2> QED
      BY <2>1, <2>2, <2>3, <2>4, <2>5, <2>6, <2>7
  <1> QED
    BY <1>1, <1>2

LEMMA Invariant == Spec => []IInv
  BY InitInv, StepInv, PTL DEF Spec

\* What the settled rows come to.
LEMMA InvImages == IInv => LinkedIsStored /\ GalleryIntact
  <1> SUFFICES ASSUME IInv PROVE LinkedIsStored /\ GalleryIntact
    OBVIOUS
  <1>1. GalleryBounded /\ \A i \in Images : Settled(i)
    BY DEF IInv, ImageInv
  <1>2. NoRow.url = FALSE
    BY DEF NoRow
  <1>3. ASSUME NEW i \in Images, image[i].url
        PROVE  i \in stored \/ Uploading(i) \/ i \in cut
    BY <1>1, <1>2, <1>3 DEF Settled
  <1>4. ASSUME NEW i \in Images, image[i] # NoRow, ~image[i].url
        PROVE  Uploading(i) \/ i \in cut
    BY <1>1, <1>4 DEF Settled
  <1> QED
    BY <1>1, <1>3, <1>4 DEF LinkedIsStored, GalleryIntact, PlaceholdersAreHeld

\* Variables and requests keep their types: no row belongs to an article that
\* is gone, and only objects that had a row are stored.
THEOREM TypeCorrect == Spec => []TypeOK
  <1>1. IInv => TypeOK
    BY DEF IInv
  <1> QED
    BY <1>1, Invariant, PTL

\* Whatever creations, moves and deletions come between a check and its write,
\* the articles stay a tree whose paths follow the parents, no deeper than
\* MAX_TREE_DEPTH (validate_parent, set_path, detach_children, lock_tree).
THEOREM TreeStaysIntact == Spec => []TreeIntact
  <1>1. IInv => TreeIntact
    BY DEF IInv, TreeInv
  <1> QED
    BY <1>1, Invariant, PTL

\* An image that a page embeds has its object, through failed uploads, lost
\* replies and removals, unless its uploader takes both back or was cut off.
THEOREM LinkedStaysStored == Spec => []LinkedIsStored
  <1>1. IInv => LinkedIsStored
    BY InvImages
  <1> QED
    BY <1>1, Invariant, PTL

\* No placeholder outlives a living request, and a gallery passes its limit by
\* fewer rows than there are requests.
THEOREM GalleryStaysIntact == Spec => []GalleryIntact
  <1>1. IInv => GalleryIntact
    BY InvImages
  <1> QED
    BY <1>1, Invariant, PTL

-----------------------------------------------------------------------------
(* The tree is a forest: ArticleForest, under the mapping Forest.          *)

Ups == [x \in rows |-> parent[x]]
PathOf(a) == {path[a][k] : k \in 1..Len(path[a])}

\* What is above an article is on its path: the path is such a set.
LEMMA AbovePath ==
  ASSUME TreeType, PathsFollowParents, NEW a \in rows
  PROVE  Forest!Above(Ups, a) \subseteq PathOf(a) /\ PathOf(a) \subseteq rows
  <1>1. path[a] \in Seq(Ids) /\ Len(path[a]) \in Nat \ {0} /\ path[a][Len(path[a])] = a
    BY PathEnds
  <1>2. PathOf(a) \subseteq rows /\ a \in PathOf(a)
    BY <1>1, PathsArePrefixes DEF PathOf
  <1>3. ASSUME NEW b \in PathOf(a), parent[b] # NoArticle
        PROVE  parent[b] \in PathOf(a)
    <2>1. PICK k \in 1..Len(path[a]) : b = path[a][k]
      BY DEF PathOf
    <2>2. b \in rows /\ path[b] = SubSeq(path[a], 1, k)
      BY <2>1, PathsArePrefixes
    <2>3. Len(path[b]) = k /\ \A j \in 1..k : path[b][j] = path[a][j]
      BY <1>1, <2>2, SamePrefix
    <2> DEFINE q == parent[b]
    <2>4. /\ q \in rows /\ k = Len(path[q]) + 1
          /\ \A j \in 1..Len(path[q]) : path[b][j] = path[q][j]
      BY <1>3, <2>2, <2>3, PathEnds
    <2>5. Len(path[q]) \in Nat \ {0} /\ path[q][Len(path[q])] = q
      BY <2>4, PathEnds
    <2> HIDE DEF q
    <2>6. k - 1 \in 1..Len(path[a]) /\ k - 1 \in 1..k /\ k - 1 \in 1..Len(path[q]) /\ Len(path[q]) = k - 1
      BY <1>1, <2>4, <2>5
    <2>7. path[a][k - 1] = q
      BY <2>3, <2>4, <2>5, <2>6
    <2>8. q \in PathOf(a)
      BY <2>6, <2>7 DEF PathOf
    <2> QED
      BY <2>8 DEF q
  <1>4. Forest!Closed(Ups, PathOf(a))
    BY <1>2, <1>3 DEF Forest!Closed, Ups
  <1>5. DOMAIN Ups = rows
    BY DEF Ups
  <1> QED
    BY <1>2, <1>4, <1>5 DEF Forest!Above

\* FiniteSets counts the same in both modules.
LEMMA SameCount ==
  ASSUME NEW S
  PROVE  Forest!Cardinality(S) = Cardinality(S)
  BY DEF Forest!Cardinality, Cardinality

\* So a branch is no longer than the path of its end.
LEMMA ShallowForest ==
  ASSUME TreeType, TreeIntact
  PROVE  Forest!Shallow(Ups)
  <1>0. DOMAIN Ups = rows
    BY DEF Ups
  <1> SUFFICES ASSUME NEW a \in rows PROVE Cardinality(Forest!Above(Ups, a)) <= MaxDepth
    BY <1>0, SameCount DEF Forest!Shallow
  <1> DEFINE n == Len(path[a])
             f == [k \in 1..n |-> path[a][k]]
  <1>1. n \in Nat /\ n <= MaxDepth /\ Forest!Above(Ups, a) \subseteq PathOf(a)
    BY PathEnds, AbovePath DEF TreeIntact, DepthBounded
  <1>2. f \in Surjection(1..n, PathOf(a))
    BY DEF Surjection, PathOf
  <1> HIDE DEF f, n
  <1>3. IsFiniteSet(1..n) /\ Cardinality(1..n) = n
    <2>1. 1 \in Int /\ n \in Int /\ (IF 1 > n THEN 0 ELSE n - 1 + 1) = n
      BY <1>1
    <2> QED
      BY <2>1, FS_Interval
  <1>4. IsFiniteSet(PathOf(a)) /\ Cardinality(PathOf(a)) <= n
    BY <1>2, <1>3, FS_Surjection
  <1>5. /\ IsFiniteSet(Forest!Above(Ups, a))
        /\ Cardinality(Forest!Above(Ups, a)) <= Cardinality(PathOf(a))
    BY <1>1, <1>4, FS_Subset
  <1>6. Cardinality(Forest!Above(Ups, a)) \in Nat /\ Cardinality(PathOf(a)) \in Nat
    BY <1>4, <1>5, FS_CardinalityType
  <1> QED
    BY <1>1, <1>4, <1>5, <1>6, LimitAssumption

\* What is not below an article does not have it above.
LEMMA NotAbove ==
  ASSUME TreeType, PathsFollowParents, NEW a \in rows, NEW p \in rows, p \notin Under(path[a])
  PROVE  a \notin Forest!Above(Ups, p)
  <1> SUFFICES ASSUME a \in PathOf(p) PROVE FALSE
    BY AbovePath
  <1>1. PICK k \in 1..Len(path[p]) : a = path[p][k]
    BY DEF PathOf
  <1>2. path[p] \in Seq(Ids) /\ Len(path[p]) \in Nat
    BY PathEnds
  <1>3. path[a] = SubSeq(path[p], 1, k)
    BY <1>1, PathsArePrefixes
  <1>4. Len(path[a]) = k
    BY <1>2, <1>3, SamePrefix
  <1> QED
    BY <1>1, <1>2, <1>4, OnPath

\* What two forests have in common: the articles and their parents.
LEMMA ForestType ==
  ASSUME IInv
  PROVE  /\ TreeType /\ TreeIntact /\ PathsFollowParents /\ Forest!Shallow(Ups)
         /\ rows \subseteq issued /\ issued \subseteq Ids /\ DOMAIN Ups = rows
         /\ \A x \in rows : Ups[x] = parent[x]
  <1>1. TreeType /\ TreeIntact /\ rows \subseteq issued /\ issued \subseteq Ids
    BY DEF IInv, TypeOK, TreeInv, TreeType
  <1>2. DOMAIN Ups = rows /\ \A x \in rows : Ups[x] = parent[x]
    BY DEF Ups
  <1> QED
    BY <1>1, <1>2, ShallowForest DEF TreeIntact

LEMMA NextShallow == IInv' => Forest!Shallow(Ups)'
  <1>1. IInv => Forest!Shallow(Ups)
    BY ForestType
  <1> QED
    BY <1>1, PTL

\* The write of a creation plants the article.
LEMMA CreatePlants ==
  ASSUME IInv, IInv', NEW r \in Requests, WriteTree(r), req[r].op = "create",
         ~UNCHANGED <<issued, rows, parent, path>>
  PROVE  Forest!Grow
  <1>1. PICK a, p : a = req[r].article /\ p = req[r].to
    OBVIOUS
  <1>2. /\ p = NoArticle \/ p \in rows
        /\ issued' = issued \cup {a} /\ rows' = rows \cup {a}
        /\ parent' = [parent EXCEPT ![a] = p]
    BY <1>1 DEF WriteTree
  <1>3. a \in Ids \ issued /\ a \notin rows /\ rows \subseteq Ids
    BY <1>1, ForestType DEF IInv, TreeInv, InTree
  <1>4. \A b \in rows' : parent'[b] = IF b = a THEN p ELSE parent[b]
    BY <1>2, <1>3, ForestType DEF TreeType
  <1>5. Forest!Shallow(Ups)'
    BY NextShallow
  <1>6. Forest!Plant(a, p)
    <2>1. Ups' = [b \in rows \cup {a} |-> IF b = a THEN p ELSE Ups[b]]
      BY <1>2, <1>4 DEF Ups
    <2>2. DOMAIN Ups = rows
      BY DEF Ups
    <2> QED
      BY <1>2, <1>3, <1>5, <2>1, <2>2 DEF Forest!Plant, Ups
  <1>7. Ups' # Ups
    BY <1>2, <1>3 DEF Ups
  <1>8. p \in Ids \cup {NoArticle}
    BY <1>2, <1>3
  <1> QED
    BY <1>3, <1>6, <1>7, <1>8 DEF Forest!Grow, Ups

\* The write of a move moves it, or leaves it where it is.
LEMMA MoveMoves ==
  ASSUME IInv, IInv', NEW r \in Requests, WriteTree(r), req[r].op = "move",
         ~UNCHANGED <<issued, rows, parent, path>>
  PROVE  [Forest!Grow]_(Forest!forest)
  <1>1. PICK a, p : a = req[r].article /\ p = req[r].to
    OBVIOUS
  <1>2. /\ p = NoArticle \/ p \in rows
        /\ a \in rows /\ issued' = issued \cup {a} /\ rows' = rows \cup {a}
        /\ parent' = [parent EXCEPT ![a] = p]
    BY <1>1 DEF WriteTree
  <1>3. a \in Ids /\ issued' = issued /\ rows' = rows /\ rows \subseteq Ids
    BY <1>2, ForestType
  <1>4. p = NoArticle \/ (p \in rows /\ a \notin Forest!Above(Ups, p))
    <2>1. p \notin Under(path[a])
      BY <1>1 DEF IInv, TreeInv, KnowsTree, WriteTree
    <2> QED
      BY <1>2, <2>1, NotAbove, ForestType
  <1>5. Forest!Shallow(Ups)'
    BY NextShallow
  <1>6. Ups' = [Ups EXCEPT ![a] = p]
    <2>1. \A b \in rows : parent'[b] = IF b = a THEN p ELSE parent[b]
      BY <1>2, <1>3, ForestType DEF TreeType
    <2> QED
      BY <1>3, <2>1 DEF Ups
  <1>7. Forest!Move(a, p)
    <2>1. DOMAIN Ups = rows
      BY DEF Ups
    <2> QED
      BY <1>2, <1>3, <1>4, <1>5, <1>6, <2>1 DEF Forest!Move, Ups
  <1>8. p \in Ids \cup {NoArticle}
    BY <1>2, <1>3
  <1>9. CASE Ups' = Ups
    BY <1>3, <1>9 DEF Forest!forest, Ups
  <1>10. CASE Ups' # Ups
    BY <1>3, <1>7, <1>8, <1>10 DEF Forest!Grow, Ups
  <1> QED
    BY <1>9, <1>10

\* A deletion fells the article.
LEMMA DeleteFells ==
  ASSUME IInv, NEW r \in Requests, DeleteArticle(r), req[r].article \in rows
  PROVE  Forest!Grow
  <1>1. PICK a : a = req[r].article
    OBVIOUS
  <1>2. /\ a \in rows /\ a \in Ids /\ issued' = issued /\ rows' = rows \ {a}
        /\ parent' = [c \in Ids |-> IF c \in Children(a) \cup {a}
                                    THEN NoArticle ELSE parent[c]]
    BY <1>1, ForestType DEF DeleteArticle
  <1>3. \A b \in rows \ {a} : parent'[b] = IF parent[b] = a THEN NoArticle ELSE parent[b]
    BY <1>2, ForestType DEF Children
  <1>4. Ups' = [b \in rows \ {a} |-> IF Ups[b] = a THEN NoArticle ELSE Ups[b]]
    BY <1>2, <1>3 DEF Ups
  <1>5. DOMAIN Ups = rows
    BY DEF Ups
  <1>6. Forest!Fell(a)
    BY <1>2, <1>4, <1>5 DEF Forest!Fell, Ups
  <1>7. Ups' # Ups
    BY <1>2 DEF Ups
  <1> QED
    BY <1>2, <1>6, <1>7 DEF Forest!Grow, Ups

\* Every other step leaves articles and parents alone.
LEMMA StepMaps ==
  ASSUME IInv, IInv', [Next]_vars
  PROVE  [Forest!Grow]_(Forest!forest)
  <1>1. CASE UNCHANGED <<issued, rows, parent>>
    BY <1>1 DEF Forest!forest
  <1>2. ASSUME NEW r \in Requests, WriteTree(r) PROVE [Forest!Grow]_(Forest!forest)
    <2>1. req[r].op \in {"create", "move"}
      BY <1>2 DEF WriteTree
    <2> QED
      BY <1>1, <1>2, <2>1, CreatePlants, MoveMoves
  <1>3. ASSUME NEW r \in Requests, DeleteArticle(r) PROVE [Forest!Grow]_(Forest!forest)
    <2>1. CASE req[r].article \in rows
      BY <1>3, <2>1, DeleteFells
    <2>2. CASE req[r].article \notin rows
      BY <1>1, <1>3, <2>2 DEF DeleteArticle
    <2> QED
      BY <2>1, <2>2
  <1>4. CASE UNCHANGED vars
    BY <1>1, <1>4 DEF vars, treeVars
  <1>5. CASE Next
    <2>1. PICK r \in Requests :
            \/ \E a \in Ids, p \in Ids \cup {NoArticle} : StartCreate(r, a, p) \/ StartMove(r, a, p)
            \/ \E a \in Ids : StartDelete(r, a) \/ StartUpload(r, a)
            \/ \E i \in Images : Place(r, i) \/ StartDrop(r, i)
            \/ LockTree(r) \/ CheckTree(r) \/ WriteTree(r) \/ DeleteArticle(r) \/ RemoveObjects(r)
            \/ Upload(r) \/ Link(r) \/ Unstore(r) \/ Unplace(r) \/ DropRow(r)
            \/ Crash(r)
      BY <1>5 DEF Next
    <2>2. ASSUME NEW a \in Ids, NEW p \in Ids \cup {NoArticle},
                 StartCreate(r, a, p) \/ StartMove(r, a, p) \/ StartDelete(r, a) \/ StartUpload(r, a)
          PROVE  UNCHANGED <<issued, rows, parent>>
      BY <2>2 DEF StartCreate, StartMove, StartDelete, StartUpload, treeVars
    <2>3. ASSUME NEW i \in Images, Place(r, i) \/ StartDrop(r, i)
          PROVE  UNCHANGED <<issued, rows, parent>>
      BY <2>3 DEF Place, StartDrop, treeVars
    <2>4. CASE LockTree(r) \/ CheckTree(r) \/ RemoveObjects(r) \/ Upload(r) \/ Link(r)
      BY <1>1, <2>4 DEF LockTree, CheckTree, RemoveObjects, Upload, Link, treeVars
    <2>5. CASE Unstore(r) \/ Unplace(r) \/ DropRow(r) \/ Crash(r)
      BY <1>1, <2>5 DEF Unstore, Unplace, DropRow, Crash, treeVars
    <2> QED
      BY <1>1, <1>2, <1>3, <2>1, <2>2, <2>3, <2>4, <2>5
  <1> QED
    BY <1>4, <1>5

\* ArticleTree implements ArticleForest: concurrent creations, moves and deletions
\* (create_article, update_article, delete, set_path, detach_children) change the
\* tree one article at a time, never below itself and never too deep.
THEOREM ForestKept == Spec => ForestPromise
  <1>1. Init => Forest!Begin
    BY DEF Init, Forest!Begin
  <1>2. IInv /\ IInv' /\ [Next]_vars => [Forest!Grow]_(Forest!forest)
    BY StepMaps
  <1> QED
    BY <1>1, <1>2, Invariant, PTL DEF Spec, ForestPromise, Forest!Promise
=============================================================================
