---------------------------- MODULE ArticleForest ----------------------------
(***************************************************************************)
(* What the tree of articles promises, whatever requests do at once: a     *)
(* forest that changes one article at a time.  An article is planted at    *)
(* the end of a branch, moved with all that is below it to a place that is *)
(* not below itself, or felled, and then its children are roots.  No       *)
(* branch is ever longer than MaxDepth.  ArticleTree, which keeps paths    *)
(* and checks before it writes, implements it.                             *)
(***************************************************************************)
EXTENDS Integers, FiniteSets

CONSTANTS Ids, NoArticle, MaxDepth

VARIABLES
    planted,   \* the articles there have been
    up         \* per article there is, its parent, or NoArticle

forest == <<planted, up>>

\* With an article, its parent is in S; and what is in every such set with a:
\* a, its parent, and so on.
Closed(u, S) == \A b \in S : u[b] = NoArticle \/ u[b] \in S
Above(u, a) == {b \in DOMAIN u : \A S \in SUBSET DOMAIN u : a \in S /\ Closed(u, S) => b \in S}

Shallow(u) == \A a \in DOMAIN u : Cardinality(Above(u, a)) <= MaxDepth

Begin == planted = {} /\ up = [a \in {} |-> NoArticle]

Plant(a, p) ==
    /\ a \notin planted
    /\ p = NoArticle \/ p \in DOMAIN up
    /\ planted' = planted \cup {a}
    /\ up' = [b \in DOMAIN up \cup {a} |-> IF b = a THEN p ELSE up[b]]
    /\ Shallow(up')

Move(a, p) ==
    /\ a \in DOMAIN up
    /\ up' = [up EXCEPT ![a] = p]
    /\ p = NoArticle \/ (p \in DOMAIN up /\ a \notin Above(up, p))
    /\ Shallow(up')
    /\ UNCHANGED planted

Fell(a) ==
    /\ a \in DOMAIN up
    /\ up' = [b \in DOMAIN up \ {a} |-> IF up[b] = a THEN NoArticle ELSE up[b]]
    /\ UNCHANGED planted

Grow ==
    /\ up' # up
    /\ \E a \in Ids :
        \/ \E p \in Ids \cup {NoArticle} : Plant(a, p) \/ Move(a, p)
        \/ Fell(a)

Promise == Begin /\ [][Grow]_forest
=============================================================================
