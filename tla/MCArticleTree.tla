---------------------------- MODULE MCArticleTree ----------------------------
(* Small instances of ArticleTree for TLC: four articles, two requests.    *)
EXTENDS ArticleTree, TLC

CONSTANTS a1, a2, a3, a4, i1, r1, r2

\* Requests and articles are interchangeable; only safety is checked.
Interchangeable == Permutations(Requests) \cup Permutations(Ids)
=============================================================================
