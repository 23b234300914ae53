---------------------------- MODULE MCArticles ----------------------------
(* Small instances of Articles for TLC: one article, contents of two texts.*)
EXTENDS Articles, TLC

CONSTANTS a1, p1, r1, r2, t1, t2, t3

Content(title, body) == [title |-> title, body |-> body]

OneDraft == {Content(t1, t1)}
\* A proposal replaced by the second draft conflicts with the edit, the first merges.
TwoDrafts == {Content(t1, t1), Content(t3, t3)}
Title == {[title |-> t2]}
Body == {[body |-> t2]}
=============================================================================
