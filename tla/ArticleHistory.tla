--------------------------- MODULE ArticleHistory ---------------------------
(***************************************************************************)
(* What the articles feature promises, whatever requests do at once: an    *)
(* article is an append-only history of contents, of which it shows the    *)
(* last, and a status that moves only along the review workflow.  Articles *)
(* implements it.                                                          *)
(***************************************************************************)
EXTENDS Sequences

CONSTANTS Ids, Contents

VARIABLES
    history,   \* the contents of an article, oldest first; <<>> if there is none
    status     \* where it is in the review workflow, or "absent"

promised == <<history, status>>

\* A new article is a draft; it can be reviewed, published, taken down, reworked.
Moves == {<<"draft", "in_review">>, <<"in_review", "published">>, <<"in_review", "draft">>,
          <<"draft", "archived">>, <<"in_review", "archived">>, <<"published", "archived">>,
          <<"archived", "draft">>}

Begin ==
    /\ history = [i \in Ids |-> <<>>]
    /\ status = [i \in Ids |-> "absent"]

Appear(i, c) ==
    /\ status[i] = "absent"
    /\ history' = [history EXCEPT ![i] = <<c>>]
    /\ status' = [status EXCEPT ![i] = "draft"]

\* Whoever writes it, whatever its status: a published article stays published.
Write(i, c) ==
    /\ status[i] # "absent"
    /\ history' = [history EXCEPT ![i] = Append(@, c)]
    /\ UNCHANGED status

Move(i) ==
    /\ \E move \in Moves :
        /\ status[i] = move[1]
        /\ status' = [status EXCEPT ![i] = move[2]]
    /\ UNCHANGED history

Vanish(i) ==
    /\ status[i] # "absent"
    /\ history' = [history EXCEPT ![i] = <<>>]
    /\ status' = [status EXCEPT ![i] = "absent"]

Evolve ==
    \E i \in Ids :
        \/ Move(i)
        \/ Vanish(i)
        \/ history' # history /\ \E c \in Contents : Appear(i, c) \/ Write(i, c)

Promise == Begin /\ [][Evolve]_promised
=============================================================================
