---------------------------- MODULE CampaignSeats ----------------------------
(***************************************************************************)
(* What campaigns promise about their rosters, whatever requests do at     *)
(* once: a book of participations.  A character sits down at an open       *)
(* table, and at one only; whoever gets up is on record with how it ended, *)
(* which is never rewritten, though a record may be struck out (REMOVED);  *)
(* a table that shuts retires all who sit there in the same step.  Records *)
(* go with their character only.  Campaigns implements it.                 *)
(***************************************************************************)
CONSTANTS Campaigns, Characters, PartIds, Ended

VARIABLES
    around,   \* the characters there are
    open,     \* the campaigns that take characters
    book      \* per participation: table, character, status, how it ended

roster == <<around, open, book>>

Seated(p) == book[p].status = "ACTIVE"
Ending(record, how) == [record EXCEPT !.status = how, !.ended = how]

Begin == around = Characters /\ open = {} /\ book = [p \in {} |-> {}]

Open(c) ==
    /\ open' = open \cup {c}
    /\ UNCHANGED <<around, book>>

Shut(c) ==
    /\ open' = open \ {c}
    /\ book' = [p \in DOMAIN book |->
                    IF book[p].table = c /\ Seated(p) THEN Ending(book[p], "RETIRED") ELSE book[p]]
    /\ UNCHANGED around

SitDown(p, h, c) ==
    /\ p \notin DOMAIN book
    /\ h \in around /\ c \in open
    /\ \A q \in DOMAIN book : Seated(q) => book[q].who # h
    /\ book' = [q \in DOMAIN book \cup {p} |->
                    IF q = p THEN [table |-> c, who |-> h, status |-> "ACTIVE", ended |-> ""] ELSE book[q]]
    /\ UNCHANGED <<around, open>>

GetUp(p, how) ==
    /\ p \in DOMAIN book /\ Seated(p)
    /\ book' = [book EXCEPT ![p] = Ending(@, how)]
    /\ UNCHANGED <<around, open>>

StrikeOut(p) ==
    /\ p \in DOMAIN book /\ ~Seated(p)
    /\ book' = [book EXCEPT ![p].status = "REMOVED"]
    /\ UNCHANGED <<around, open>>

Depart(hs) ==
    /\ around' = around \ hs
    /\ book' = [p \in {q \in DOMAIN book : book[q].who \notin hs} |-> book[p]]
    /\ UNCHANGED open

Turn ==
    \/ \E c \in Campaigns : Open(c) \/ Shut(c)
    \/ \E p \in PartIds :
        \/ \E h \in Characters, c \in Campaigns : SitDown(p, h, c)
        \/ \E how \in Ended : GetUp(p, how)
        \/ StrikeOut(p)
    \/ \E hs \in SUBSET Characters : Depart(hs)

Promise == Begin /\ [][Turn]_roster
=============================================================================
