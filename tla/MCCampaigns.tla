---------------------------- MODULE MCCampaigns ----------------------------
(* A small instance of Campaigns for TLC: two tables of one GM, one player *)
(* with one character, and the founder.                                    *)
EXTENDS Campaigns, TLC

CONSTANTS c1, c2, h1, gm, player, p1, p2, s1, s2, v1, v2, r1, r2

Owners == [h \in Characters |-> player]

Interchangeable == Permutations(Campaigns) \cup Permutations(Requests)
                    \cup Permutations(PartIds) \cup Permutations(SessionIds)
=============================================================================
