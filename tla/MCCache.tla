------------------------------ MODULE MCCache ------------------------------
(* Small instances of Cache for TLC: one cached listing of the namespace
   "c", one payload of the two-segment namespace "c7" below it. *)
EXTENDS Cache, TLC

CONSTANTS k1, k2, r1, r2, r3, w1, w2, c, c7

P(ns, ks) == [ns |-> ns, keys |-> ks, flush |-> FALSE]

MCUnder == [n \in {c, c7} |-> IF n = c THEN {k1, k2} ELSE {k1}]
MCIndexOf == [n \in {c, c7} |-> n]
MCTop == [n \in {c, c7} |-> c]

OneWorker == [r \in Requests |-> w1]

WriteAll == [changes |-> {k1, k2}, purges |-> {P({c}, {})}]
WriteBoth == [changes |-> {k1, k2}, purges |-> {P({c7}, {}), P({}, {k2})}]

RaceWrites == {WriteAll, WriteBoth}

\* One payload, with a namespace purge and an exact-key purge after the commit.
OneKeyUnder == [n \in {c, c7} |-> {k1}]
OneKeyWrites == {[changes |-> {k1}, purges |-> {P({c7}, {}), P({}, {k1})}]}
=============================================================================
