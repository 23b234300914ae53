----------------------------- MODULE MCSessions -----------------------------
(* A small instance of Sessions for TLC: one account, two requests, seconds*)
(* of two ticks.                                                           *)
EXTENDS Sessions, TLC

CONSTANTS r1, r2, u1

\* Requests are interchangeable; the properties are safety properties.
Interchangeable == Permutations(Requests)
=============================================================================
