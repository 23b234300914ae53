-------------------------- MODULE MCCharacterSheet --------------------------
(* A small instance of CharacterSheet for TLC.                             *)
EXTENDS CharacterSheet, TLC

CONSTANTS r1, r2, class, sub, bg, classFeature, subFeature, feat

MCSourceOf == (classFeature :> class) @@ (subFeature :> sub)
MCLevelOf == (classFeature :> 2) @@ (subFeature :> 1)
MCDeltas == {-2, 1}
MCAsiLevels == {2}

Symmetry == Permutations(Requests)
=============================================================================
