---------------------------- MODULE MCFeatureEngine ----------------------------
\* A class feature that comes at level 2 and a feat the character has and can take then, each
\* with one group.  Of the feature's options one is of old and open, one gives nothing.
EXTENDS FeatureEngine, TLC

CONSTANTS r1, r2, c1, trait, feat

MCKeys == [t \in EffectTypes |-> IF t = "ability" THEN {"STR"} ELSE IF t = "skill" THEN {"stealth", "any"} ELSE {}]
MCAmounts == [t \in EffectTypes |-> IF t = "ability" THEN {1, -1} ELSE {0}]
MCLevelOf == [f \in {trait} |-> 2]

MCTree ==
    {Group(1, trait, "skill", 1), Option(2, 1), Option(3, 1), Option(4, 1),
     Group(5, feat, "ability", 1), Option(6, 5), Option(7, 5)}
    \cup {[kind |-> "effect", owner |-> 2, type |-> "skill", key |-> "stealth", amount |-> 0],
          [kind |-> "effect", owner |-> 3, type |-> "skill", key |-> "any", amount |-> 0],
          [kind |-> "effect", owner |-> 6, type |-> "ability", key |-> "STR", amount |-> 1],
          [kind |-> "effect", owner |-> 7, type |-> "ability", key |-> "STR", amount |-> -1]}

MCGrants == {[c \in {c1} |-> [f \in {trait, feat} |-> IF f = feat THEN "GM" ELSE ""]]}
Symmetry == Permutations({r1, r2})
=============================================================================
