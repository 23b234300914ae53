CONSTANTS
    r1 = r1
    r2 = r2
    c1 = c1
    trait = trait
    feat = feat
    Requests = {r1, r2}
    Characters = {c1}
    Features = {trait, feat}
    Feats = {feat}
    LevelOf <- MCLevelOf
    AsiLevels = {2}
    Keys <- MCKeys
    Open = "any"
    Amounts <- MCAmounts
    Base = 2
    InitTree <- MCTree
    InitGrants <- MCGrants
    MaxGroups = 2
    PickCounts = {1, 2}
    MaxLevel = 2
    MaxIds = 9
    EditCost = 2
    MaxStarts = 4
SYMMETRY Symmetry
SPECIFICATION EngineSpec
INVARIANTS TreeRules ShownIsCounted NeverOverPicked TotalsFollow
PROPERTY LevelUpLeavesNothingPending
CHECK_DEADLOCK FALSE
