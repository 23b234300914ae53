CONSTANTS
    Runners = {r1, r2}
    Releases = {46, 69, 82}
    Floor = 39
    MaxUses = 2
    MaxRollbacks = 1
    MaxCrashes = 2
    MaxLag = 1
SPECIFICATION DeploySpec
INVARIANT UpgradesApply
INVARIANT HeadIsTheModels
PROPERTY UpgradesUndone
PROPERTY SchemaMovesWithVersion
PROPERTY ReachesHead
