SPECIFICATION Spec
CONSTANTS
    r1 = r1
    r2 = r2
    class = class
    sub = sub
    bg = bg
    classFeature = classFeature
    subFeature = subFeature
    feat = feat
    Requests = {r1, r2}
    Subclasses = {sub}
    Backgrounds = {bg}
    Class = class
    Features = {classFeature, subFeature}
    Feats = {feat}
    SourceOf <- MCSourceOf
    LevelOf <- MCLevelOf
    AsiLevels <- MCAsiLevels
    MaxLevel = 3
    Die = 1
    Deltas <- MCDeltas
    HpInputs = {2}
    GmHp = {4}
    MaxKits = 1
    NoRequest = NoRequest
    Null = Null
SYMMETRY Symmetry
INVARIANTS InstanceCurrent AsiResolved AsiFeatsLogged
PROPERTY BuildChangesReconcile
