SPECIFICATION Spec
CONSTANTS
    r1 = r1
    r2 = r2
    stealth = stealth
    dex = dex
    light = light
    bow = bow
    rogue = rogue
    wizard = wizard
    elf = elf
    spy = spy
    sage = sage
    feature = feature
    option = option
    Requests = {r1, r2}
    Skills = {stealth}
    Throws = {dex}
    Armor = {light}
    Weapons = {bow}
    Classes = {rogue, wizard}
    Races = {elf}
    Backgrounds = {spy, sage}
    Grants <- MCGrants
    ChoiceCount <- MCChoiceCount
    Offers <- MCOffers
    Builds <- MCBuilds
    MaxDecided = 1
    Bare = {spy}
    Features = {feature}
    Options = {option}
    Effects <- MCEffects
    NoRequest = NoRequest
    Null = Null
SYMMETRY Symmetry
INVARIANTS RowsFollowBuild DecidedOnCurrent
PROPERTIES GmDecides AsAsked
