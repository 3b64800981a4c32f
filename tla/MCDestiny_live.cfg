SPECIFICATION FairSpec
CONSTANTS
    h1 = h1
    h2 = h2
    h3 = h3
    gold = gold
    dust = dust
    None = None
    Hero = {h1, h3}
    Eligible <- TwoHeroes
    Material = {gold}
    Stone = {}
    Slot <- OneNode
    SlotCost <- OneNodeCost
    Facet <- NoFacet
    FacetCost <- NoStoneCost
    Arg = {0}
    MaxAmount = 5
    Session = {s1, s2}
    Reader = {r1}
    Spender = {p1}
    MaxAttempts = 2
    PoolSize = 1
    StartBalance <- StartGold
    MaxBalance = 1
    Character <- NoKits
    Replacement <- NoLevels
    ExRow <- NoLevels
    MaxEx <- NoExLevels
    FacetRow <- NoRows
    ReshapeRow <- NoRows
    SlotEffect <- NoLevels
    Attribute = {}
    Percent = {}
    Base <- NoLevels
INVARIANTS
    Ledger
PROPERTIES
    NeverOverdraws
    EveryCommandAnswered
