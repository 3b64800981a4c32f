SPECIFICATION Spec
CONSTANTS
    h1 = h1
    h2 = h2
    h3 = h3
    gold = gold
    dust = dust
    None = None
    Hero = {h1}
    Eligible <- OneHero
    Material = {gold, dust}
    Stone = {1, 2}
    Slot <- OneHeroSlot
    SlotCost <- OneHeroSlotCost
    Facet <- OneHeroFacet
    FacetCost <- StoneCost
    Arg = {0, 1, 2}
    MaxAmount = 5
    Session = {s1, s2}
    Reader = {r1}
    Spender = {}
    MaxAttempts = 2
    PoolSize = 2
    StartBalance <- Start
    MaxBalance = 0
    Character <- OneCharacter
    Replacement <- OneReplacement
    ExRow <- OneExRow
    MaxEx <- OneMaxEx
    FacetRow <- OneFacetRow
    ReshapeRow <- OneReshapeRow
    SlotEffect <- OneSlotEffect
    Attribute = {"hp", "atk"}
    Percent = {"atk"}
    Base <- OneBase
INVARIANTS
    PlanStaysCurrent
    RowsValid
PROPERTIES
    FightsAsPaid
    ImplementsAtomic
    PaidMeansAdvanced
SYMMETRY SessionSymmetry
