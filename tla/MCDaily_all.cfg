SPECIFICATION Spec
CONSTANTS
    None = None
    Conn = {c1, c2}
    MaxDay = 3
    Week <- ThreeWeeks
    Month <- ThreeMonths
    Milestone = {2}
    Gift = {g1}
    CardUntil = 3
    Accounts <- OneThing
    Limited = {"week"}
    MaxLogins = 3
    MaxOverlaps = 2
    MaxPaid = 2
    FirstOverlap = 3
INVARIANTS
    AddupCountsDays
    CacheIsStored
    PaidOncePerClaim
    ShopResets
PROPERTIES
    ClaimedGiftsSettle
SYMMETRY ConnSymmetry
