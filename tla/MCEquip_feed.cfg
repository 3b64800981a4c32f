SPECIFICATION Spec
CONSTANTS
    ann = ann
    bob = bob
    c1 = c1
    c2 = c2
    cube = cube
    dust = dust
    None = None
    Player = {ann, bob}
    Conn = {c1, c2}
    PlayerOf <- OneEach
    Kind = {cube, dust}
    Material = {dust}
    Universal = {}
    LockedKind = {}
    Starter <- AnnStarts
    MaxRefine = 2
    MaxBreak = 1
    BreakAt = 1
    Lots <- Numbers
    Takes <- Numbers
    MaxEaten = 2
    MaxRequests = 4
    MaxUid = 2
INVARIANTS
    NothingFromNothing
PROPERTIES
    OthersUntouched
    LockedStays
