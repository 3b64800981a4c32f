SPECIFICATION Spec
CONSTANTS
    ann = ann
    bob = bob
    c1 = c1
    c2 = c2
    c3 = c3
    None = None
    Player = {ann, bob}
    Hero = {h1, h2}
    Conn = {c1, c2, c3}
    PlayerOf <- TwoAndOne
    StarterOf = {bob}
    MaxGrants = 4
INVARIANTS
    OneWholeHero
    GrantsKept
    CountNotAhead
PROPERTIES
    RowsKept
SYMMETRY TwinSymmetry
