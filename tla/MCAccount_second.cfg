SPECIFICATION Spec
CONSTANTS
    None = None
    Email = {"ann@x", "bob@x"}
    Password = {"p1"}
    Name = {"ann", "bob"}
    NameOf <- OwnName
    Hash <- DistinctHash
    IdRange = 2
    Request = {r1, r2, r3}
    Session = {}
    MaxFaults = 0
INVARIANTS
    UnlockedByDefault
SYMMETRY Symmetric
CHECK_DEADLOCK FALSE
