SPECIFICATION Spec
CONSTANTS
    None = None
    Email = {"ann@x", "bob@x", "cid@x"}
    Password = {"p1", "p2"}
    Name = {"ann", "bob", "cid"}
    NameOf <- OwnName
    Hash <- CollidingHash
    IdRange = 2
    Request = {r1, r2, r3}
    Session = {s1}
    MaxFaults = 1
INVARIANTS
    AnswerOwns
    CreatorAlone
PROPERTIES
    OwnerKept
    FirstHasAll
SYMMETRY Symmetric
CHECK_DEADLOCK FALSE
