SPECIFICATION Spec
CONSTANTS
    None = None
    Conn = {c1, c2}
    MaxDay = 1
    Week <- OneWeek
    Month <- OneWeek
    Milestone = {}
    Gift = {g1}
    CardUntil = 0
    Accounts <- Gifted
    Limited = {}
    MaxLogins = 2
    MaxOverlaps = 2
    FirstOverlap = 1
    MaxPaid = 2
INVARIANTS
    SignRewardPaidOnce
