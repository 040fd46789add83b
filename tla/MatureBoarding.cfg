SPECIFICATION FairSpec
CONSTANTS
    p1 = p1
    p2 = p2
    k1 = k1
    k2 = k2
    s1 = s1
    s2 = s2
    s3 = s3
    x1 = x1
    Pages = {p1, p2}
    Recovering = {p1}
    Coins = {k1, k2}
    Sweeps = {s1, s2, s3}
    Foreign = {s1}
    Rivals = {x1}
    Inputs <- MCInputs
    MaxFaults = 1
    Nothing = Nothing
INVARIANTS TypeOK SentIsJournaled
PROPERTIES KeptUntilBackedUp ConfirmedIsRetired
CHECK_DEADLOCK FALSE
