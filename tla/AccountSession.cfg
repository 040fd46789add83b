SPECIFICATION FairSpec
CONSTANTS
    v1 = v1
    v2 = v2
    Vaults = {v1, v2}
    Enrolled = {v1}
    NoVault = NoVault
    NoCommand = NoCommand
    ReviewsWait = FALSE
    MaxTasks = 4
    MaxLater = 2
    MaxReloads = 1
    MaxFailures = 1
INVARIANTS TypeOK LockedLeavesNothing ReviewOfThisSession
CHECK_DEADLOCK FALSE
PROPERTIES NeededKeysKept TeardownEnds
