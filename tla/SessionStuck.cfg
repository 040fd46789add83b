SPECIFICATION FairSpec
CONSTANTS
    v1 = v1
    v2 = v2
    Vaults = {v1}
    Enrolled = {v1}
    NoVault = NoVault
    NoCommand = NoCommand
    ReviewsWait = TRUE
    MaxTasks = 3
    MaxLater = 2
    MaxReloads = 0
    MaxFailures = 0
CHECK_DEADLOCK FALSE
PROPERTIES TeardownEnds
