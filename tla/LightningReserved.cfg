SPECIFICATION Spec
CONSTANTS
    Pages = {p1, p2}
    Observer = Observer
    MaxQuotes = 1
    MaxOps = 2
    Reopened = {1, 2}
    MaxBuilds = 2
    MaxCrashes = 1
    LookupFails = TRUE
    NoRecord = NoRecord
    NoHolder = NoHolder
INVARIANT FundingTargetKept
CHECK_DEADLOCK FALSE
