SPECIFICATION Spec
CONSTANTS
    Pages = {p1, p2}
    Observer = Observer
    MaxQuotes = 1
    MaxOps = 2
    Reopened = {}
    MaxBuilds = 2
    MaxCrashes = 1
    LookupFails = TRUE
    NoRecord = NoRecord
    NoHolder = NoHolder
INVARIANTS TypeOK LockupIsRecorded QuoteFundedOnce RefundReplays RetiredIsOver
PROPERTIES FundingIsLabelled
CHECK_DEADLOCK FALSE
