SPECIFICATION FairSpec
CONSTANTS
    Tabs = {t1}
    Ops = {o1, o2}
    MaxCrashes = 1
    PromptPages = TRUE
    NoTab = NoTab
    NoOp = NoOp
    NoJournal = NoJournal
INVARIANTS
    TypeOK
    UnfinishedIsJournaled
    EvidenceBeforeRequest
    ReplacementBackedUp
PROPERTIES
    EvidenceKept
    PaymentResolves
