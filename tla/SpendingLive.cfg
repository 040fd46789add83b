SPECIFICATION FairSpec
CONSTANTS
    Tabs = {t1}
    Ops = {o1, o2}
    Payments = {pA}
    MaxJournal = 2
    MaxCrashes = 1
    MaxRequests = 1
    NoTab = NoTab
    NoOp = NoOp
    NoRec = NoRec
    NoPayment = NoPayment
INVARIANTS
    UnfinishedRecoverable
PROPERTIES
    AcceptedIsConfirmed
