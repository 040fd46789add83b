SPECIFICATION Spec
CONSTANTS
    Tabs = {t1, t2}
    Ops = {o1, o2}
    Payments = {pA, pB}
    MaxJournal = 2
    MaxCrashes = 0
    MaxRequests = 1
    NoTab = NoTab
    NoOp = NoOp
    NoRec = NoRec
    NoPayment = NoPayment
SYMMETRY Symmetry
INVARIANTS
    TypeOK
    CopyIsCurrent
    SubmittedOnce
    ConfirmedIsFinal
PROPERTIES
    EvidenceGrows
    KeepsPromise
