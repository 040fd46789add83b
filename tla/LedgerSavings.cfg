SPECIFICATION Spec
CONSTANTS
    p1 = p1
    p2 = p2
    k1 = k1
    k2 = k2
    c1 = c1
    c2 = c2
    d1 = d1
    d2 = d2
    Pages = {p1, p2}
    Coins = {k1, k2}
    Candidates = {c1, c2}
    Drafts = {d1, d2}
    Inputs <- MCInputs
    Draft <- MCDraft
    Does <- MCDoes
    HistoryLimit = 1
    MaxFaults = 1
    Nothing = Nothing
INVARIANTS TypeOK OnePayable
PROPERTIES ApprovalOnlyGrows
CHECK_DEADLOCK FALSE
