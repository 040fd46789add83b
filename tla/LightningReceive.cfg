SPECIFICATION Spec
CONSTANTS
    Receives = {r1, a1}
    Addressed = {a1}
    Twice = {r1}
    MaxFunded = 2
    MaxImports = 1
    MaxRestores = 1
    MaxFailures = 1
    NoRecord = NoRecord
    NoClaim = NoClaim
INVARIANTS TypeOK SecretBuysOneOutput
PROPERTY FundedIsReceived
CHECK_DEADLOCK FALSE
