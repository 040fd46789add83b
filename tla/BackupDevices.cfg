SPECIFICATION Spec
CONSTANTS
    Devices = {d1, d2}
    Tabs = {i1}
    Records = {r1}
    StaleOpens = FALSE
    MaxRevision = 2
    MaxRequests = 2
    MaxCrashes = 0
    NoFile = NoFile
    NoPage = NoPage
    NoSession = NoSession
SYMMETRY Symmetry
INVARIANTS
    TypeOK
    SessionMatchesCloud
    ReportedWasUploaded
PROPERTIES
    OwnRecordsKept
