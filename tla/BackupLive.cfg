SPECIFICATION FairSpec
CONSTANTS
    Devices = {d1}
    Tabs = {i1}
    Records = {r1, r2}
    StaleOpens = TRUE
    MaxRevision = 3
    MaxRequests = 2
    MaxCrashes = 1
    NoFile = NoFile
    NoPage = NoPage
    NoSession = NoSession
PROPERTIES
    RecordBackedUp
