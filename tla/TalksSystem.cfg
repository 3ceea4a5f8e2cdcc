\* Two requests of the app and one of another client race with the seeding; one
\* write transaction of the app may fail.
SPECIFICATION SystemSpec
CONSTANTS
    None = None
    Ids = {i1, i2, i3}
    Titles = {t1}
    Seeds = {s1}
    Reqs = {a1, a2, o1}
    AppReqs = {a1, a2}
    Environments = {"development"}
    MaxCrashes = 0
    MaxWriteFailures = 1
SYMMETRY Symmetry
INVARIANTS
    SystemTypeOK
    OfflineStaysOffline
PROPERTIES
    ImplementsTalksServer
    FetchMirrorsResponse
    DeletedForGood
CHECK_DEADLOCK FALSE
