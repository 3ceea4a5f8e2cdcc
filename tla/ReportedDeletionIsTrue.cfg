\* A deletion of the app meets a failing SQL statement on the server.
SPECIFICATION SystemSpec
CONSTANTS
    None = None
    Ids = {i1, i2, i3}
    Titles = {t1}
    Seeds = {s1}
    Reqs = {a1, a2}
    AppReqs = {a1, a2}
    Environments = {"development"}
    MaxCrashes = 0
    MaxWriteFailures = 0
INVARIANTS
    ReportedDeletionIsTrue
CHECK_DEADLOCK FALSE
