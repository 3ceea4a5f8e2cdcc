\* A creation of the app meets a transport error.
SPECIFICATION SystemSpec
CONSTANTS
    None = None
    Ids = {i1, i2, i3}
    Titles = {t1}
    Seeds = {s1}
    Reqs = {a1, a2}
    AppReqs = {a1, a2}
    Environments = {"development"}
    MaxCrashes = 0
    MaxWriteFailures = 0
INVARIANTS
    OneTalkPerFailedCreate
CHECK_DEADLOCK FALSE
