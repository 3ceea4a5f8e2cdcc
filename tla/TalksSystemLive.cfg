\* Two requests of the app, fairness, no symmetry.
SPECIFICATION FairSystemSpec
CONSTANTS
    None = None
    Ids = {i1, i2, i3, i4, i5, i6}
    Titles = {t1}
    Seeds = {}
    Reqs = {a1, a2}
    AppReqs = {a1, a2}
    Environments = {"testing"}
    MaxCrashes = 0
    MaxWriteFailures = 0
PROPERTIES
    EveryTaskCompletes
    CreatedTalkAppears
CHECK_DEADLOCK FALSE
