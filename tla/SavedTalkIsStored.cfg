\* One POST of a talk that brings its own identifier.
SPECIFICATION Spec
CONSTANTS
    None = None
    Ids = {i1, i2}
    Titles = {t1}
    Seeds = {s1}
    Reqs = {r1}
    Environments = {"development"}
    MaxCrashes = 0
INVARIANTS
    SavedTalkIsStored
CHECK_DEADLOCK FALSE
