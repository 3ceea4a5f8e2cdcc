\* Two requests race with seeding, one crash and the restarts after it, under
\* fairness; no symmetry, which liveness does not allow.
SPECIFICATION FairSpec
CONSTANTS
    None = None
    Ids = {i1, i2, i3}
    Titles = {t1}
    Seeds = {s1, s2}
    Reqs = {r1, r2}
    Environments = {"development", "testing"}
    MaxCrashes = 1
INVARIANTS
    TypeOK
    AckedDeleteIsFinal
    AckedCreateIsDurable
    SeededOnce
PROPERTIES
    ImplementsTalkStore
    EveryRequestSettles
CHECK_DEADLOCK FALSE
