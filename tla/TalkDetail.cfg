\* Two texts and two dates: a field or the date can change and change back.
SPECIFICATION Spec
CONSTANTS
    None = None
    Texts = {x1, x2}
    Dates = {d1, d2}
SYMMETRY Symmetry
INVARIANTS
    TypeOK
    DateSectionWellformed
    CrashOnlyWhenGone
    NothingUnsent
CHECK_DEADLOCK FALSE
