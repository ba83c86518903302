CONSTANTS
    Rows = {r1, r2}
    MaxOpens = 2
    MayCrash = FALSE
    MayFail = FALSE
SPECIFICATION Spec
INVARIANTS ArchiveViewable
CHECK_DEADLOCK FALSE
