CONSTANTS
    Rows = {r1, r2, r3}
    MaxOpens = 3
    MayCrash = TRUE
    MayFail = TRUE
SYMMETRY RowSymmetry
SPECIFICATION Spec
INVARIANTS TypeOK RowsSurvive PlotsReadable
CHECK_DEADLOCK FALSE
