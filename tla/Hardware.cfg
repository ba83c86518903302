CONSTANTS
    Setups <- MCSetups
    Matched = {1, 2}
    Dummies = {3}
    Gatherers = {collector, web}
    Pages = {page1, page2}
    Width = 4
    Start = 3
SPECIFICATION Spec
INVARIANTS TypeOK AloneExact PointsMatchSeries
\* The model ends at its bounds, the code with the process.
CHECK_DEADLOCK FALSE
