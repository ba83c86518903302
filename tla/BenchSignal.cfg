\* No limit, -qps and a signal: the run comes to its end, and its report is complete.
CONSTANTS
    Statuses = {}
    NoStatus = "none"
    ChanCap = 1
    MaxRequests = 2
    N = 0
    Goroutines = 2
    QPS = TRUE
    HasDuration = FALSE
    Up = 0
    Down = 0
    HasEOF = FALSE
    MaxSignals = 1
    NoReport = TRUE
    Nop = FALSE
SPECIFICATION Spec
INVARIANTS EachOnce FinalReportComplete
PROPERTIES SignalEnds
