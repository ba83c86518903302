\* -ci 1:10s:1: does a worker stop when its context is cancelled?
CONSTANTS
    Statuses = {"200"}
    NoStatus = "none"
    ChanCap = 1
    MaxRequests = 3
    N = 0
    Goroutines = 2
    QPS = FALSE
    HasDuration = FALSE
    Up = 1
    Down = 1
    HasEOF = FALSE
    MaxSignals = 0
    NoReport = TRUE
    Nop = FALSE
SPECIFICATION Spec
PROPERTIES DownStopsWorkers
