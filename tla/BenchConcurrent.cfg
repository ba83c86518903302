\* -ci 1: does the final summary show no concurrency?
CONSTANTS
    Statuses = {"200"}
    NoStatus = "none"
    ChanCap = 1
    MaxRequests = 2
    N = 2
    Goroutines = 2
    QPS = FALSE
    HasDuration = FALSE
    Up = 1
    Down = 0
    HasEOF = FALSE
    MaxSignals = 0
    NoReport = FALSE
    Nop = FALSE
SPECIFICATION Spec
INVARIANTS FinalConcurrentZero
