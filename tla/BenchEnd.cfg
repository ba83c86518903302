\* -ci 1:10s:1 -n 2: workers come one by one, the input may end, and the run does in any case.
CONSTANTS
    Statuses = {}
    NoStatus = "none"
    ChanCap = 1
    MaxRequests = 2
    N = 2
    Goroutines = 2
    QPS = FALSE
    HasDuration = FALSE
    Up = 1
    Down = 1
    HasEOF = TRUE
    MaxSignals = 0
    NoReport = TRUE
    Nop = FALSE
SPECIFICATION Spec
INVARIANTS NoSendOnClosed
PROPERTIES Termination
