\* -n 2 -c 2 with -d, -qps, an end of input and two signals: an undisturbed run, and every
\* way it is cut short.  A broken semaphore may start a third request.
CONSTANTS
    Statuses = {"200"}
    NoStatus = "none"
    ChanCap = 1
    MaxRequests = 3
    N = 2
    Goroutines = 2
    QPS = TRUE
    HasDuration = TRUE
    Up = 0
    Down = 0
    HasEOF = TRUE
    MaxSignals = 2
    NoReport = FALSE
    Nop = FALSE
SPECIFICATION Spec
INVARIANTS TypeOK EachOnce TalliesTrue BarFits AllRequestsRun WindowConsistent SemaphoreBounded
           FinalReportComplete NoSendOnClosed
PROPERTIES KeepsPromise
