\* Two attempts and cancellation; one fault at the first instant, and time to make
\* up for it.
SPECIFICATION FairHeartbeat
CONSTANTS
    Exec = {e1}
    Token = {t1, t2}
    DispatchToken = {d1}
    None = None
    Judgement = {"ACCEPTED"}
    LeaseMs = 1
    CancelGraceMs = 1
    MaxAttempts = 2
    QueueTtl = 9
    JobWindow = 9
    ReofferMs = 0
    DispatchMs = 1
    Backoff = {1}
    ReplayRows = 1
    ReplayBytes = 1
    EventBytes = {1}
    ActiveAllowed = TRUE
    Skew = 0
    LastArrival = 0
    MaxTime = 1
    MaxConsole = 0
    Worker = {w1}
    MaxStalledCount = 1
    MaxFaults = 1
    LastFault = 0
PROPERTIES
    Attempted
    AbortReaches
