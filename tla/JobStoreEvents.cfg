\* The event log: two attempts, console output, events of two sizes, and limits
\* that both of them reach.
SPECIFICATION FairSpec
CONSTANTS
    Exec = {e1}
    Token = {t1, t2}
    DispatchToken = {}
    None = None
    Judgement = {"ACCEPTED"}
    LeaseMs = 1
    CancelGraceMs = 1
    MaxAttempts = 2
    QueueTtl = 1
    JobWindow = 2
    ReofferMs = 1
    DispatchMs = 1
    Backoff = {1}
    ReplayRows = 2
    ReplayBytes = 3
    EventBytes = {1, 2}
    ActiveAllowed = TRUE
    Skew = 0
    LastArrival = 0
    MaxTime = 3
    MaxConsole = 2
INVARIANTS
    EventLog
PROPERTIES
    EndsOnce
    KeepsPublicLog
    AcceptedEnds
