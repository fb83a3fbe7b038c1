\* One execution of two attempts, two slots, two dispatch processes, one fault:
\* lapsed leases and dispatch claims whose holders are still under way.
SPECIFICATION PipelineSpec
CONSTANTS
    Exec = {e1}
    Token = {t1, t2}
    DispatchToken = {d1, d2}
    None = None
    Judgement = {"ACCEPTED"}
    LeaseMs = 1
    CancelGraceMs = 1
    MaxAttempts = 2
    QueueTtl = 1
    JobWindow = 2
    ReofferMs = 0
    DispatchMs = 1
    Backoff = {1}
    ReplayRows = 1
    ReplayBytes = 1
    EventBytes = {1}
    ActiveAllowed = FALSE
    Skew = 0
    LastArrival = 0
    MaxTime = 1
    MaxConsole = 0
    Worker = {w1, w2}
    MaxStalledCount = 1
    MaxFaults = 1
    LastFault = 1
SYMMETRY Interchangeable
INVARIANTS
    DeliveryConsumed
