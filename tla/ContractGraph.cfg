\* The state graph of the shared contract against the recovery of a running
\* attempt.
SPECIFICATION Spec
CONSTANTS
    Exec = {e1}
    Token = {t1, t2}
    DispatchToken = {}
    None = None
    Judgement = {"ACCEPTED"}
    LeaseMs = 2
    CancelGraceMs = 1
    MaxAttempts = 2
    QueueTtl = 2
    JobWindow = 3
    ReofferMs = 1
    DispatchMs = 1
    Backoff = {1}
    ReplayRows = 2
    ReplayBytes = 2
    EventBytes = {1}
    ActiveAllowed = TRUE
    Skew = 1
    LastArrival = 0
    MaxTime = 6
    MaxConsole = 0
PROPERTIES
    ContractGraph
