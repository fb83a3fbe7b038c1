\* One execution of two attempts under the statements of a dispatcher, with every
\* lease that was ever granted still in somebody's hands and an API clock one unit off.
SPECIFICATION Spec
CONSTANTS
    Exec = {e1}
    Token = {t1, t2}
    DispatchToken = {d1}
    None = None
    Judgement = {"ACCEPTED"}
    LeaseMs = 2
    CancelGraceMs = 1
    MaxAttempts = 2
    QueueTtl = 1
    JobWindow = 2
    ReofferMs = 1
    DispatchMs = 1
    Backoff = {1}
    ReplayRows = 1
    ReplayBytes = 1
    EventBytes = {1}
    ActiveAllowed = TRUE
    Skew = 1
    LastArrival = 0
    MaxTime = 3
    MaxConsole = 0
SYMMETRY Tokens
INVARIANTS
    OneLeasePerAttempt
    LeaseBounded
    OutcomeExplained
    RecoveryFollowsLapse
PROPERTIES
    AuthorityNeverReturns
    CancellationGrace
    AcceptedByDatabase
