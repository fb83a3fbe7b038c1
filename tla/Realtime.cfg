\* One execution, queued and then claimed, and one connection at a time, reopened.
SPECIFICATION FairRealtime
CONSTANTS
    Exec = {e1}
    Socket = {s1}
    None = None
    MaxSubscriptions = 1
    MaxAttempt = 1
    MaxLast = 2
    MaxSent = 1
    MaxBacklog = 0
CHECK_DEADLOCK FALSE
INVARIANTS
    NoGap
PROPERTIES
    Forward
    EndSeen
