\* Three requests; one active job for each owner, two in all.
SPECIFICATION Spec
CONSTANTS
    Request = {r1, r2, r3}
    User = {u1, u2, u3}
    Key = {k1, k2}
    Hash = {h1, h2}
    Ip = {i1}
    None = None
    MaxActivePerUser = 1
    MaxActiveGlobal = 2
    GlobalPerMinute = 2
    IpPerMinute = 2
    UserPerMinute = 1
    Skew = 1
    MaxTime = 1
SYMMETRY Interchangeable
CHECK_DEADLOCK FALSE
INVARIANTS
    CapsHold
    Idempotent
    
    NoDeadlock
