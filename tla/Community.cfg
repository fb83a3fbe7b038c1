\* An administrator and another account, two requests at a time, one active session
\* each.  Two writers and two moderators on two reports; lists of four rows on pages of one;
\* two entrants with two attempts each; six days.
SPECIFICATION CommunitySpec
CONSTANTS
    User = {u1, u2}
    Admin = {u1}
    Subject = {s1, s2}
    Attempt = {a1}
    Request = {r1, r2}
    None = None
    MaxActive = 1
    MaxSessions = 2
    Granted = {"ADMIN"}
    Writer = {r1, r2}
    Moderator = {m1, m2}
    Problem = {p1}
    Post = {1, 2, 3, 4}
    Report = {1, 2}
    Nobody = Nobody
    WriteLimit = 1
    Window = 3
    TxTimeout = 1
    MaxRequests = 2
    MaxTime = 4
    Instant = {1, 2}
    Id = {1, 2}
    PageSize = 1
    NoCursor = NoCursor
    Entrant = {1, 2}
    Task = {"a", "b"}
    Award <- Awards
    WrongPenalty = 1
    Horizon = 4
    MaxAttempts = 2
    Step = 2
    MaxMinute = 2
    MaxDay = 6
CONSTRAINT OneAtATime
SYMMETRY Interchangeable
CHECK_DEADLOCK FALSE
INVARIANTS
    SessionCap
    SignedInOnce
    IdentityAgrees
    DecisionOnce
    WaitsAscend
    
    
    StreakExact

    
