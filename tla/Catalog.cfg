\* One problem with two versions, one competition, two requests at a time.
SPECIFICATION Spec
CONSTANTS
    Problem = {p1}
    Competition = {c1}
    User = {u1}
    Request = {r1, r2}
    None = None
    MaxOwned = 1
    CreateLead = 1
    UpdateLead = 1
    MaxVersions = 2
    MaxRounds = 2
    MaxExecutions = 1
    MaxTime = 1
    Horizon = 3
SYMMETRY Interchangeable
CHECK_DEADLOCK FALSE
INVARIANTS
    CurrentPublished
    Pinned
PROPERTIES
    RecordsKept
