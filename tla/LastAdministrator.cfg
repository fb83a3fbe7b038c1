\* Two accounts, of which one is an administrator; two requests at a time.
SPECIFICATION Spec
CONSTANTS
    User = {u1, u2}
    Admin = {u1}
    Subject = {s1, s2}
    Attempt = {a1}
    Request = {r1, r2}
    None = None
    MaxActive = 1
    MaxSessions = 2
    Granted = {"USER", "MODERATOR", "ADMIN"}
SYMMETRY Interchangeable
CHECK_DEADLOCK FALSE
INVARIANT AdministratorRemains
