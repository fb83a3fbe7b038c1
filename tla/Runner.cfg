\* Two attempts, one slot, and a supervisor that is started twice.
SPECIFICATION Spec
CONSTANTS
    Call = {c1, c2}
    KeyOf <- OwnAttempt
    Slots = 1
    MaxAdmitted = 2
    MaxSandboxes = 1
    MaxLife = 2
SYMMETRY Calls
CHECK_DEADLOCK FALSE
INVARIANTS
    GuestStopped
    HonestCancel
    GuestBound
