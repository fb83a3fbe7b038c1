\* One attempt, and a supervisor that is started twice.
SPECIFICATION FairJudgingSpec
CONSTANTS
    Call = {c1}
    KeyOf <- OwnAttempt
    Slots = 1
    MaxAdmitted = 2
    MaxSandboxes = 3
    MaxLife = 2
    Execution <- Executions
    Program <- Programs
    OutputBytes = 5
    JudgeBytes = 20
    ClientBytes = 40
CHECK_DEADLOCK FALSE
INVARIANTS
    ProtocolAgreement
    
PROPERTIES
    AbortEnds
    Ends
