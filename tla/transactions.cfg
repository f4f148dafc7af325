SPECIFICATION Spec
CONSTANTS
    Tx = {1, 2, 3}
    Starts <- MCStarts
    Program <- MCProgram
    Absent = Absent
    GoalLimit = 3
    UsageLimit = 5
    RateLimit = 2
    BudgetLimit = 2
INVARIANTS
    NoDeadlock
    NoInternalError
PROPERTIES
    CommitsReadable
    CommitsBacked
    CommitsWithinLimit
    LockedRowsStay
