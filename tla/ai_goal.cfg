\* One goal through its review into the next cycle: two operations race on it.
CONSTANTS
    u1 = u1
    g1 = g1
    g2 = g2
    x1 = x1
    x2 = x2
    x3 = x3
    may = may
    june = june
    NoSnap = NoSnap
    NoGoal = NoGoal
    Users = {u1}
    Goals = {g1}
    Gens = {x1, x2}
    Months = {may, june}
    Owner <- MCOneOwner
    MonthOf <- MCMonthOf
    Reservation <- MCUnitReservation
    MaxTime = 2
    Lease = 1
    Window = 1
    Margin = 1
    Skew = 0
    MonthlyBudget = 1
    MaxOps = 2
    MaxEpoch = 3
    MaxRevision = 1
SPECIFICATION Spec
INVARIANTS
    TypeOK
    RunningTargetCurrent
    ExposureKept
    Balanced
    WithinBudget
PROPERTIES
    LedgerSpec
SYMMETRY MCSymmetry
CHECK_DEADLOCK FALSE
