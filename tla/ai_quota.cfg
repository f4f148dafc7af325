\* One operation per window, with retention cleanup, stale clock readings,
\* servers that survive and clients that ask again.
CONSTANTS
    u1 = u1
    g1 = g1
    g2 = g2
    x1 = x1
    x2 = x2
    x3 = x3
    may = may
    june = june
    NoSnap = NoSnap
    NoGoal = NoGoal
    Users = {u1}
    Goals = {g1, g2}
    Gens = {x1, x2}
    Months = {may, june}
    Owner <- MCOneOwner
    MonthOf <- MCMonthOf
    Reservation <- MCNoReservation
    MaxTime = 3
    Lease = 1
    Window = 2
    Margin = 1
    Skew = 1
    MonthlyBudget = 0
    MaxOps = 1
    MaxEpoch = 1
    MaxRevision = 0
SPECIFICATION FairSpec
INVARIANTS
    RollingQuota
PROPERTIES
    CostIsSettled
    LeaseIsRecovered
CHECK_DEADLOCK FALSE
