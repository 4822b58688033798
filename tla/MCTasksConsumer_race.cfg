SPECIFICATION Spec
CONSTANTS
    t1 = t1  t2 = t2  u1 = u1  c1 = c1  s1 = s1  none = none
    Tasks = {t1, t2}
    Schedules = {s1}
    Unscheduled = none
    ScheduleOf <- Governance
    ControlPlane = {}
    Policies <- OnePolicy
    Deliveries = {d1, d2, d3}
    LastDay = 1
    CasAttempts = 2
    MaxFailures = 2
INVARIANTS StartsAreReserved RowsDistinct ContentionMeansProgress
PROPERTIES ImplementsScheduleBudget
CHECK_DEADLOCK FALSE
SYMMETRY Symmetry
