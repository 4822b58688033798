SPECIFICATION Spec
CONSTANTS
    t1 = t1  t2 = t2  u1 = u1  c1 = c1  s1 = s1  none = none
    Tasks = {t1, t2, u1, c1}
    Schedules = {s1}
    Unscheduled = none
    ScheduleOf <- Mixed
    ControlPlane = {c1}
    Policies <- AllPolicies
    Deliveries = {d1, d2}
    LastDay = 1
    CasAttempts = 2
    MaxFailures = 2
INVARIANTS NoUnscheduledTaskLost DailyJobsFitTheCap
PROPERTIES LedgerAppendOnly EveryRequestEnds
CHECK_DEADLOCK FALSE
