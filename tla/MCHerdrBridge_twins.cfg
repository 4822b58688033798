SPECIFICATION Spec
CONSTANTS
    j1 = j1  j2 = j2  m1 = m1  b1 = b1  b2 = b2  c1 = c1  c2 = c2
    Jobs = {j1}
    Machines = {m1}
    MachineOf <- OneJob
    Seconds = {1}
    Calls = {c1, c2}
    Bridges = {b1, b2}
    MachineId <- Daemons
    Scientific = {}
    Hermes = {j1}
    Keep = "failed"
    MaxFaults = 2
INVARIANTS PromptedAtMostOnce EvidenceBeforeSuccess RefusedIsRecordedOrOverdue
PROPERTIES UsesTheTable
CHECK_DEADLOCK FALSE
SYMMETRY Symmetry
