SPECIFICATION Spec
CONSTANTS
    j1 = j1  j2 = j2  m1 = m1  b1 = b1  b2 = b2  c1 = c1  c2 = c2
    Jobs = {j1, j2}
    Machines = {m1}
    MachineOf <- OneMachine
    Seconds = {1}
    Calls = {c1}
    Bridges = {b1}
    MachineId <- OneDaemon
    Scientific = {j2}
    Hermes = {j1}
    Keep = "never"
    MaxFaults = 1
PROPERTIES EveryJobEnds
CHECK_DEADLOCK FALSE
