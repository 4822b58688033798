SPECIFICATION Spec
CONSTANTS
    j1 = j1  j2 = j2  m1 = m1  m2 = m2
    Jobs = {j1, j2}
    Machines = {m1, m2}
    MachineOf <- OneMachine
    Seconds = {1}
    Calls = {c1, c2}
INVARIANTS OneClaimPerMachine NeverReplayed ResultsAreFenced OkMeansRecorded
PROPERTIES ImplementsJobBoard
CHECK_DEADLOCK FALSE
SYMMETRY Symmetry
CONSTRAINT FewOutcomes
