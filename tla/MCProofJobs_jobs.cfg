SPECIFICATION FairSpec
CONSTANTS
    j1 = j1  j2 = j2  a1 = a1  None = None
    Jobs = {j1, j2}
    AgendaOf <- OneAgenda
    Visits = {v1, v2}
    Operators = {o1}
    Faults = 1
INVARIANTS SubmittedOnce ReservationKept ResultIsOwn OneInferencePerAgenda
PROPERTIES ImplementsProofAgenda EveryJobSettles
CHECK_DEADLOCK FALSE
