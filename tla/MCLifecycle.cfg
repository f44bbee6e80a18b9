\* One run of the process with three requests.
SPECIFICATION Spec
CONSTANTS
    r1 = r1
    r2 = r2
    r3 = r3
    Requests <- MCRequests
    On <- MCOn
INVARIANTS
    TypeOK
    CleanExitCutsNothing
PROPERTIES
    SignalEndsIt
    NeverHalfUp
CHECK_DEADLOCK FALSE
