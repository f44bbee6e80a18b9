\* A listener that fails while requests are served.
SPECIFICATION Spec
CONSTANTS
    r1 = r1
    r2 = r2
    r3 = r3
    Requests <- MCRequests
    On <- MCOn
INVARIANTS
    PoolClosesLast
CHECK_DEADLOCK FALSE
