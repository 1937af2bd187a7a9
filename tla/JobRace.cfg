SPECIFICATION Spec
CONSTANTS
    c1 = c1
    c2 = c2
    r1 = r1
    r2 = r2
    Candidate = {c1}
    Request = {r1, r2}
    MaxExtensions = 2
    LastDay = 3
    Patient = TRUE
    Breaker = 1
SYMMETRY Alike
INVARIANTS
    ExtensionsArePaid
    ClosedIsDecided
    RegularIsPaid
CHECK_DEADLOCK FALSE
