SPECIFICATION Spec
CONSTANTS
    r1 = r1
    r2 = r2
    p1 = p1
    e1 = e1
    e2 = e2
    None = None
    Request = {r1, r2}
    Phone = {p1}
    Email = {e1, e2}
    MaxId = 3
SYMMETRY Identities
INVARIANTS OneApplication SomebodyIsKept ReportedIsReplaced
CHECK_DEADLOCK FALSE
