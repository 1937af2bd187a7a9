SPECIFICATION FairSpec
CONSTANTS
    w1 = w1
    w2 = w2
    u1 = u1
    Parts = 2
    Worker = {w1, w2}
    Request = {u1}
    ATTACHMENTS = 2
    Crossing = FALSE
    MAX_ATTEMPTS = 2
    Offered <- OfferedStates
    DiesAt <- Anywhere
    Throws <- Statements
INVARIANTS
    TypeOK
    OneWorker
    ReportIsWhole
    AudioIsDiscarded
    OneChargePerReport
PROPERTIES
    ReportIsFinal
    RowSettles
CHECK_DEADLOCK FALSE
