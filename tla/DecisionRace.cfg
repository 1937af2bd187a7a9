SPECIFICATION FairSpec
CONSTANTS
    c1 = c1
    c2 = c2
    r1 = r1
    r2 = r2
    Candidate = {c1}
    Request = {r1}
    MaxMails = 2
    SoftCap = 1
    Budget = 1
INVARIANTS
    NoticeIsCurrent

    
CHECK_DEADLOCK FALSE
