SPECIFICATION OrderFairSpec
CONSTANTS
    p1 = p1
    p2 = p2
    k1 = k1
    a1 = a1
    a2 = a2
    Client = {p1, p2}
    Cron = {k1}
    Operator = {p1, p2}
    Admin = {a1, a2}
    DiesAt <- Anywhere
INVARIANTS
    GrantIsPaidFor
    FailedTookNoMoney
    BooksBalance
PROPERTIES
    TakenIsGranted
CHECK_DEADLOCK FALSE
