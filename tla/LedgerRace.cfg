SPECIFICATION FairSpec
CONSTANTS
    c1 = c1
    c2 = c2
    c3 = c3
    r1 = r1
    r2 = r2
    NoRef = NoRef
    Call = {c1, c2, c3}
    Ref = {r1}
    Operations <- Operation
    Price <- AnyPrice
    Credit <- Credits
    MaxTries = 3
    Faults = TRUE
INVARIANTS
    BalanceChain
    RefundsAreCharges
PROPERTIES
    CallsReturn
CHECK_DEADLOCK FALSE
