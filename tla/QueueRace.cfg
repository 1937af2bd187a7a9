SPECIFICATION Spec
CONSTANTS
    c1 = c1
    c2 = c2
    c3 = c3
    orgA = orgA
    orgB = orgB
    w1 = w1
    w2 = w2
    w3 = w3
    r1 = r1
    r2 = r2
    NoJob = NoJob
    NoCandidate = NoCandidate
    Candidate = {c1}
    Org = {orgA}
    OrgOf <- OneTenant
    Unmetered = {}
    Job <- TwoJobs
    Loop = {w1, w2}
    Requester = {r1, r2}
    MaxConcurrency = 2
    MAX_ATTEMPTS = 2
    Cost = 2
    Grant = 1
    WalletCeil = 1
    Unscored = {}
    Draft = {}
    Closable = {c1}
    Deletable = {c1}
    Reportable = {}
    DiesAt <- Everywhere
    Faults = TRUE
SYMMETRY Workers
INVARIANTS
    OneActiveJob
    OneHolder
    DebtBounded
PROPERTIES
    ChargedStaysDone
