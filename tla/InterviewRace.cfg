SPECIFICATION FairSpec
CONSTANTS
    s1 = s1
    s2 = s2
    r1 = r1
    r2 = r2
    Session = {s1}
    Request = {r1, r2}
    MaxTurns = 2
    MaxAgain = 1
    MaxRevived = 2
    Tested = TRUE
    Terse <- FirstTurn
INVARIANTS
    TypeOK
    AutomaticOnce
    ReportOfConversation
PROPERTIES
    ConversationGrows
    LinksEnd
CHECK_DEADLOCK FALSE
