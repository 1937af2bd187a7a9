SPECIFICATION ScheduleSpec
CONSTANTS
    s1 = s1
    s2 = s2
    r1 = r1
    r2 = r2
    Schedule = {s1, s2}
    Recruiter = {r1}
    Applicant = {r2}
    Audience = {"phone"}
    Faults = TRUE
    Overtaking = FALSE
INVARIANTS
    OneConfirmation
    
CHECK_DEADLOCK FALSE
