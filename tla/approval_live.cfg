SPECIFICATION FairSpec
CONSTANTS
    Coordinator = coord
    Advisor = adv
    Students = {s1}
    CoordIsAdvisor = FALSE
    Contents = {c1}
    NoContent = nc
    Grades = {g1}
    NoGrade = ng
    Requests = {r1, r2, r3}
    MaxVersions = 1
    MaxEdits = 0
    MaxRecords = 4
    Faults = {"sign"}
PROPERTIES
    EventuallyRegistered
CHECK_DEADLOCK FALSE
